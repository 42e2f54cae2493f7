-------------------------- MODULE CoordinatorProofs --------------------------
(* What the coordinator acknowledges is committed, copies keep the order of  *)
(* acknowledged writes, and a write fails in trouble only, for any voters,   *)
(* writes, attempts and faults.                                              *)
EXTENDS Coordinator, SequenceTheorems, FiniteSetTheorems, TLAPS

Stage == {"idle", "lookup", "ask", "verify", "unfound", "found", "posted", "ok", "failed", "raised"}

Locals ==
  [stage : Stage, attempt : Nat, todo : Seq(Voter), hint : Voter \cup {None},
   leader : Voter \cup {None}]

CommandPost == [write : Write, attempt : Nat, to : Voter]
CommandEntry == [write : Write, attempt : Nat, late : BOOLEAN]
CommandReply == [write : Write, attempt : Nat, code : {200, 409, 500}]

GroupType ==
  /\ chief \in Voter \cup {None} /\ named \in [Voter -> Voter \cup {None}]
  /\ log \in [Voter -> Seq(CommandEntry)] /\ committed \in Seq(CommandEntry)

TaskType ==
  /\ task \in [Write -> Locals]
  /\ \A w \in Write : task[w].stage = "ask" => task[w].todo # <<>>
  /\ \A w \in Write : task[w].stage = "found" => task[w].leader # None
  /\ after \in [Write -> SUBSET Write]

WireType ==
  /\ cached \in Voter \cup {None}
  /\ claims \subseteq Voter /\ chief \in claims \cup {None}
  /\ posts \subseteq CommandPost
  /\ replies \subseteq CommandReply

CoordinatorType == GroupType /\ TaskType /\ WireType

\* The write is committed by a call that was waited for, and applied.
Settled(w) == \E i \in Copies(w) : Applies(i) /\ ~committed[i].late

OkIsSettled ==
  /\ \A r \in replies : r.code = 200 => Settled(r.write)
  /\ \A w \in Write : task[w].stage = "ok" => Settled(w)

\* A write begins when those before it have been answered.
AfterOk == \A w \in Write : \A x \in after[w] : task[x].stage = "ok" /\ x # w

\* A write that has not begun is not on its way.
NotPosted == \A w \in Write : task[w].stage = "idle" => \A p \in posts : p.write # w

\* What every log holds: nothing of a write that has not begun, and, behind an entry
\* of a write, only late ones of the writes that were over when it began.
Sound(l) ==
  /\ \A w \in Write : task[w].stage = "idle" => \A i \in 1 .. Len(l) : l[i].write # w
  /\ \A w \in Write : \A x \in after[w] : \A i \in 1 .. Len(l) : \A k \in 1 .. Len(l) :
       l[i].write = w /\ l[k].write = x /\ k > i => l[k].late

LogsSound == Sound(committed) /\ \A v \in Voter : Sound(log[v])

Begins(m, l) == Len(m) <= Len(l) /\ \A i \in 1 .. Len(m) : l[i] = m[i]

ChiefHolds == chief # None => Begins(committed, log[chief])

AckInv ==
  /\ CoordinatorType
  /\ OkIsSettled
  /\ AfterOk
  /\ NotPosted
  /\ LogsSound
  /\ ChiefHolds

-----------------------------------------------------------------------------
(* A step of a coroutine: the group is as it was.                          *)

CoroutineStep(w, r) ==
  /\ task[w].stage \notin {"idle", "ok"}
  /\ r \in Locals /\ r.stage # "idle"
  /\ r.stage = "ask" => r.todo # <<>>
  /\ r.stage = "found" => r.leader # None
  /\ r.stage = "ok" => Settled(w)
  /\ task' = [task EXCEPT ![w] = r]
  /\ \A p \in posts' : p \in posts \/ (p \in CommandPost /\ p.write = w)
  /\ replies' \subseteq replies
  /\ cached' \in Voter \cup {None}
  /\ UNCHANGED <<group, after>>

LEMMA CoroutineKeeps ==
  ASSUME AckInv, NEW w \in Write, NEW r, CoroutineStep(w, r)
  PROVE  AckInv'
<1>1. /\ task'[w] = r
      /\ \A x \in Write \ {w} : task'[x] = task[x]
  BY DEF AckInv, CoordinatorType, TaskType, CoroutineStep
<1>2. CoordinatorType'
  <2>1. task' \in [Write -> Locals]
    BY DEF AckInv, CoordinatorType, TaskType, CoroutineStep
  <2>2. TaskType'
    BY <1>1, <2>1 DEF AckInv, CoordinatorType, TaskType, CoroutineStep
  <2>3. GroupType' /\ WireType'
    BY DEF AckInv, CoordinatorType, GroupType, WireType, CoroutineStep, group
  <2>. QED  BY <2>2, <2>3 DEF CoordinatorType
<1>3. \A x : Settled(x)' <=> Settled(x)
  BY DEF CoroutineStep, group, Settled, Copies, Applies
<1>4. ChiefHolds'
  BY DEF AckInv, ChiefHolds, Begins, CoroutineStep, group
<1>5. OkIsSettled'
  BY <1>1, <1>3 DEF AckInv, OkIsSettled, CoroutineStep
<1>6. AfterOk'
  <2>. SUFFICES ASSUME NEW y \in Write, NEW x \in after[y]
                PROVE  task'[x].stage = "ok" /\ x # y
    BY DEF AfterOk, CoroutineStep
  <2>1. x \in Write /\ task[x].stage = "ok" /\ x # y
    BY DEF AckInv, AfterOk, CoordinatorType, TaskType
  <2>. QED  BY <1>1, <2>1 DEF CoroutineStep
<1>7. NotPosted'
  BY <1>1 DEF AckInv, NotPosted, CoroutineStep
<1>8. LogsSound'
  <2>1. \A x \in Write : task'[x].stage = "idle" => task[x].stage = "idle"
    BY <1>1 DEF CoroutineStep
  <2>2. log' = log /\ committed' = committed /\ after' = after
    BY DEF CoroutineStep, group
  <2>. QED  BY <2>1, <2>2 DEF AckInv, LogsSound, Sound
<1>. QED  BY <1>2, <1>4, <1>5, <1>6, <1>7, <1>8 DEF AckInv

LEMMA NextAttemptLocals ==
  ASSUME AckInv, NEW w \in Write, NEW end \in {"failed", "raised"}, NextAttempt(w, end)
  PROVE  \E r \in Locals : /\ task' = [task EXCEPT ![w] = r]
                           /\ r.stage \in {"lookup", "failed", "raised"}
<1>1. PICK k \in Nat : k = task[w].attempt
  BY DEF AckInv, CoordinatorType, TaskType, Locals
<1>. DEFINE again == [Idle EXCEPT !.stage = "lookup", !.attempt = k + 1]
            over == [Idle EXCEPT !.stage = end, !.attempt = k]
<1>2. k + 1 \in Nat /\ <<>> \in Seq(Voter)
  BY EmptySeq
<1>3. again \in Locals /\ again.stage = "lookup"
  BY <1>2 DEF Idle, Locals, Stage
<1>4. over \in Locals /\ over.stage = end
  BY <1>2 DEF Idle, Locals, Stage
<1>5. task' = [task EXCEPT ![w] = again] \/ task' = [task EXCEPT ![w] = over]
  BY <1>1 DEF NextAttempt, Step
<1>. HIDE DEF again, over
<1>. QED  BY <1>3, <1>4, <1>5

LEMMA NotFoundLocals ==
  ASSUME AckInv, NEW w \in Write, task[w].stage \in {"ask", "verify"},
         NEW hint \in Voter \cup {None}, NotFound(w, hint)
  PROVE  \E r \in Locals : /\ task' = [task EXCEPT ![w] = r]
                           /\ r.stage \in {"ask", "verify", "unfound"}
                           /\ r.stage = "ask" => r.todo # <<>>
<1>1. PICK t \in Locals : t = task[w] /\ (t.stage = "ask" => t.todo # <<>>)
  <2>1. task[w] \in Locals
    BY DEF AckInv, CoordinatorType, TaskType
  <2>2. task[w].stage = "ask" => task[w].todo # <<>>
    BY DEF AckInv, CoordinatorType, TaskType
  <2>. QED  BY <2>1, <2>2
<1>2. CASE t.stage = "ask"
  <2>1. PICK rest \in Seq(Voter) : rest = Tail(t.todo)
    BY <1>1, <1>2, HeadTailProperties DEF Locals
  <2>. DEFINE next == IF rest # <<>> THEN "ask" ELSE IF hint # None THEN "verify" ELSE "unfound"
              r == [t EXCEPT !.todo = rest, !.hint = hint, !.stage = next]
  <2>2. r \in Locals /\ r.stage = next /\ r.todo = rest
    BY <2>1 DEF Locals, Stage
  <2>3. task' = [task EXCEPT ![w] = r]
    BY <1>1, <1>2, <2>1 DEF NotFound, Elsewhere, Step
  <2>4. next \in {"ask", "verify", "unfound"} /\ (next = "ask" => rest # <<>>)
    OBVIOUS
  <2>. HIDE DEF r, next
  <2>. QED  BY <2>2, <2>3, <2>4
<1>3. CASE t.stage # "ask"
  <2>. DEFINE r == [t EXCEPT !.stage = "unfound"]
  <2>1. r \in Locals /\ r.stage = "unfound"
    BY DEF Locals, Stage
  <2>2. task' = [task EXCEPT ![w] = r]
    BY <1>1, <1>3 DEF NotFound, Step
  <2>. QED  BY <2>1, <2>2
<1>. QED  BY <1>2, <1>3

LEMMA PostLocals ==
  ASSUME AckInv, NEW w \in Write, NEW v \in Voter, Post(w, v)
  PROVE  /\ \E r \in Locals : task' = [task EXCEPT ![w] = r] /\ r.stage = "posted"
         /\ \A p \in posts' : p \in posts \/ (p \in CommandPost /\ p.write = w)
         /\ replies' = replies
<1>1. PICK t \in Locals : t = task[w]
  BY DEF AckInv, CoordinatorType, TaskType
<1>. DEFINE r == [t EXCEPT !.stage = "posted", !.leader = v]
<1>2. r \in Locals /\ r.stage = "posted"
  BY DEF Locals, Stage
<1>3. task' = [task EXCEPT ![w] = r]
  BY <1>1 DEF Post, Step
<1>4. PICK p \in CommandPost : p = [write |-> w, attempt |-> t.attempt, to |-> v] /\ p.write = w
  <2>1. PICK k \in Nat : k = t.attempt
    BY DEF Locals
  <2>2. [write |-> w, attempt |-> k, to |-> v] \in CommandPost
    BY <2>1 DEF CommandPost
  <2>. QED  BY <2>1, <2>2
<1>5. posts' = posts \cup {p} /\ replies' = replies
  BY <1>1, <1>4 DEF Post
<1>. HIDE DEF r
<1>. QED  BY <1>2, <1>3, <1>4, <1>5

-----------------------------------------------------------------------------
(* The actions of a coroutine.                                             *)

LEMMA LookUps ==
  ASSUME AckInv, NEW w \in Write, LookUp(w)
  PROVE  AckInv'
<1>1. PICK t \in Locals : t = task[w] /\ t.stage = "lookup"
  BY DEF AckInv, CoordinatorType, TaskType, LookUp
<1>2. cached' = cached /\ cached \in Voter \cup {None} /\ UNCHANGED <<group, after>>
  BY DEF LookUp, ghosts, past, AckInv, CoordinatorType, WireType
<1>3. CASE cached # None /\ Post(w, cached)
  BY <1>1, <1>2, <1>3, PostLocals, CoroutineKeeps DEF CoroutineStep
<1>4. CASE /\ Step(w, [task[w] EXCEPT !.stage = "ask", !.todo = Voters])
           /\ UNCHANGED wire
  <2>. DEFINE r == [t EXCEPT !.stage = "ask", !.todo = Voters]
  <2>1. r \in Locals /\ r.stage = "ask" /\ r.todo # <<>>
    BY CoordinatorAssumption DEF Locals, Stage
  <2>2. task' = [task EXCEPT ![w] = r]
    BY <1>1, <1>4 DEF Step
  <2>3. CoroutineStep(w, r)
    BY <1>1, <1>2, <1>4, <2>1, <2>2 DEF CoroutineStep, wire
  <2>. QED  BY <2>3, CoroutineKeeps
<1>. QED  BY <1>3, <1>4 DEF LookUp

LEMMA AnswerStates ==
  ASSUME AckInv, NEW w \in Write, NEW v \in Voter, AnswerState(w, v)
  PROVE  AckInv'
<1>1. PICK t \in Locals : t = task[w] /\ t.stage \in {"ask", "verify"}
  BY DEF AckInv, CoordinatorType, TaskType, AnswerState, Asks
<1>2. /\ cached' = cached /\ cached \in Voter \cup {None}
      /\ posts' = posts /\ replies' = replies /\ UNCHANGED <<group, after>>
  BY DEF AnswerState, ghosts, past, wire, AckInv, CoordinatorType, WireType
<1>3. CASE v \in claims
  <2>. DEFINE r == [t EXCEPT !.stage = "found", !.leader = v, !.todo = <<>>, !.hint = None]
  <2>1. <<>> \in Seq(Voter)
    BY EmptySeq
  <2>2. r \in Locals /\ r.stage = "found" /\ r.leader # None
    BY <2>1, CoordinatorAssumption DEF Locals, Stage
  <2>3. task' = [task EXCEPT ![w] = r]
    BY <1>1, <1>3 DEF AnswerState, Step
  <2>4. CoroutineStep(w, r)
    BY <1>1, <1>2, <2>2, <2>3 DEF CoroutineStep
  <2>. QED  BY <2>4, CoroutineKeeps
<1>4. CASE v \notin claims
  <2>1. PICK hint \in Voter \cup {None} : hint = IF named[v] = None THEN t.hint ELSE named[v]
    BY DEF Locals, AckInv, CoordinatorType, GroupType
  <2>2. NotFound(w, hint)
    BY <1>1, <1>4, <2>1 DEF AnswerState
  <2>3. PICK r \in Locals : /\ task' = [task EXCEPT ![w] = r]
                            /\ r.stage \in {"ask", "verify", "unfound"}
                            /\ r.stage = "ask" => r.todo # <<>>
    BY <1>1, <2>2, NotFoundLocals
  <2>4. CoroutineStep(w, r)
    BY <1>1, <1>2, <2>3 DEF CoroutineStep
  <2>. QED  BY <2>4, CoroutineKeeps
<1>. QED  BY <1>3, <1>4

LEMMA StateCallsFail ==
  ASSUME AckInv, NEW w \in Write, NEW v \in Voter, StateCallFails(w, v)
  PROVE  AckInv'
<1>1. PICK t \in Locals : t = task[w] /\ t.stage \in {"ask", "verify"}
  BY DEF AckInv, CoordinatorType, TaskType, StateCallFails, Asks
<1>2. /\ cached' = cached /\ cached \in Voter \cup {None}
      /\ posts' = posts /\ replies' = replies /\ UNCHANGED <<group, after>>
  BY DEF past, StateCallFails, wire, AckInv, CoordinatorType, WireType
<1>3. PICK hint \in Voter \cup {None} : hint = t.hint /\ NotFound(w, hint)
  BY <1>1 DEF Locals, StateCallFails
<1>4. PICK r \in Locals : /\ task' = [task EXCEPT ![w] = r]
                          /\ r.stage \in {"ask", "verify", "unfound"}
                          /\ r.stage = "ask" => r.todo # <<>>
  BY <1>1, <1>3, NotFoundLocals
<1>5. CoroutineStep(w, r)
  BY <1>1, <1>2, <1>4 DEF CoroutineStep
<1>. QED  BY <1>5, CoroutineKeeps

LEMMA LeadersUsed ==
  ASSUME AckInv, NEW w \in Write, UseLeader(w)
  PROVE  AckInv'
<1>1. PICK v \in Voter : v = task[w].leader /\ task[w].stage = "found"
  BY DEF UseLeader, AckInv, CoordinatorType, TaskType, Locals
<1>2. cached' = v /\ Post(w, v) /\ UNCHANGED <<group, after>>
  BY <1>1 DEF UseLeader, ghosts, past
<1>3. PICK r \in Locals : task' = [task EXCEPT ![w] = r] /\ r.stage = "posted"
  BY <1>2, PostLocals
<1>4. CoroutineStep(w, r)
  BY <1>1, <1>2, <1>3, PostLocals DEF CoroutineStep
<1>. QED  BY <1>4, CoroutineKeeps

LEMMA NoLeaders ==
  ASSUME AckInv, NEW w \in Write, NoLeader(w)
  PROVE  AckInv'
<1>1. /\ task[w].stage = "unfound" /\ cached' = None
      /\ posts' = posts /\ replies' = replies /\ UNCHANGED <<group, after>>
  BY DEF NoLeader, wire, ghosts, past
<1>2. PICK r \in Locals : /\ task' = [task EXCEPT ![w] = r]
                          /\ r.stage \in {"lookup", "failed", "raised"}
  BY NextAttemptLocals DEF NoLeader
<1>3. CoroutineStep(w, r)
  BY <1>1, <1>2 DEF CoroutineStep
<1>. QED  BY <1>3, CoroutineKeeps

LEMMA RepliesRead ==
  ASSUME AckInv, NEW w \in Write, NEW a \in replies, ReadReply(w, a)
  PROVE  AckInv'
<1>1. /\ task[w].stage = "posted" /\ a.write = w
      /\ posts' = posts /\ replies' \subseteq replies /\ UNCHANGED <<group, after>>
  BY DEF ReadReply, ghosts, past
<1>2. CASE a.code = 200
  <2>1. PICK t \in Locals : t = task[w]
    BY DEF AckInv, CoordinatorType, TaskType
  <2>. DEFINE r == [t EXCEPT !.stage = "ok"]
  <2>2. r \in Locals /\ r.stage = "ok"
    BY DEF Locals, Stage
  <2>3. task' = [task EXCEPT ![w] = r] /\ cached' = cached
    BY <1>2, <2>1 DEF ReadReply, Step
  <2>4. Settled(w)
    BY <1>1, <1>2 DEF AckInv, OkIsSettled
  <2>. HIDE DEF r
  <2>5. CoroutineStep(w, r)
    BY <1>1, <2>2, <2>3, <2>4 DEF CoroutineStep, AckInv, CoordinatorType, WireType
  <2>. QED  BY <2>5, CoroutineKeeps
<1>3. CASE a.code # 200
  <2>1. cached' = None /\ NextAttempt(w, "failed")
    BY <1>3 DEF ReadReply
  <2>2. PICK r \in Locals : /\ task' = [task EXCEPT ![w] = r]
                            /\ r.stage \in {"lookup", "failed", "raised"}
    BY <2>1, NextAttemptLocals
  <2>3. CoroutineStep(w, r)
    BY <1>1, <2>1, <2>2 DEF CoroutineStep
  <2>. QED  BY <2>3, CoroutineKeeps
<1>. QED  BY <1>2, <1>3

LEMMA CallsFail ==
  ASSUME AckInv, NEW w \in Write, CallFails(w)
  PROVE  AckInv'
<1>1. /\ task[w].stage = "posted" /\ cached' = None
      /\ posts' \subseteq posts /\ replies' \subseteq replies /\ UNCHANGED <<group, after>>
  BY DEF past, CallFails
<1>2. PICK r \in Locals : /\ task' = [task EXCEPT ![w] = r]
                          /\ r.stage \in {"lookup", "failed", "raised"}
  BY NextAttemptLocals DEF CallFails
<1>3. CoroutineStep(w, r)
  BY <1>1, <1>2 DEF CoroutineStep
<1>. QED  BY <1>3, CoroutineKeeps

\* A write begins after those that were answered "ok", which are settled, and has no
\* copy yet.
LEMMA WritesBegin ==
  ASSUME AckInv, NEW w \in Write, BeginWrite(w)
  PROVE  AckInv'
<1>. DEFINE r == [Idle EXCEPT !.stage = "lookup", !.attempt = 1]
            done == {x \in Write : task[x].stage = "ok"}
<1>1. r \in Locals /\ r.stage = "lookup"
  <2>1. <<>> \in Seq(Voter)
    BY EmptySeq
  <2>. QED  BY <2>1 DEF Locals, Idle, Stage
<1>2. /\ task' = [task EXCEPT ![w] = r] /\ after' = [after EXCEPT ![w] = done]
      /\ task[w].stage = "idle" /\ UNCHANGED <<group, cached, posts, replies>>
  BY DEF BeginWrite, Step, Idle, wire
<1>. HIDE DEF r
<1>3. /\ task'[w] = r /\ after'[w] = done
      /\ \A x \in Write \ {w} : task'[x] = task[x] /\ after'[x] = after[x]
  BY <1>2 DEF AckInv, CoordinatorType, TaskType
<1>4. CoordinatorType'
  <2>1. task' \in [Write -> Locals] /\ after' \in [Write -> SUBSET Write]
    BY <1>1, <1>2 DEF AckInv, CoordinatorType, TaskType
  <2>2. TaskType'
    BY <1>1, <1>3, <2>1 DEF AckInv, CoordinatorType, TaskType
  <2>3. GroupType' /\ WireType'
    BY <1>2 DEF AckInv, CoordinatorType, GroupType, WireType, group
  <2>. QED  BY <2>2, <2>3 DEF CoordinatorType
<1>5. \A x : Settled(x)' <=> Settled(x)
  BY <1>2 DEF group, Settled, Copies, Applies
<1>6. ChiefHolds'
  BY <1>2 DEF AckInv, ChiefHolds, Begins, group
<1>7. OkIsSettled'
  BY <1>1, <1>2, <1>3, <1>5 DEF AckInv, OkIsSettled
<1>8. NotPosted'
  BY <1>1, <1>2, <1>3 DEF AckInv, NotPosted
<1>9. AfterOk'
  <2>. SUFFICES ASSUME NEW y \in Write, NEW x \in after'[y]
                PROVE  task'[x].stage = "ok" /\ x # y
    BY DEF AfterOk
  <2>1. CASE y = w
    <3>1. x \in Write /\ task[x].stage = "ok" /\ x # w
      BY <1>2, <1>3, <2>1
    <3>. QED  BY <1>3, <2>1, <3>1
  <2>2. CASE y # w
    <3>1. x \in Write /\ task[x].stage = "ok" /\ x # y
      BY <1>3, <2>2 DEF AckInv, AfterOk, CoordinatorType, TaskType
    <3>. QED  BY <1>2, <1>3, <3>1
  <2>. QED  BY <2>1, <2>2
<1>10. ASSUME NEW l, Sound(l)
       PROVE  Sound(l)'
  <2>1. \A y \in Write : task'[y].stage = "idle" => task[y].stage = "idle"
    BY <1>1, <1>3
  <2>2. \A i \in 1 .. Len(l) : l[i].write # w
    BY <1>2, <1>10 DEF Sound
  <2>3. \A y \in Write \ {w} : after'[y] = after[y]
    BY <1>3
  <2>. QED  BY <1>10, <2>1, <2>2, <2>3 DEF Sound
<1>11. LogsSound'
  <2>1. log' = log /\ committed' = committed
    BY <1>2 DEF group
  <2>2. Sound(committed)'
    <3>1. PICK l : l = committed
      OBVIOUS
    <3>2. Sound(l)'
      BY <1>10, <3>1 DEF AckInv, LogsSound
    <3>. QED  BY <2>1, <3>1, <3>2 DEF Sound
  <2>3. ASSUME NEW v \in Voter
        PROVE  Sound(log[v])'
    <3>1. PICK l : l = log[v]
      OBVIOUS
    <3>2. Sound(l)'
      BY <1>10, <3>1 DEF AckInv, LogsSound
    <3>. QED  BY <2>1, <3>1, <3>2 DEF Sound
  <2>. QED  BY <2>2, <2>3 DEF LogsSound
<1>. QED  BY <1>4, <1>6, <1>7, <1>8, <1>9, <1>11 DEF AckInv

-----------------------------------------------------------------------------
(* The steps of the group.                                                 *)

\* What is committed is applied, or in the way, for good.
LEMMA AppliesStays ==
  ASSUME GroupType, GroupType', Begins(committed, committed'), NEW i \in 1 .. Len(committed)
  PROVE  /\ i \in 1 .. Len(committed') /\ committed'[i] = committed[i]
         /\ Applies(i)' <=> Applies(i)
<1>1. PICK m \in Seq(CommandEntry), l \in Seq(CommandEntry) :
        m = committed /\ l = committed' /\ Begins(m, l)
  BY DEF GroupType
<1>2. Len(m) \in Nat /\ Len(l) \in Nat /\ Len(m) <= Len(l) /\ i \in Nat
  BY <1>1, LenProperties DEF Begins
<1>3. ASSUME NEW j \in 1 .. i
      PROVE  SubSeq(l, 1, j - 1) = SubSeq(m, 1, j - 1) /\ l[j] = m[j]
  <2>1. PICK n \in Nat : n = j - 1 /\ n <= Len(m) /\ n <= Len(l) /\ j \in 1 .. Len(m)
    BY <1>1, <1>2
  <2>2. /\ SubSeq(m, 1, n) \in Seq(CommandEntry) /\ SubSeq(l, 1, n) \in Seq(CommandEntry)
        /\ Len(SubSeq(m, 1, n)) = n /\ Len(SubSeq(l, 1, n)) = n
        /\ \A k \in 1 .. n : SubSeq(m, 1, n)[k] = m[k] /\ SubSeq(l, 1, n)[k] = l[k]
    <3>1. /\ 1 \in 1 .. Len(m) + 1 /\ n \in 0 .. Len(m)
          /\ 1 \in 1 .. Len(l) + 1 /\ n \in 0 .. Len(l)
      BY <1>2, <2>1
    <3>. QED  BY <2>1, <3>1, SubSeqProperties
  <2>3. \A k \in 1 .. n : SubSeq(m, 1, n)[k] = SubSeq(l, 1, n)[k]
    BY <1>1, <1>2, <2>1, <2>2 DEF Begins
  <2>4. SubSeq(l, 1, n) = SubSeq(m, 1, n)
    BY <2>2, <2>3, SeqEqual
  <2>. QED  BY <1>1, <2>1, <2>4 DEF Begins
<1>4. Applies(i)' <=> Applies(i)
  BY <1>1, <1>3 DEF Applies
<1>. QED  BY <1>1, <1>2, <1>4 DEF Begins

LEMMA SettledStays ==
  ASSUME GroupType, GroupType', Begins(committed, committed'), NEW w, Settled(w)
  PROVE  Settled(w)'
<1>1. PICK i \in Copies(w) : Applies(i) /\ ~committed[i].late
  BY DEF Settled
<1>2. i \in 1 .. Len(committed) /\ committed[i].write = w
  BY <1>1 DEF Copies
<1>3. i \in Copies(w)' /\ Applies(i)' /\ ~committed'[i].late
  BY <1>1, <1>2, AppliesStays DEF Copies
<1>. QED  BY <1>3 DEF Settled

LEMMA StuckStays ==
  ASSUME GroupType, GroupType', Begins(committed, committed'), Stuck
  PROVE  Stuck'
BY AppliesStays DEF Stuck

\* A log is as sound after a step that changes no coroutine as before.
LEMMA SoundStays ==
  ASSUME NEW l, Sound(l), UNCHANGED <<task, after>>
  PROVE  Sound(l)'
BY DEF Sound

\* The log with a command at its end: behind entries of a write that began after this
\* one was answered, it comes too late for anybody to wait for it.
LEMMA LongerSound ==
  ASSUME AckInv, NEW p \in posts
  PROVE  \E w \in Write, l \in Seq(CommandEntry), k \in Nat :
           /\ w = p.write /\ task[w].stage # "idle" /\ p.to \in Voter
           /\ l = Longer(p) /\ Len(l) = k + 1 /\ k = Len(log[p.to])
           /\ l[k + 1].write = w /\ l[k + 1].late = ~Waits(p)
           /\ Begins(log[p.to], l) /\ Sound(l)
<1>1. PICK w \in Write, v \in Voter, a \in Nat : w = p.write /\ v = p.to /\ a = p.attempt
  BY DEF AckInv, CoordinatorType, WireType, CommandPost
<1>2. PICK m \in Seq(CommandEntry) : m = log[v] /\ Sound(m)
  BY DEF AckInv, CoordinatorType, GroupType, LogsSound
<1>3. PICK e \in CommandEntry : e = [write |-> w, attempt |-> a, late |-> ~Waits(p)]
  <2>1. (~Waits(p)) \in BOOLEAN
    BY Zenon
  <2>. QED  BY <2>1 DEF CommandEntry
<1>4. e.write = w /\ e.late = ~Waits(p)
  BY <1>3
<1>5. PICK l \in Seq(CommandEntry) : l = Longer(p) /\ l = Append(m, e)
  BY <1>1, <1>2, <1>3, AppendProperties DEF Longer
<1>6. PICK k \in Nat : /\ k = Len(m) /\ Len(l) = k + 1
                       /\ l[k + 1] = e /\ \A i \in 1 .. k : l[i] = m[i]
  BY <1>5, AppendProperties, LenProperties
<1>7. task[w].stage # "idle"
  BY <1>1 DEF AckInv, NotPosted
<1>8. ASSUME NEW y \in Write, task[y].stage = "idle", NEW i \in 1 .. Len(l)
      PROVE  l[i].write # y
  <2>1. CASE i = k + 1
    BY <1>4, <1>6, <1>7, <1>8, <2>1
  <2>2. CASE i # k + 1
    <3>1. i \in 1 .. Len(m) /\ l[i] = m[i]
      BY <1>6, <2>2
    <3>. QED  BY <1>2, <1>8, <3>1 DEF Sound
  <2>. QED  BY <2>1, <2>2
<1>9. ASSUME NEW y \in Write, NEW x \in after[y], NEW i \in 1 .. Len(l), NEW n \in 1 .. Len(l),
             l[i].write = y, l[n].write = x, n > i
      PROVE  l[n].late
  <2>1. CASE n = k + 1
    <3>1. x = w /\ task[x].stage = "ok"
      BY <1>4, <1>6, <1>9, <2>1 DEF AckInv, AfterOk
    <3>2. ~Waits(p)
      BY <1>1, <3>1 DEF Waits
    <3>. QED  BY <1>4, <1>6, <2>1, <3>2
  <2>2. CASE n # k + 1
    <3>1. n \in 1 .. Len(m) /\ i \in 1 .. Len(m) /\ l[n] = m[n] /\ l[i] = m[i]
      BY <1>6, <1>9, <2>2
    <3>. QED  BY <1>2, <1>9, <3>1 DEF Sound
  <2>. QED  BY <2>1, <2>2
<1>10. Sound(l)
  BY <1>8, <1>9 DEF Sound
<1>11. Begins(log[v], l)
  BY <1>2, <1>6 DEF Begins
<1>. QED  BY <1>1, <1>2, <1>4, <1>5, <1>6, <1>7, <1>10, <1>11

\* The coroutines, the logs and what the acknowledgements may still count on.
GroupKeeps ==
  /\ GroupType' /\ Begins(committed, committed')
  /\ claims' \subseteq Voter /\ chief' \in claims' \cup {None}
  /\ UNCHANGED <<task, cached, after>>
  /\ posts' \subseteq posts /\ replies' \subseteq CommandReply
  /\ \A r \in replies' : r \in replies \/ (r.code = 200 => Settled(r.write)')
  /\ Sound(committed') /\ \A v \in Voter : Sound(log'[v])
  /\ ChiefHolds'

LEMMA GroupKeepsAll ==
  ASSUME AckInv, GroupKeeps
  PROVE  AckInv'
<1>1. CoordinatorType'
  BY DEF AckInv, CoordinatorType, TaskType, WireType, GroupKeeps
<1>2. OkIsSettled'
  BY SettledStays DEF AckInv, CoordinatorType, OkIsSettled, GroupKeeps
<1>3. AfterOk' /\ NotPosted'
  BY DEF AckInv, AfterOk, NotPosted, GroupKeeps
<1>4. LogsSound'
  <2>1. Sound(committed)'
    <3>1. PICK l : l = committed' /\ Sound(l)
      BY DEF GroupKeeps
    <3>2. Sound(l)'
      BY <3>1, SoundStays DEF GroupKeeps
    <3>. QED  BY <3>1, <3>2 DEF Sound
  <2>2. ASSUME NEW v \in Voter
        PROVE  Sound(log[v])'
    <3>1. PICK l : l = log'[v] /\ Sound(l)
      BY DEF GroupKeeps
    <3>2. Sound(l)'
      BY <3>1, SoundStays DEF GroupKeeps
    <3>. QED  BY <3>1, <3>2 DEF Sound
  <2>. QED  BY <2>1, <2>2 DEF LogsSound
<1>. QED  BY <1>1, <1>2, <1>3, <1>4 DEF AckInv, GroupKeeps

LEMMA BeginsItself ==
  ASSUME NEW l \in Seq(CommandEntry)
  PROVE  Begins(l, l)
BY LenProperties DEF Begins

LEMMA BeginsChain ==
  ASSUME NEW l \in Seq(CommandEntry), NEW m \in Seq(CommandEntry), NEW n \in Seq(CommandEntry),
         Begins(l, m), Begins(m, n)
  PROVE  Begins(l, n)
<1>1. Len(l) \in Nat /\ Len(m) \in Nat /\ Len(n) \in Nat /\ Len(l) <= Len(m) /\ Len(m) <= Len(n)
  BY LenProperties DEF Begins
<1>2. \A i \in 1 .. Len(l) : i \in 1 .. Len(m)
  BY <1>1
<1>. QED  BY <1>1, <1>2 DEF Begins

\* A leader that is elected holds what is committed; the logs stay as they are.
LEMMA ChangesOfLeader ==
  ASSUME AckInv, NEW v \in Voter \cup {None}, ChangeLeader(v)
  PROVE  AckInv'
<1>1. /\ chief' = v /\ v # chief /\ UNCHANGED <<log, committed, task, cached, after, posts, replies>>
      /\ v # None => IsPrefix(committed, log[v])
  BY DEF ChangeLeader, wire
<1>2. GroupType'
  <2>1. named' = [u \in Voter |-> IF u = v THEN v ELSE named[u]]
    BY DEF ChangeLeader
  <2>. QED  BY <1>1, <2>1 DEF AckInv, CoordinatorType, GroupType
<1>3. claims' \subseteq Voter /\ v \in claims' \cup {None}
  BY <1>1 DEF ChangeLeader, AckInv, CoordinatorType, WireType
<1>4. ASSUME v # None
      PROVE  Begins(committed, log[v])
  <2>1. PICK m \in Seq(CommandEntry), l \in Seq(CommandEntry) : m = committed /\ l = log[v]
    BY <1>4 DEF AckInv, CoordinatorType, GroupType
  <2>2. /\ Len(m) \in Nat /\ Len(l) \in Nat /\ Len(m) <= Len(l)
        /\ SubSeq(m, 1, Len(m)) = SubSeq(l, 1, Len(m))
    BY <1>1, <1>4, <2>1, LenProperties DEF IsPrefix
  <2>3. \A i \in 1 .. Len(m) : SubSeq(m, 1, Len(m))[i] = m[i] /\ SubSeq(l, 1, Len(m))[i] = l[i]
    <3>1. /\ 1 \in 1 .. Len(m) + 1 /\ Len(m) \in 0 .. Len(m)
          /\ 1 \in 1 .. Len(l) + 1 /\ Len(m) \in 0 .. Len(l)
      BY <2>2
    <3>. QED  BY <3>1, SubSeqProperties
  <2>. QED  BY <2>1, <2>2, <2>3 DEF Begins
<1>5. Begins(committed, committed')
  BY <1>1, BeginsItself DEF AckInv, CoordinatorType, GroupType
<1>6. ChiefHolds'
  BY <1>1, <1>4 DEF ChiefHolds, Begins
<1>7. GroupKeeps
  BY <1>1, <1>2, <1>3, <1>5, <1>6
  DEF GroupKeeps, AckInv, CoordinatorType, WireType, LogsSound
<1>. QED  BY <1>7, GroupKeepsAll

\* Voters take `entries` from a leader: the logs are those that there were, or these.
LEMMA Taken ==
  ASSUME AckInv, NEW R \in SUBSET Voter, NEW u \in Voter, NEW l \in Seq(CommandEntry), Sound(l),
         Take(R, u, l)
  PROVE  /\ log' \in [Voter -> Seq(CommandEntry)] /\ \A v \in Voter : Sound(log'[v])
         /\ log'[u] = l
         /\ named' \in [Voter -> Voter \cup {None}]
         /\ claims' \subseteq claims /\ (u \in claims => u \in claims')
<1>1. /\ log' = [v \in Voter |-> IF v \in R \cup {u} THEN l ELSE log[v]]
      /\ claims' = claims \ (R \ {u})
      /\ named' = [v \in Voter |-> IF v \in R THEN u ELSE named[v]]
  BY DEF Take
<1>. QED  BY <1>1 DEF AckInv, CoordinatorType, GroupType, LogsSound

LEMMA Hears ==
  ASSUME AckInv, NEW v \in Voter, Hear(v)
  PROVE  AckInv'
<1>1. /\ UNCHANGED <<committed, task, cached, after, posts, replies, chief>>
      /\ chief \in Voter /\ v # chief
  BY DEF past, Hear, wire, AckInv, CoordinatorType, GroupType
<1>2. PICK l \in Seq(CommandEntry) : l = log[chief] /\ Sound(l)
  BY <1>1 DEF AckInv, CoordinatorType, GroupType, LogsSound
<1>3. /\ log' \in [Voter -> Seq(CommandEntry)] /\ \A u \in Voter : Sound(log'[u])
      /\ log'[chief] = l /\ named' \in [Voter -> Voter \cup {None}]
      /\ claims' \subseteq claims /\ (chief \in claims => chief \in claims')
  <2>1. CASE Take({v}, chief, log[chief])
    BY <1>1, <1>2, <2>1, Taken
  <2>2. CASE claims' = claims \ {v} /\ named' = [named EXCEPT ![v] = chief] /\ UNCHANGED log
    BY <1>1, <1>2, <2>2 DEF AckInv, CoordinatorType, GroupType, LogsSound
  <2>. QED  BY <2>1, <2>2 DEF Hear
<1>4. GroupType' /\ Begins(committed, committed')
  BY <1>1, <1>3, BeginsItself DEF AckInv, CoordinatorType, GroupType
<1>5. ChiefHolds'
  BY <1>1, <1>2, <1>3 DEF ChiefHolds, Begins, AckInv
<1>6. claims' \subseteq Voter /\ chief' \in claims' \cup {None}
  BY <1>1, <1>3 DEF AckInv, CoordinatorType, WireType
<1>7. Sound(committed')
  BY <1>1 DEF AckInv, LogsSound
<1>8. GroupKeeps
  BY <1>1, <1>3, <1>4, <1>5, <1>6, <1>7 DEF GroupKeeps, AckInv, CoordinatorType, WireType
<1>. QED  BY <1>8, GroupKeepsAll

\* A command is served: its answer, if anybody waits for it, and nothing else.
LEMMA Serves ==
  ASSUME AckInv, NEW p \in posts, NEW code \in {200, 409, 500}, Serve(p, code)
  PROVE  /\ UNCHANGED <<chief, task, cached, after>> /\ posts' \subseteq posts
         /\ replies' \subseteq CommandReply
         /\ \A r \in replies' : \/ r \in replies
                                \/ r.code = code /\ r.write = p.write /\ Waits(p)
<1>1. p \in CommandPost
  BY DEF AckInv, CoordinatorType, WireType
<1>2. PICK w \in Write, k \in Nat : w = p.write /\ k = p.attempt
  BY <1>1 DEF CommandPost
<1>3. PICK r \in CommandReply : r = Reply(p, code) /\ r.code = code /\ r.write = w
  <2>1. [write |-> w, attempt |-> k, code |-> code] \in CommandReply
    BY <1>2 DEF CommandReply
  <2>. QED  BY <1>2, <2>1 DEF Reply
<1>4. \A q \in replies' : q \in replies \/ (q = r /\ Waits(p))
  BY <1>3 DEF Serve
<1>5. UNCHANGED <<chief, task, cached, after>> /\ posts' \subseteq posts
  BY DEF past, Serve
<1>. QED  BY <1>2, <1>3, <1>4, <1>5 DEF AckInv, CoordinatorType, WireType

LEMMA Refuses ==
  ASSUME AckInv, NEW p \in posts, Refuse(p)
  PROVE  AckInv'
<1>1. UNCHANGED <<log, committed, claims, named>> /\ Serve(p, 409)
  BY DEF Refuse
<1>2. /\ UNCHANGED <<chief, task, cached, after>> /\ posts' \subseteq posts
      /\ replies' \subseteq CommandReply
      /\ \A r \in replies' : r \in replies \/ r.code = 409
  BY <1>1, Serves
<1>3. GroupType' /\ Begins(committed, committed')
  BY <1>1, <1>2, BeginsItself DEF AckInv, CoordinatorType, GroupType
<1>4. ChiefHolds'
  BY <1>1, <1>2 DEF AckInv, ChiefHolds, Begins
<1>5. GroupKeeps
  BY <1>1, <1>2, <1>3, <1>4
  DEF GroupKeeps, AckInv, CoordinatorType, WireType, LogsSound
<1>. QED  BY <1>5, GroupKeepsAll

\* What a voter that is outvoted writes does not reach the chief's log.
LEMMA Outvotes ==
  ASSUME AckInv, NEW p \in posts, Outvoted(p)
  PROVE  AckInv'
<1>1. p.to # chief /\ UNCHANGED committed /\ Serve(p, 409)
  BY DEF Outvoted
<1>2. /\ UNCHANGED <<chief, task, cached, after>> /\ posts' \subseteq posts
      /\ replies' \subseteq CommandReply
      /\ \A r \in replies' : r \in replies \/ r.code = 409
  BY <1>1, Serves
<1>3. PICK l \in Seq(CommandEntry) : l = Longer(p) /\ Sound(l) /\ p.to \in Voter
  BY LongerSound
<1>4. PICK R \in SUBSET (Voter \ claims) :
        log' = [v \in Voter |-> IF v \in R \cup {p.to} THEN l ELSE log[v]]
  <2>1. PICK R \in SUBSET {v \in Voter \ claims : named[v] = p.to} :
          log' = [v \in Voter |-> IF v \in R \cup {p.to} THEN l ELSE log[v]]
    BY <1>3 DEF Outvoted
  <2>. QED  BY <2>1
<1>5. /\ log' \in [Voter -> Seq(CommandEntry)] /\ \A v \in Voter : Sound(log'[v])
      /\ chief # None => log'[chief] = log[chief]
  BY <1>1, <1>3, <1>4 DEF AckInv, CoordinatorType, GroupType, WireType, LogsSound
<1>6. /\ named' \in [Voter -> Voter \cup {None}]
      /\ claims' \subseteq Voter /\ chief' \in claims' \cup {None}
  <2>1. /\ named \in [Voter -> Voter \cup {None}] /\ claims \subseteq Voter
        /\ chief \in claims \cup {None}
    BY DEF AckInv, CoordinatorType, GroupType, WireType
  <2>2. \/ UNCHANGED <<claims, named>>
        \/ claims' = claims \ {p.to} /\ named' = [named EXCEPT ![p.to] = None]
    BY DEF Outvoted
  <2>. QED  BY <1>1, <1>2, <2>1, <2>2
<1>7. GroupType' /\ Begins(committed, committed')
  BY <1>1, <1>2, <1>5, <1>6, BeginsItself DEF AckInv, CoordinatorType, GroupType
<1>8. ChiefHolds'
  BY <1>1, <1>2, <1>5 DEF AckInv, ChiefHolds, Begins
<1>9. Sound(committed')
  BY <1>1 DEF AckInv, LogsSound
<1>10. GroupKeeps
  BY <1>2, <1>5, <1>6, <1>7, <1>8, <1>9 DEF GroupKeeps
<1>. QED  BY <1>10, GroupKeepsAll

\* The chief's log with the command at its end begins with what is committed.
LEMMA ChiefsLonger ==
  ASSUME AckInv, NEW p \in posts, p.to = chief
  PROVE  \E w \in Write, l \in Seq(CommandEntry), k \in Nat :
           /\ w = p.write /\ chief \in Voter /\ chief \in claims
           /\ l = Longer(p) /\ Len(l) = k + 1
           /\ l[k + 1].write = w /\ l[k + 1].late = ~Waits(p)
           /\ Begins(committed, l) /\ Sound(l)
<1>1. PICK w \in Write, l \in Seq(CommandEntry), k \in Nat :
        /\ w = p.write /\ p.to \in Voter
        /\ l = Longer(p) /\ Len(l) = k + 1
        /\ l[k + 1].write = w /\ l[k + 1].late = ~Waits(p)
        /\ Begins(log[p.to], l) /\ Sound(l)
  BY LongerSound
<1>2. chief # None /\ chief \in claims /\ Begins(committed, log[chief])
  BY <1>1, CoordinatorAssumption DEF AckInv, ChiefHolds, CoordinatorType, WireType
<1>3. Begins(committed, l)
  BY <1>1, <1>2, BeginsChain DEF AckInv, CoordinatorType, GroupType
<1>. QED  BY <1>1, <1>2, <1>3

LEMMA MajoritiesMissed ==
  ASSUME AckInv, NEW p \in posts, MissMajority(p)
  PROVE  AckInv'
<1>1. p.to = chief /\ UNCHANGED committed /\ Serve(p, 409)
  BY DEF MissMajority
<1>2. /\ UNCHANGED <<chief, task, cached, after>> /\ posts' \subseteq posts
      /\ replies' \subseteq CommandReply
      /\ \A r \in replies' : r \in replies \/ r.code = 409
  BY <1>1, Serves
<1>3. PICK l \in Seq(CommandEntry) : /\ l = Longer(p) /\ Sound(l) /\ Begins(committed, l)
                                     /\ chief \in Voter /\ chief \in claims
  BY <1>1, ChiefsLonger
<1>4. PICK R \in SUBSET Voter : Take(R, chief, l)
  BY <1>3 DEF MissMajority
<1>5. /\ log' \in [Voter -> Seq(CommandEntry)] /\ \A v \in Voter : Sound(log'[v])
      /\ log'[chief] = l /\ named' \in [Voter -> Voter \cup {None}]
      /\ claims' \subseteq claims /\ chief \in claims'
  BY <1>3, <1>4, Taken
<1>6. GroupType' /\ Begins(committed, committed')
  BY <1>1, <1>2, <1>5, BeginsItself DEF AckInv, CoordinatorType, GroupType
<1>7. ChiefHolds'
  BY <1>1, <1>2, <1>3, <1>5 DEF ChiefHolds, Begins
<1>8. Sound(committed') /\ claims' \subseteq Voter
  BY <1>1, <1>5 DEF AckInv, LogsSound, CoordinatorType, WireType
<1>9. GroupKeeps
  BY <1>2, <1>5, <1>6, <1>7, <1>8 DEF GroupKeeps
<1>. QED  BY <1>9, GroupKeepsAll

LEMMA Commits ==
  ASSUME AckInv, NEW p \in posts, Commit(p)
  PROVE  AckInv'
<1>. DEFINE code == IF Stuck' THEN 500 ELSE 200
<1>0. code \in {200, 500} /\ (code = 200 => ~Stuck')
  OBVIOUS
<1>1. p.to = chief /\ Serve(p, code)
  BY Zenon DEF Commit
<1>. HIDE DEF code
<1>2. /\ UNCHANGED <<chief, task, cached, after>> /\ posts' \subseteq posts
      /\ replies' \subseteq CommandReply
      /\ \A r \in replies' : r \in replies \/ (r.code = code /\ r.write = p.write /\ Waits(p))
  BY <1>0, <1>1, Serves
<1>3. PICK w \in Write, l \in Seq(CommandEntry), k \in Nat :
        /\ w = p.write /\ chief \in Voter /\ chief \in claims
        /\ l = Longer(p) /\ Len(l) = k + 1
        /\ l[k + 1].write = w /\ l[k + 1].late = ~Waits(p)
        /\ Begins(committed, l) /\ Sound(l)
  BY <1>1, ChiefsLonger
<1>4. committed' = l /\ \E R \in SUBSET Voter : Take(R, chief, l)
  BY <1>3 DEF Commit
<1>5. /\ log' \in [Voter -> Seq(CommandEntry)] /\ \A v \in Voter : Sound(log'[v])
      /\ log'[chief] = l /\ named' \in [Voter -> Voter \cup {None}]
      /\ claims' \subseteq claims /\ chief \in claims'
  BY <1>3, <1>4, Taken
<1>6. GroupType' /\ Begins(committed, committed')
  BY <1>2, <1>3, <1>4, <1>5 DEF AckInv, CoordinatorType, GroupType
<1>7. ChiefHolds'
  BY <1>2, <1>3, <1>4, <1>5, BeginsItself DEF ChiefHolds, Begins
<1>8. ASSUME code = 200, Waits(p)
      PROVE  Settled(w)'
  <2>1. k + 1 \in 1 .. Len(committed') /\ committed'[k + 1].write = w /\ ~committed'[k + 1].late
    <3>1. k + 1 \in 1 .. Len(l) /\ l[k + 1].write = w
      BY <1>3
    <3>2. ~l[k + 1].late
      BY <1>3, <1>8
    <3>. QED  BY <1>4, <3>1, <3>2
  <2>2. Applies(k + 1)'
    BY <1>0, <1>8, <2>1 DEF Stuck
  <2>. QED  BY <2>1, <2>2 DEF Settled, Copies
<1>9. Sound(committed') /\ claims' \subseteq Voter
  BY <1>3, <1>4, <1>5 DEF AckInv, CoordinatorType, WireType
<1>10. GroupKeeps
  BY <1>2, <1>3, <1>5, <1>6, <1>7, <1>8, <1>9 DEF GroupKeeps
<1>. QED  BY <1>10, GroupKeepsAll

-----------------------------------------------------------------------------
LEMMA InitAckInv == CoordinatorInit => AckInv
<1>. SUFFICES ASSUME CoordinatorInit
              PROVE  AckInv
  OBVIOUS
<1>1. Idle \in Locals /\ Idle.stage = "idle"
  <2>1. <<>> \in Seq(Voter)
    BY EmptySeq
  <2>. QED  BY <2>1 DEF Locals, Stage, Idle
<1>2. /\ <<>> \in Seq(CommandEntry) /\ committed = <<>> /\ \A v \in Voter : log[v] = <<>>
      /\ log \in [Voter -> Seq(CommandEntry)]
  BY EmptySeq DEF CoordinatorInit
<1>3. \A w \in Write : task[w] = Idle /\ after[w] = {}
  BY DEF CoordinatorInit
<1>4. CoordinatorType
  <2>1. GroupType /\ WireType
    <3>1. /\ chief \in Voter \cup {None} /\ cached \in Voter \cup {None}
          /\ claims = {chief} \ {None} /\ posts = {} /\ replies = {}
      BY DEF CoordinatorInit
    <3>2. named \in [Voter -> Voter \cup {None}]
      BY <3>1 DEF CoordinatorInit
    <3>3. GroupType
      BY <1>2, <3>1, <3>2 DEF GroupType
    <3>. QED  BY <3>1, <3>3 DEF WireType
  <2>2. TaskType
    BY <1>1, <1>3 DEF CoordinatorInit, TaskType
  <2>. QED  BY <2>1, <2>2 DEF CoordinatorType
<1>5. posts = {} /\ replies = {}
  BY DEF CoordinatorInit
<1>6. OkIsSettled /\ AfterOk /\ NotPosted
  BY <1>1, <1>3, <1>5 DEF OkIsSettled, AfterOk, NotPosted
<1>7. Sound(<<>>) /\ \A l : Begins(<<>>, l) <=> 0 <= Len(l)
  BY EmptySeq DEF Sound, Begins
<1>8. LogsSound /\ ChiefHolds
  <2>1. 0 <= Len(<<>>)
    BY EmptySeq
  <2>. QED  BY <1>2, <1>4, <1>7, <2>1 DEF LogsSound, ChiefHolds, CoordinatorType, GroupType
<1>. QED  BY <1>4, <1>6, <1>8 DEF AckInv

LEMMA StepAckInv == AckInv /\ [CoordinatorNext]_coordinatorVars => AckInv'
<1>. SUFFICES ASSUME AckInv, [CoordinatorNext]_coordinatorVars
              PROVE  AckInv'
  OBVIOUS
<1>1. ASSUME NEW w \in Write, WriteStep(w)
      PROVE  AckInv'
  BY <1>1, LookUps, AnswerStates, StateCallsFail, LeadersUsed, NoLeaders, RepliesRead, CallsFail
  DEF WriteStep
<1>2. CASE GroupStep
  BY <1>2, ChangesOfLeader, Hears, Refuses, Outvotes, MajoritiesMissed, Commits DEF GroupStep
<1>3. CASE UNCHANGED coordinatorVars
  <2>1. UNCHANGED coordinatorVars
    BY <1>3
  <2>2. CoordinatorType' /\ ChiefHolds'
    BY <2>1 DEF coordinatorVars, AckInv, CoordinatorType, GroupType, TaskType, WireType, ChiefHolds, Begins
  <2>3. OkIsSettled' /\ AfterOk' /\ NotPosted'
    BY <2>1 DEF coordinatorVars, AckInv, OkIsSettled, AfterOk, NotPosted, Settled, Copies, Applies
  <2>4. LogsSound'
    BY <2>1 DEF coordinatorVars, AckInv, LogsSound, Sound
  <2>. QED  BY <2>2, <2>3, <2>4 DEF AckInv
<1>. QED  BY <1>1, <1>2, <1>3, WritesBegin DEF CoordinatorNext

LEMMA AlwaysAckInv == CoordinatorSpec => []AckInv
<1>. QED  BY InitAckInv, StepAckInv, PTL DEF CoordinatorSpec

\* What the coordinator answers "ok" is committed and applied for good, by a call that
\* was waited for, whichever of the write's attempts got through and however often the
\* others did, and whatever other writes do to the cached leader.
THEOREM AckedAlwaysCommitted == CoordinatorSpec => []AckedCommitted
<1>1. AckInv => AckedCommitted
  BY DEF AckInv, OkIsSettled, AckedCommitted, Acked, Settled
<1>. QED  BY <1>1, AlwaysAckInv, PTL

\* Behind a committed copy of a write, those that were answered "ok" when it began come
\* only by calls that had failed before; one that was waited for precedes it.
THEOREM RealTimeAlwaysKept == CoordinatorSpec => []RealTimeOrder
<1>1. AckInv => RealTimeOrder
  <2>. SUFFICES ASSUME AckInv, NEW w \in Write, NEW x \in after[w], NEW j \in Copies(w)
                PROVE  /\ \E i \in Copies(x) : i < j /\ ~committed[i].late
                       /\ \A k \in Copies(x) : k > j => committed[k].late
    BY DEF RealTimeOrder
  <2>1. j \in 1 .. Len(committed) /\ committed[j].write = w
    BY DEF Copies
  <2>2. \A k \in Copies(x) : k > j => committed[k].late
    BY <2>1 DEF AckInv, LogsSound, Sound, Copies
  <2>3. x \in Write /\ task[x].stage = "ok" /\ x # w
    BY DEF AckInv, AfterOk, CoordinatorType, TaskType
  <2>4. PICK i \in Copies(x) : ~committed[i].late
    BY <2>3 DEF AckInv, OkIsSettled, Settled
  <2>5. i \in 1 .. Len(committed) /\ i # j /\ ~(i > j)
    BY <2>1, <2>2, <2>3, <2>4 DEF Copies
  <2>6. i < j
    BY <2>1, <2>5
  <2>. QED  BY <2>2, <2>4, <2>6
<1>. QED  BY <1>1, AlwaysAckInv, PTL

-----------------------------------------------------------------------------
(* Failing.  Every attempt of a write that fails out of trouble is charged *)
(* to a change of leadership.                                              *)

Current(w, p) == p.write = w /\ p.attempt = task[w].attempt

\* The write is about to cache and use a voter that no longer leads.
Misled(w) == task[w].stage = "found" /\ task[w].leader # chief
OthersMisled(w) == {x \in Write \ {w} : Misled(x)}

\* The post of the current attempt went to such a voter, or was refused.
Doomed(w) ==
  \/ \E p \in posts : Current(w, p) /\ p.to # chief
  \/ \E r \in replies : Current(w, r) /\ r.code # 200

\* The current attempt may be in vain: the leader has been passed over, or is another.
Lost(w) ==
  \/ task[w].stage = "ask" /\ \A i \in DOMAIN task[w].todo : task[w].todo[i] # chief
  \/ task[w].stage = "verify" /\ task[w].hint # chief
  \/ task[w].stage = "unfound"
  \/ Misled(w)
  \/ task[w].stage = "posted" /\ Doomed(w)

InVain(w) == cached \notin {chief, None} \/ Lost(w)

\* The attempts that were in vain, and those that may still be.
Charge(w) ==
  task[w].attempt - 1 + Cardinality(OthersMisled(w)) + (IF InVain(w) THEN 1 ELSE 0)

Excused(w) == w \in troubled \/ Stuck

Paid ==
  \A w \in Write :
    ~Excused(w) =>
      /\ Running(w) => Charge(w) <= toll[w]
      /\ task[w].stage \in {"failed", "raised"} => Attempts <= toll[w]

\* A write that runs untroubled has seen one leader at a time.
Quiet == \A w \in Write : Running(w) /\ w \notin troubled => claims = {chief} /\ chief # None

\* Before the first change of leadership nobody is misled.
Unchanged ==
  changes = 0 => claims \subseteq {chief} /\ cached \in {chief, None} /\ \A w \in Write : ~Misled(w)

\* Posts and answers are of attempts that were made, and of the current one only
\* while the write waits for it.
Tried ==
  /\ \A w \in Write : Running(w) => task[w].attempt \in 1 .. Attempts
  /\ \A p \in posts \cup replies :
       /\ p.attempt <= task[p.write].attempt
       /\ \A w \in Write : Running(w) /\ Current(w, p) => task[w].stage = "posted"

TroubleInv ==
  /\ AckInv
  /\ changes \in Nat /\ toll \in [Write -> Nat] /\ IsFiniteSet(Runners)
  /\ Tried /\ Quiet /\ Unchanged /\ Paid

LEMMA TaskTyped ==
  ASSUME AckInv, NEW w \in Write
  PROVE  /\ task[w] \in Locals /\ task[w].attempt \in Nat
         /\ Running(w) <=> task[w].stage \in {"lookup", "ask", "verify", "unfound", "found", "posted"}
<1>1. task[w] \in Locals
  BY DEF AckInv, CoordinatorType, TaskType
<1>. QED  BY <1>1 DEF Locals, Stage, Running, Ended

LEMMA MisledFinite ==
  ASSUME AckInv, IsFiniteSet(Runners), NEW w \in Write
  PROVE  /\ IsFiniteSet(OthersMisled(w)) /\ Cardinality(OthersMisled(w)) \in Nat
         /\ Cardinality(OthersMisled(w)) <= Cardinality(Runners)
         /\ w \in Runners => Cardinality(OthersMisled(w)) + 1 <= Cardinality(Runners)
<1>1. OthersMisled(w) \subseteq Runners \ {w}
  BY DEF OthersMisled, Misled, Runners, Running, Ended
<1>2. /\ IsFiniteSet(Runners \ {w}) /\ Cardinality(Runners) \in Nat
      /\ Cardinality(Runners \ {w}) = IF w \in Runners THEN Cardinality(Runners) - 1 ELSE Cardinality(Runners)
  BY FS_RemoveElement, FS_CardinalityType
<1>3. /\ IsFiniteSet(OthersMisled(w))
      /\ Cardinality(OthersMisled(w)) <= Cardinality(Runners \ {w})
  BY <1>1, <1>2, FS_Subset
<1>4. Cardinality(OthersMisled(w)) \in Nat
  BY <1>3, FS_CardinalityType
<1>. QED  BY <1>2, <1>3, <1>4

LEMMA MisledPrimed ==
  ASSUME NEW w \in Write
  PROVE  (AckInv /\ IsFiniteSet(Runners))' =>
           /\ Cardinality(OthersMisled(w)') \in Nat
           /\ w \in Runners' => Cardinality(OthersMisled(w)') + 1 <= Cardinality(Runners')
<1>. DEFINE Few == /\ Cardinality(OthersMisled(w)) \in Nat
                   /\ w \in Runners => Cardinality(OthersMisled(w)) + 1 <= Cardinality(Runners)
<1>1. AckInv /\ IsFiniteSet(Runners) => Few
  BY MisledFinite
<1>. HIDE DEF Few
<1>2. (AckInv /\ IsFiniteSet(Runners))' => Few'
  BY <1>1, PTL
<1>. QED  BY <1>2 DEF Few

\* The charge of a write in the same attempt grows only with what may mislead it.
LEMMA ChargeKept ==
  ASSUME AckInv, IsFiniteSet(Runners), AckInv', IsFiniteSet(Runners)', NEW w \in Write,
         task'[w].attempt = task[w].attempt,
         OthersMisled(w)' \subseteq OthersMisled(w), InVain(w)' => InVain(w)
  PROVE  Charge(w)' <= Charge(w)
<1>1. PICK k \in Nat : k = task[w].attempt
  BY TaskTyped
<1>2. PICK m \in Nat : m = Cardinality(OthersMisled(w)) /\ IsFiniteSet(OthersMisled(w))
  BY MisledFinite
<1>3. PICK n \in Nat : n = Cardinality(OthersMisled(w)') /\ n <= m
  BY <1>2, FS_Subset, FS_CardinalityType
<1>4. Charge(w)' = k - 1 + n + (IF InVain(w)' THEN 1 ELSE 0)
  BY <1>1, <1>3 DEF Charge
<1>5. Charge(w) = k - 1 + m + (IF InVain(w) THEN 1 ELSE 0)
  BY <1>1, <1>2 DEF Charge
<1>. QED  BY <1>3, <1>4, <1>5

-----------------------------------------------------------------------------
(* A step of a coroutine, seen by the attempts.                            *)

\* The write goes on in the same attempt, not past its answer, or begins another one.
OwnStep(w, r) ==
  /\ Running(w) /\ r \in Locals /\ r.stage # "idle"
  /\ task' = [task EXCEPT ![w] = r]
  /\ UNCHANGED <<chief, claims, committed, changes, toll>>
  /\ replies' \subseteq replies
  /\ \A p \in posts' : p \in posts \/ (p.write = w /\ p.attempt = r.attempt /\ r.stage = "posted")
  /\ \/ r.attempt = task[w].attempt /\ (task[w].stage = "posted" => r.stage \in Ended)
     \/ r.attempt = task[w].attempt + 1 /\ task[w].attempt < Attempts /\ r.stage = "lookup"

LEMMA OwnTask ==
  ASSUME AckInv, NEW w \in Write, NEW r, OwnStep(w, r)
  PROVE  /\ task'[w] = r
         /\ \A x \in Write \ {w} : task'[x] = task[x]
BY DEF AckInv, CoordinatorType, TaskType, OwnStep

LEMMA PostTyped ==
  ASSUME AckInv, NEW p \in posts \cup replies
  PROVE  p.write \in Write /\ p.attempt \in Nat
BY DEF AckInv, CoordinatorType, WireType, CommandPost, CommandReply

LEMMA OwnTried ==
  ASSUME AckInv, Tried, NEW w \in Write, NEW r, OwnStep(w, r)
  PROVE  Tried'
<1>1. /\ task'[w] = r
      /\ \A x \in Write \ {w} : task'[x] = task[x]
  BY OwnTask
<1>2. PICK a \in Nat, b \in Nat : /\ a = task[w].attempt /\ b = r.attempt
                                  /\ a \in 1 .. Attempts
                                  /\ b = a \/ (b = a + 1 /\ b <= Attempts)
  <2>1. task[w].attempt \in Nat /\ r.attempt \in Nat /\ task[w].attempt \in 1 .. Attempts
    BY TaskTyped DEF OwnStep, Locals, Tried
  <2>. QED  BY <2>1, CoordinatorAssumption DEF OwnStep
<1>3. ASSUME NEW x \in Write, Running(x)'
      PROVE  task'[x].attempt \in 1 .. Attempts
  <2>1. CASE x = w
    BY <1>1, <1>2, <2>1, CoordinatorAssumption
  <2>2. CASE x # w
    BY <1>1, <1>3, <2>2 DEF Running, Tried
  <2>. QED  BY <2>1, <2>2
<1>4. ASSUME NEW p \in (posts \cup replies)'
      PROVE  /\ p.attempt <= task'[p.write].attempt
             /\ \A x \in Write : Running(x)' /\ Current(x, p)' => task'[x].stage = "posted"
  <2>1. CASE p \in posts \cup replies
    <3>1. PICK y \in Write, n \in Nat : y = p.write /\ n = p.attempt /\ n <= task[y].attempt
      BY <2>1, PostTyped DEF Tried
    <3>2. n <= task'[y].attempt
      <4>1. CASE y = w
        BY <1>1, <1>2, <3>1, <4>1
      <4>2. CASE y # w
        BY <1>1, <3>1, <4>2
      <4>. QED  BY <4>1, <4>2
    <3>3. ASSUME NEW x \in Write, Running(x)', Current(x, p)'
          PROVE  task'[x].stage = "posted"
      <4>1. x = y /\ n = task'[x].attempt
        BY <3>1, <3>3 DEF Current
      <4>2. CASE x # w
        <5>1. Running(x) /\ Current(x, p) /\ task'[x] = task[x]
          BY <1>1, <3>1, <3>3, <4>1, <4>2 DEF Running, Current
        <5>. QED  BY <2>1, <5>1 DEF Tried
      <4>3. CASE x = w
        <5>1. b = a
          BY <1>1, <1>2, <3>1, <4>1, <4>3
        <5>2. Current(w, p) /\ Running(w)
          BY <1>1, <1>2, <3>1, <4>1, <4>3, <5>1 DEF Current, OwnStep
        <5>3. task[w].stage = "posted"
          BY <2>1, <5>2 DEF Tried
        <5>4. r.stage \in Ended
          BY <1>2, <5>1, <5>3 DEF OwnStep
        <5>. QED  BY <1>1, <3>3, <4>3, <5>4 DEF Running
      <4>. QED  BY <4>2, <4>3
    <3>. QED  BY <3>1, <3>2, <3>3
  <2>2. CASE p \notin posts \cup replies
    <3>1. p.write = w /\ p.attempt = r.attempt /\ r.stage = "posted"
      BY <2>2 DEF OwnStep
    <3>. QED  BY <1>1, <1>2, <3>1 DEF Current
  <2>. QED  BY <2>1, <2>2
<1>. QED  BY <1>3, <1>4 DEF Tried

\* Who is misled, and what waits for an answer, but for the write itself.
LEMMA OwnOthers ==
  ASSUME AckInv, NEW w \in Write, NEW r, OwnStep(w, r)
  PROVE  /\ Runners' \subseteq Runners /\ (IsFiniteSet(Runners) => IsFiniteSet(Runners'))
         /\ \A x \in Write \ {w} : /\ Misled(x)' <=> Misled(x)
                                   /\ Running(x)' <=> Running(x)
                                   /\ Lost(x)' => Lost(x)
         /\ OthersMisled(w)' = OthersMisled(w)
         /\ (Misled(w)' => Misled(w)) =>
              \A x \in Write : OthersMisled(x)' \subseteq OthersMisled(x)
         /\ ~Misled(w)' => \A x \in Write : OthersMisled(x)' = OthersMisled(x) \ {w}
<1>1. /\ task'[w] = r /\ chief' = chief /\ changes' = changes
      /\ \A x \in Write \ {w} : task'[x] = task[x]
  BY OwnTask DEF OwnStep
<1>3. \A x \in Write \ {w} : (Misled(x)' <=> Misled(x)) /\ (Running(x)' <=> Running(x))
  BY <1>1 DEF Misled, Running
<1>2. Runners' \subseteq Runners
  BY <1>3 DEF Runners, OwnStep
<1>8. IsFiniteSet(Runners) => IsFiniteSet(Runners')
  BY <1>2, FS_Subset
<1>4. ASSUME NEW x \in Write \ {w}, Lost(x)'
      PROVE  Lost(x)
  <2>1. Doomed(x)' => Doomed(x)
    <3>1. \A p \in posts' : Current(x, p)' => p \in posts /\ Current(x, p)
      BY <1>1 DEF OwnStep, Current
    <3>2. \A p \in replies' : Current(x, p)' => p \in replies /\ Current(x, p)
      BY <1>1 DEF OwnStep, Current
    <3>. QED  BY <1>1, <3>1, <3>2 DEF Doomed
  <2>. QED  BY <1>1, <1>3, <1>4, <2>1 DEF Lost
<1>5. OthersMisled(w)' = OthersMisled(w)
  BY <1>3 DEF OthersMisled
<1>6. (Misled(w)' => Misled(w)) => \A x \in Write : OthersMisled(x)' \subseteq OthersMisled(x)
  BY <1>3 DEF OthersMisled
<1>7. ~Misled(w)' => \A x \in Write : OthersMisled(x)' = OthersMisled(x) \ {w}
  BY <1>3 DEF OthersMisled
<1>. QED  BY <1>1, <1>2, <1>3, <1>4, <1>5, <1>6, <1>7, <1>8

\* The charge of the other writes: what misleads one of them by way of the cache has
\* misled the write that cached it.
LEMMA OthersCharge ==
  ASSUME AckInv, IsFiniteSet(Runners), AckInv', NEW w \in Write, NEW r, OwnStep(w, r),
         NEW x \in Write \ {w},
         \/ cached' \in {cached, None, chief} /\ (Misled(w)' => Misled(w))
         \/ Misled(w) /\ ~Misled(w)'
  PROVE  Charge(x)' <= Charge(x)
<1>1. /\ IsFiniteSet(Runners') /\ chief' = chief /\ task'[x] = task[x] /\ (Lost(x)' => Lost(x))
      /\ (Misled(w)' => Misled(w)) => OthersMisled(x)' \subseteq OthersMisled(x)
      /\ ~Misled(w)' => OthersMisled(x)' = OthersMisled(x) \ {w}
  BY OwnOthers, OwnTask DEF OwnStep
<1>2. CASE cached' \in {cached, None, chief} /\ (Misled(w)' => Misled(w))
  <2>1. InVain(x)' => InVain(x)
    BY <1>1, <1>2 DEF InVain
  <2>. QED  BY <1>1, <1>2, <2>1, ChargeKept
<1>3. CASE Misled(w) /\ ~Misled(w)'
  <2>1. PICK k \in Nat : k = task[x].attempt
    BY TaskTyped
  <2>2. PICK m \in Nat : m = Cardinality(OthersMisled(x)) /\ IsFiniteSet(OthersMisled(x))
    BY MisledFinite
  <2>3. w \in OthersMisled(x)
    BY <1>3 DEF OthersMisled
  <2>4. m >= 1 /\ Cardinality(OthersMisled(x)') = m - 1
    <3>1. Cardinality(OthersMisled(x) \ {w}) = m - 1 /\ IsFiniteSet(OthersMisled(x) \ {w})
      BY <2>2, <2>3, FS_RemoveElement
    <3>2. m - 1 \in Nat
      BY <3>1, FS_CardinalityType
    <3>. QED  BY <1>1, <1>3, <3>1, <3>2
  <2>5. Charge(x) = k - 1 + m + (IF InVain(x) THEN 1 ELSE 0)
    BY <2>1, <2>2 DEF Charge
  <2>6. Charge(x)' = k - 1 + (m - 1) + (IF InVain(x)' THEN 1 ELSE 0)
    BY <1>1, <2>1, <2>4 DEF Charge
  <2>. QED  BY <2>1, <2>2, <2>5, <2>6
<1>. QED  BY <1>2, <1>3

\* What an own step without trouble has to show.
OwnPays(w, r) ==
  /\ \/ /\ cached' \in {cached, None, chief}
        /\ Misled(w)' => Misled(w) \/ ~(claims \subseteq {chief})
     \/ Misled(w) /\ ~Misled(w)' /\ cached' = task[w].leader
  /\ ~Excused(w) =>
       /\ Running(w)' =>
            \/ r.attempt = task[w].attempt /\ (InVain(w)' => InVain(w))
            \/ r.attempt = task[w].attempt + 1 /\ InVain(w) /\ ~InVain(w)'
       /\ r.stage \in {"failed", "raised"} => InVain(w) /\ task[w].attempt >= Attempts

LEMMA OwnKeeps ==
  ASSUME TroubleInv, AckInv', NEW w \in Write, NEW r, OwnStep(w, r), troubled' = troubled,
         OwnPays(w, r)
  PROVE  TroubleInv'
<1>1. /\ task'[w] = r /\ UNCHANGED <<chief, claims, committed, changes, toll>>
      /\ \A x \in Write \ {w} : task'[x] = task[x]
      /\ Running(w)
  BY OwnTask DEF OwnStep, TroubleInv
<1>2. /\ IsFiniteSet(Runners') /\ toll \in [Write -> Nat]
      /\ \A x \in Write \ {w} : (Misled(x)' <=> Misled(x)) /\ (Running(x)' <=> Running(x))
      /\ OthersMisled(w)' = OthersMisled(w)
  BY OwnOthers DEF TroubleInv
<1>3. Tried'
  BY OwnTried DEF TroubleInv
<1>4. Quiet'
  BY <1>1, <1>2 DEF Quiet, TroubleInv
<1>5. Unchanged'
  <2>. SUFFICES ASSUME changes = 0
                PROVE  Unchanged'
    BY <1>1 DEF Unchanged
  <2>1. claims \subseteq {chief} /\ cached \in {chief, None} /\ ~Misled(w)
    BY DEF Unchanged, TroubleInv
  <2>2. cached' \in {chief, None} /\ ~Misled(w)'
    BY <2>1 DEF OwnPays
  <2>. QED  BY <1>1, <1>2, <2>1, <2>2 DEF Unchanged, TroubleInv
<1>6. \A x \in Write : Excused(x)' <=> Excused(x)
  BY <1>1 DEF Excused, Stuck, Applies
<1>7. ASSUME NEW x \in Write, ~Excused(x), x # w
      PROVE  /\ Running(x)' => Charge(x)' <= toll[x]
             /\ task'[x].stage \in {"failed", "raised"} => Attempts <= toll[x]
  <2>1. x \in Write \ {w}
    BY <1>7
  <2>2. ASSUME Running(x)'
        PROVE  Charge(x)' <= toll[x]
    <3>1. Running(x)
      BY <1>2, <2>1, <2>2
    <3>2. claims \subseteq {chief}
      BY <1>7, <2>1, <3>1 DEF TroubleInv, Quiet, Excused
    <3>3. Charge(x)' <= Charge(x)
      BY <2>1, <3>2, OthersCharge DEF OwnPays, TroubleInv
    <3>4. Charge(x) <= toll[x]
      BY <1>7, <3>1 DEF TroubleInv, Paid
    <3>5. Charge(x) \in Int /\ Charge(x)' \in Int /\ toll[x] \in Nat
      <4>1. /\ task[x].attempt \in Nat /\ task'[x].attempt \in Nat
            /\ Cardinality(OthersMisled(x)) \in Nat
        BY <1>1, <2>1, TaskTyped, MisledFinite DEF TroubleInv
      <4>2. Cardinality(OthersMisled(x)') \in Nat
        <5>1. (AckInv /\ IsFiniteSet(Runners))' => Cardinality(OthersMisled(x)') \in Nat
          BY <2>1, MisledPrimed
        <5>. QED  BY <1>2, <5>1 DEF TroubleInv
      <4>3. toll[x] \in Nat
        BY <2>1 DEF TroubleInv
      <4>. QED  BY <4>1, <4>2, <4>3 DEF Charge
    <3>. QED  BY <1>2, <3>3, <3>4, <3>5
  <2>3. ASSUME task'[x].stage \in {"failed", "raised"}
        PROVE  Attempts <= toll[x]
    BY <1>1, <1>2, <1>7, <2>1, <2>3 DEF TroubleInv, Paid
  <2>. QED  BY <2>2, <2>3
<1>8. ASSUME ~Excused(w)
      PROVE  /\ Running(w)' => Charge(w)' <= toll[w]
             /\ r.stage \in {"failed", "raised"} => Attempts <= toll[w]
  <2>1. PICK a \in Nat, m \in Nat, b \in Nat :
          /\ a = task[w].attempt /\ m = Cardinality(OthersMisled(w)) /\ b = toll[w]
          /\ m = Cardinality(OthersMisled(w)')
    BY <1>2, TaskTyped, MisledFinite DEF TroubleInv
  <2>2. a - 1 + m + (IF InVain(w) THEN 1 ELSE 0) <= b
    BY <1>1, <1>8, <2>1 DEF TroubleInv, Paid, Charge
  <2>3. ASSUME Running(w)'
        PROVE  Charge(w)' <= toll[w]
    <3>1. Charge(w)' = r.attempt - 1 + m + (IF InVain(w)' THEN 1 ELSE 0)
      BY <1>1, <2>1 DEF Charge
    <3>2. CASE r.attempt = a /\ (InVain(w)' => InVain(w))
      BY <1>2, <2>1, <2>2, <3>1, <3>2
    <3>3. CASE r.attempt = a + 1 /\ InVain(w) /\ ~InVain(w)'
      BY <1>2, <2>1, <2>2, <3>1, <3>3
    <3>. QED  BY <1>8, <2>1, <2>3, <3>2, <3>3 DEF OwnPays
  <2>4. ASSUME r.stage \in {"failed", "raised"}
        PROVE  Attempts <= toll[w]
    <3>1. InVain(w) /\ a >= Attempts
      BY <1>8, <2>1, <2>4 DEF OwnPays
    <3>. QED  BY <1>2, <2>1, <2>2, <3>1, CoordinatorAssumption
  <2>. QED  BY <2>3, <2>4
<1>9. Paid'
  <2>. SUFFICES ASSUME NEW x \in Write, ~Excused(x)'
                PROVE  /\ Running(x)' => Charge(x)' <= toll'[x]
                       /\ task'[x].stage \in {"failed", "raised"} => Attempts <= toll'[x]
    BY <1>2 DEF Paid
  <2>1. ~Excused(x)
    BY <1>6
  <2>2. CASE x = w
    BY <1>1, <1>8, <2>1, <2>2
  <2>. QED  BY <1>1, <1>7, <2>1, <2>2
<1>. QED  BY <1>1, <1>2, <1>3, <1>4, <1>5, <1>9 DEF TroubleInv

\* A call failed: every write that runs is in trouble.
LEMMA FaultKeeps ==
  ASSUME TroubleInv, AckInv', Tried', Troubled(TRUE), changes' = changes, chief' = chief, claims' \subseteq claims,
         Stuck => Stuck', toll' = toll, cached' \in {cached, None}, IsFiniteSet(Runners'),
         \A x \in Write : /\ Running(x)' => Running(x)
                          /\ Misled(x)' => Misled(x)
                          /\ ~Running(x) => task'[x] = task[x]
  PROVE  TroubleInv'
<1>1. troubled' = troubled \cup {x \in Write : Running(x)}
  BY DEF Troubled
<1>2. Quiet'
  BY <1>1 DEF Quiet
<1>3. Unchanged'
  BY DEF Unchanged, TroubleInv
<1>5. ASSUME NEW x \in Write, ~Excused(x)'
      PROVE  /\ ~Running(x)'
             /\ task'[x].stage \in {"failed", "raised"} => Attempts <= toll'[x]
  <2>1. x \in Write /\ ~Running(x) /\ ~Excused(x)
    BY <1>1, <1>5 DEF Excused, Stuck, Applies
  <2>. QED  BY <1>5, <2>1 DEF TroubleInv, Paid
<1>6. Paid'
  BY <1>5 DEF Paid
<1>. QED  BY <1>2, <1>3, <1>6 DEF TroubleInv

-----------------------------------------------------------------------------
(* The actions of a coroutine, once more.                                  *)

\* Before its post a write has nothing on the way for its current attempt.
LEMMA NothingOnTheWay ==
  ASSUME AckInv, Tried, NEW w \in Write, Running(w), task[w].stage # "posted"
  PROVE  \A p \in posts \cup replies : ~Current(w, p)
BY DEF Tried

\* A new post goes to `v` and is in vain only if another voter leads.
LEMMA PostSteps ==
  ASSUME TroubleInv, NEW w \in Write, Running(w), task[w].stage # "posted",
         NEW v \in Voter, Post(w, v), UNCHANGED <<group, changes, toll>>
  PROVE  \E r \in Locals :
           /\ OwnStep(w, r) /\ r.attempt = task[w].attempt /\ r.stage = "posted"
           /\ ~Misled(w)'
           /\ Lost(w)' => v # chief
<1>1. AckInv /\ Tried
  BY DEF TroubleInv
<1>2. PICK t \in Locals : t = task[w] /\ t.attempt \in Nat
  BY <1>1, TaskTyped
<1>. DEFINE r == [t EXCEPT !.stage = "posted", !.leader = v]
            p == [write |-> w, attempt |-> t.attempt, to |-> v]
<1>3. r \in Locals /\ r.stage = "posted" /\ r.attempt = t.attempt
  BY DEF Locals, Stage
<1>4. task' = [task EXCEPT ![w] = r]
  BY <1>2 DEF Post, Step
<1>5. posts' = posts \cup {p} /\ replies' = replies
  BY <1>2 DEF Post
<1>6. p.write = w /\ p.attempt = t.attempt /\ p.to = v
  OBVIOUS
<1>. HIDE DEF r, p
<1>7. OwnStep(w, r)
  BY <1>2, <1>3, <1>4, <1>5, <1>6 DEF OwnStep, group
<1>8. task'[w] = r /\ chief' = chief
  BY <1>1, <1>7, OwnTask DEF OwnStep
<1>9. ~Misled(w)'
  BY <1>3, <1>8 DEF Misled
<1>10. ASSUME Lost(w)'
       PROVE  v # chief
  <2>1. Doomed(w)'
    BY <1>3, <1>8, <1>9, <1>10 DEF Lost
  <2>2. \A q \in posts \cup replies : ~Current(w, q)'
    BY <1>1, <1>2, <1>3, <1>8, NothingOnTheWay DEF Current
  <2>3. \E q \in posts' : Current(w, q)' /\ q.to # chief
    BY <1>5, <1>8, <2>1, <2>2 DEF Doomed
  <2>. QED  BY <1>5, <1>6, <2>2, <2>3
<1>. QED  BY <1>2, <1>3, <1>7, <1>9, <1>10

LEMMA LookUpPays ==
  ASSUME TroubleInv, AckInv', NEW w \in Write, LookUp(w)
  PROVE  TroubleInv'
<1>1. /\ task[w].stage = "lookup" /\ UNCHANGED <<group, cached, changes, toll>> /\ troubled' = troubled
      /\ cached \in Voter \cup {None}
  BY DEF LookUp, counters, ghosts, past, TroubleInv, AckInv, CoordinatorType, WireType
<1>2. AckInv /\ Running(w)
  BY <1>1, TaskTyped DEF TroubleInv
<1>3. CASE cached # None /\ Post(w, cached)
  <2>1. PICK r \in Locals : /\ OwnStep(w, r) /\ r.attempt = task[w].attempt /\ r.stage = "posted"
                            /\ ~Misled(w)' /\ (Lost(w)' => cached # chief)
    BY <1>1, <1>2, <1>3, PostSteps
  <2>2. InVain(w)' => InVain(w)
    BY <1>1, <1>3, <2>1 DEF InVain, group
  <2>3. OwnPays(w, r)
    BY <1>1, <2>1, <2>2 DEF OwnPays
  <2>. QED  BY <1>1, <2>1, <2>3, OwnKeeps
<1>4. CASE /\ Step(w, [task[w] EXCEPT !.stage = "ask", !.todo = Voters])
           /\ UNCHANGED wire
  <2>1. PICK t \in Locals : t = task[w]
    BY <1>2, TaskTyped
  <2>. DEFINE r == [t EXCEPT !.stage = "ask", !.todo = Voters]
  <2>2. r \in Locals /\ r.stage = "ask" /\ r.todo = Voters /\ r.attempt = t.attempt
    BY CoordinatorAssumption DEF Locals, Stage
  <2>3. task' = [task EXCEPT ![w] = r]
    BY <1>4, <2>1 DEF Step
  <2>. HIDE DEF r
  <2>4. OwnStep(w, r)
    BY <1>1, <1>2, <1>4, <2>1, <2>2, <2>3 DEF OwnStep, wire, group
  <2>5. task'[w] = r /\ chief' = chief
    BY <1>2, <2>4, OwnTask DEF OwnStep
  <2>6. ~Misled(w)'
    BY <2>2, <2>5 DEF Misled
  <2>7. ASSUME ~Excused(w)
        PROVE  ~Lost(w)'
    <3>1. chief \in Voter
      BY <1>2, <2>7 DEF TroubleInv, Quiet, Excused, AckInv, CoordinatorType, GroupType
    <3>2. PICK i \in DOMAIN Voters : Voters[i] = chief
      BY <3>1 DEF Voter
    <3>. QED  BY <2>2, <2>5, <2>6, <3>2 DEF Lost
  <2>8. OwnPays(w, r)
    BY <1>1, <2>1, <2>2, <2>5, <2>6, <2>7 DEF OwnPays, InVain
  <2>. QED  BY <1>1, <2>4, <2>8, OwnKeeps
<1>. QED  BY <1>3, <1>4 DEF LookUp

\* A voter that does not lead is passed over: the leader is still to be asked, if it was.
LEMMA PassedVoter ==
  ASSUME TroubleInv, NEW w \in Write, NEW v \in Voter, Asks(w, v),
         NEW hint \in Voter \cup {None}, NotFound(w, hint), v # chief,
         UNCHANGED <<group, changes, posts, replies, toll>>
  PROVE  \E r \in Locals :
           /\ OwnStep(w, r) /\ r.attempt = task[w].attempt
           /\ r.stage \in {"ask", "verify", "unfound"} /\ ~Misled(w)'
           /\ Lost(w)' => Lost(w)
<1>1. AckInv /\ chief' = chief
  BY DEF TroubleInv, group
<1>2. PICK t \in Locals : /\ t = task[w] /\ t.stage \in {"ask", "verify"}
                          /\ t.stage = "ask" => t.todo # <<>>
                          /\ t.todo \in Seq(Voter)
  <2>1. task[w] \in Locals
    BY <1>1, TaskTyped
  <2>3. task[w].stage = "ask" => task[w].todo # <<>>
    BY <1>1 DEF AckInv, CoordinatorType, TaskType
  <2>2. task[w].stage \in {"ask", "verify"}
    BY DEF Asks
  <2>. QED  BY <2>1, <2>2, <2>3 DEF Locals
<1>3. Running(w)
  BY <1>1, <1>2, TaskTyped
<1>4. CASE t.stage = "ask"
  <2>1. PICK rest \in Seq(Voter) :
          /\ rest = Tail(t.todo)
          /\ Len(rest) = Len(t.todo) - 1 /\ \A i \in 1 .. Len(rest) : rest[i] = t.todo[i + 1]
    <3>1. PICK s \in Seq(Voter) : s = t.todo /\ s # <<>>
      BY <1>2, <1>4
    <3>2. /\ Tail(s) \in Seq(Voter) /\ Len(Tail(s)) = Len(s) - 1
          /\ \A i \in 1 .. Len(Tail(s)) : Tail(s)[i] = s[i + 1]
      BY <3>1, HeadTailProperties
    <3>. QED  BY <3>1, <3>2
  <2>. DEFINE next == IF rest # <<>> THEN "ask" ELSE IF hint # None THEN "verify" ELSE "unfound"
              r == [t EXCEPT !.todo = rest, !.hint = hint, !.stage = next]
  <2>2. r \in Locals /\ r.stage = next /\ r.todo = rest /\ r.attempt = t.attempt
    BY <2>1 DEF Locals, Stage
  <2>3. task' = [task EXCEPT ![w] = r]
    BY <1>2, <1>4, <2>1 DEF NotFound, Elsewhere, Step
  <2>4. next \in {"ask", "verify", "unfound"} /\ (next # "ask" => rest = <<>>)
    OBVIOUS
  <2>. HIDE DEF r, next
  <2>5. OwnStep(w, r)
    BY <1>2, <1>3, <1>4, <2>2, <2>3, <2>4 DEF OwnStep, group
  <2>6. task'[w] = r
    BY <1>1, <2>5, OwnTask
  <2>7. ~Misled(w)'
    BY <2>2, <2>4, <2>6 DEF Misled
  <2>8. ASSUME Lost(w)'
        PROVE  Lost(w)
    <3>1. \A i \in 1 .. Len(rest) : rest[i] # chief
      <4>1. CASE next = "ask"
        <5>1. \A i \in DOMAIN rest : rest[i] # chief
          BY <1>1, <2>2, <2>6, <2>7, <2>8, <4>1 DEF Lost
        <5>2. DOMAIN rest = 1 .. Len(rest)
          BY LenProperties
        <5>. QED  BY <5>1, <5>2
      <4>2. CASE next # "ask"
        BY <2>4, <4>2
      <4>. QED  BY <4>1, <4>2
    <3>2. t.todo[1] = v
      BY <1>2, <1>4 DEF Asks
    <3>3. \A i \in DOMAIN t.todo : t.todo[i] # chief
      <4>. SUFFICES ASSUME NEW i \in 1 .. Len(t.todo)
                    PROVE  t.todo[i] # chief
        BY <1>2
      <4>1. CASE i = 1
        BY <3>2, <4>1
      <4>2. CASE i # 1
        <5>1. i - 1 \in 1 .. Len(rest)
          BY <1>2, <2>1, <4>2
        <5>. QED  BY <2>1, <3>1, <5>1
      <4>. QED  BY <4>1, <4>2
    <3>. QED  BY <1>2, <1>4, <3>3 DEF Lost
  <2>. QED  BY <1>2, <2>2, <2>4, <2>5, <2>7, <2>8
<1>5. CASE t.stage = "verify"
  <2>. DEFINE r == [t EXCEPT !.stage = "unfound"]
  <2>1. r \in Locals /\ r.stage = "unfound" /\ r.attempt = t.attempt
    BY DEF Locals, Stage
  <2>2. task' = [task EXCEPT ![w] = r]
    BY <1>2, <1>5 DEF NotFound, Step
  <2>. HIDE DEF r
  <2>3. OwnStep(w, r)
    BY <1>2, <1>3, <1>5, <2>1, <2>2 DEF OwnStep, group
  <2>4. task'[w] = r
    BY <1>1, <2>3, OwnTask
  <2>5. ~Misled(w)'
    BY <2>1, <2>4 DEF Misled
  <2>6. Lost(w)
    BY <1>2, <1>5 DEF Lost, Asks
  <2>. QED  BY <1>2, <2>1, <2>3, <2>5, <2>6
<1>. QED  BY <1>2, <1>4, <1>5

LEMMA NotFoundAttempt ==
  ASSUME AckInv, NEW w \in Write, task[w].stage \in {"ask", "verify"},
         NEW hint \in Voter \cup {None}, NotFound(w, hint)
  PROVE  \E r \in Locals : /\ task' = [task EXCEPT ![w] = r]
                           /\ r.stage \in {"ask", "verify", "unfound"}
                           /\ r.attempt = task[w].attempt
<1>1. PICK r \in Locals : /\ task' = [task EXCEPT ![w] = r]
                          /\ r.stage \in {"ask", "verify", "unfound"}
  BY NotFoundLocals
<1>2. task'[w] = r /\ task \in [Write -> Locals]
  BY <1>1 DEF AckInv, CoordinatorType, TaskType
<1>3. task'[w].attempt = task[w].attempt
  <2>1. PICK t \in Locals : t = task[w]
    BY <1>2
  <2>2. CASE t.stage = "ask"
    <3>1. task'[w] = Elsewhere(w, hint)
      BY <1>2, <2>1, <2>2 DEF NotFound, Step
    <3>2. Elsewhere(w, hint).attempt = t.attempt
      BY <2>1 DEF Elsewhere, Locals
    <3>. QED  BY <2>1, <3>1, <3>2
  <2>3. CASE t.stage # "ask"
    <3>1. task'[w] = [t EXCEPT !.stage = "unfound"]
      BY <1>2, <2>1, <2>3 DEF NotFound, Step
    <3>. QED  BY <2>1, <3>1 DEF Locals
  <2>. QED  BY <2>2, <2>3
<1>. QED  BY <1>1, <1>2, <1>3

LEMMA NextAttemptSteps ==
  ASSUME AckInv, NEW w \in Write, Running(w), NEW end \in {"failed", "raised"}, NextAttempt(w, end),
         posts' \subseteq posts, replies' \subseteq replies, UNCHANGED <<group, changes, toll>>
  PROVE  \E r \in Locals : /\ OwnStep(w, r) /\ r.stage \in {"lookup", end}
                           /\ r.stage = "lookup" => r.attempt = task[w].attempt + 1
                           /\ r.stage # "lookup" => task[w].attempt >= Attempts
<1>1. PICK k \in Nat : k = task[w].attempt
  BY TaskTyped
<1>. DEFINE again == [Idle EXCEPT !.stage = "lookup", !.attempt = k + 1]
            over == [Idle EXCEPT !.stage = end, !.attempt = k]
<1>2. k + 1 \in Nat /\ <<>> \in Seq(Voter)
  BY EmptySeq
<1>3. again \in Locals /\ again.stage = "lookup" /\ again.attempt = k + 1
  BY <1>2 DEF Idle, Locals, Stage
<1>4. over \in Locals /\ over.stage = end /\ over.attempt = k
  BY <1>2 DEF Idle, Locals, Stage
<1>5. \/ k < Attempts /\ task' = [task EXCEPT ![w] = again]
      \/ ~(k < Attempts) /\ task' = [task EXCEPT ![w] = over]
  BY <1>1 DEF NextAttempt, Step
<1>. HIDE DEF again, over
<1>6. k < Attempts \/ k >= Attempts
  BY CoordinatorAssumption
<1>7. CASE k < Attempts
  <2>1. OwnStep(w, again)
    BY <1>1, <1>3, <1>5, <1>7 DEF OwnStep, group
  <2>. QED  BY <1>1, <1>3, <2>1
<1>8. CASE k >= Attempts
  <2>1. over.stage # "idle" /\ over.stage \in Ended /\ over.stage # "lookup"
    BY <1>4 DEF Ended
  <2>2. ~(k < Attempts)
    BY <1>8, CoordinatorAssumption
  <2>3. OwnStep(w, over)
    BY <1>1, <1>4, <1>5, <2>1, <2>2 DEF OwnStep, group
  <2>. QED  BY <1>1, <1>4, <1>8, <2>1, <2>3
<1>. QED  BY <1>6, <1>7, <1>8

LEMMA OwnFault ==
  ASSUME TroubleInv, AckInv', NEW w \in Write, NEW r, OwnStep(w, r), Troubled(TRUE),
         cached' \in {cached, None}, ~Misled(w)'
  PROVE  TroubleInv'
<1>1. /\ AckInv /\ Tried /\ UNCHANGED <<chief, claims, committed, changes, toll>> /\ Running(w)
  BY DEF TroubleInv, OwnStep
<1>2. Tried' /\ IsFiniteSet(Runners')
  BY <1>1, OwnTried, OwnOthers DEF TroubleInv
<1>3. \A x \in Write : /\ Running(x)' => Running(x)
                       /\ Misled(x)' => Misled(x)
                       /\ ~Running(x) => task'[x] = task[x]
  BY <1>1, OwnOthers, OwnTask
<1>4. Stuck => Stuck'
  BY <1>1 DEF Stuck, Applies
<1>. QED  BY <1>1, <1>2, <1>3, <1>4, FaultKeeps DEF OwnStep

LEMMA AnswerPays ==
  ASSUME TroubleInv, AckInv', NEW w \in Write, NEW v \in Voter, AnswerState(w, v)
  PROVE  TroubleInv'
<1>1. /\ AckInv /\ UNCHANGED <<group, cached, posts, replies, changes, toll>> /\ troubled' = troubled
      /\ Asks(w, v)
  BY DEF AnswerState, wire, counters, ghosts, past, TroubleInv
<1>2. PICK t \in Locals : t = task[w] /\ t.stage \in {"ask", "verify"}
  BY <1>1 DEF AckInv, CoordinatorType, TaskType, Asks
<1>3. Running(w)
  BY <1>1, <1>2, TaskTyped
<1>4. CASE v \in claims
  <2>. DEFINE r == [t EXCEPT !.stage = "found", !.leader = v, !.todo = <<>>, !.hint = None]
  <2>1. <<>> \in Seq(Voter)
    BY EmptySeq
  <2>2. r \in Locals /\ r.stage = "found" /\ r.leader = v /\ r.attempt = t.attempt
    BY <2>1 DEF Locals, Stage
  <2>3. task' = [task EXCEPT ![w] = r]
    BY <1>2, <1>4 DEF AnswerState, Step
  <2>. HIDE DEF r
  <2>4. OwnStep(w, r)
    BY <1>1, <1>2, <1>3, <2>2, <2>3 DEF OwnStep, group
  <2>5. task'[w] = r /\ chief' = chief
    BY <1>1, <2>4, OwnTask DEF OwnStep
  <2>6. claims \subseteq {chief} => ~Lost(w)'
    BY <1>4, <2>2, <2>5 DEF Lost, Misled
  <2>7. ~Excused(w) => claims \subseteq {chief}
    BY <1>3 DEF TroubleInv, Quiet, Excused
  <2>8. OwnPays(w, r)
    BY <1>1, <1>2, <2>2, <2>5, <2>6, <2>7 DEF OwnPays, InVain, Lost
  <2>. QED  BY <1>1, <2>4, <2>8, OwnKeeps
<1>5. CASE v \notin claims
  <2>1. PICK hint \in Voter \cup {None} : hint = IF named[v] = None THEN t.hint ELSE named[v]
    BY <1>1 DEF Locals, AckInv, CoordinatorType, GroupType
  <2>2. NotFound(w, hint)
    BY <1>2, <1>5, <2>1 DEF AnswerState
  <2>3. CASE v = chief
    <3>1. w \in troubled
      BY <1>3, <1>5, <2>3 DEF TroubleInv, Quiet
    <3>2. PICK r \in Locals : /\ task' = [task EXCEPT ![w] = r]
                              /\ r.stage \in {"ask", "verify", "unfound"} /\ r.attempt = task[w].attempt
      BY <1>1, <1>2, <2>2, NotFoundAttempt
    <3>3. OwnStep(w, r)
      BY <1>1, <1>2, <1>3, <3>2 DEF OwnStep, group
    <3>4. task'[w] = r
      BY <1>1, <3>3, OwnTask
    <3>5. OwnPays(w, r)
      BY <1>1, <3>1, <3>2, <3>4 DEF OwnPays, Misled, Excused
    <3>. QED  BY <1>1, <3>3, <3>5, OwnKeeps
  <2>4. CASE v # chief
    <3>1. PICK r \in Locals : /\ OwnStep(w, r) /\ r.attempt = task[w].attempt
                              /\ r.stage \in {"ask", "verify", "unfound"} /\ ~Misled(w)'
                              /\ Lost(w)' => Lost(w)
      BY <1>1, <2>2, <2>4, PassedVoter
    <3>2. InVain(w)' => InVain(w)
      BY <1>1, <3>1 DEF InVain, group
    <3>3. OwnPays(w, r)
      BY <1>1, <3>1, <3>2 DEF OwnPays
    <3>. QED  BY <1>1, <3>1, <3>3, OwnKeeps
  <2>. QED  BY <2>3, <2>4
<1>. QED  BY <1>4, <1>5

LEMMA UsePays ==
  ASSUME TroubleInv, AckInv', NEW w \in Write, UseLeader(w)
  PROVE  TroubleInv'
<1>1. PICK v \in Voter : v = task[w].leader /\ task[w].stage = "found"
  BY DEF UseLeader, TroubleInv, AckInv, CoordinatorType, TaskType, Locals
<1>2. cached' = v /\ Post(w, v) /\ UNCHANGED <<group, changes, toll>> /\ troubled' = troubled
  BY <1>1 DEF UseLeader, counters, ghosts, past
<1>3. Running(w)
  BY <1>1, TaskTyped DEF TroubleInv
<1>4. PICK r \in Locals : /\ OwnStep(w, r) /\ r.attempt = task[w].attempt /\ r.stage = "posted"
                          /\ ~Misled(w)' /\ (Lost(w)' => v # chief)
  BY <1>1, <1>2, <1>3, PostSteps
<1>5. Misled(w) <=> v # chief
  BY <1>1 DEF Misled
<1>6. InVain(w)' => InVain(w)
  BY <1>2, <1>4, <1>5 DEF InVain, Lost, group
<1>7. OwnPays(w, r)
  BY <1>1, <1>2, <1>4, <1>5, <1>6 DEF OwnPays
<1>. QED  BY <1>2, <1>4, <1>7, OwnKeeps

\* An attempt that fails was in vain.
LEMMA VainPays ==
  ASSUME TroubleInv, AckInv', NEW w \in Write, Running(w), InVain(w),
         NEW end \in {"failed", "raised"}, NextAttempt(w, end), cached' = None,
         posts' = posts, replies' \subseteq replies, UNCHANGED <<group, changes, troubled, toll>>
  PROVE  TroubleInv'
<1>1. PICK r \in Locals : /\ OwnStep(w, r) /\ r.stage \in {"lookup", end}
                          /\ r.stage = "lookup" => r.attempt = task[w].attempt + 1
                          /\ r.stage # "lookup" => task[w].attempt >= Attempts
  BY NextAttemptSteps DEF TroubleInv
<1>2. task'[w] = r
  BY <1>1, OwnTask DEF TroubleInv
<1>3. ~Lost(w)'  /\ ~Misled(w)'
  BY <1>1, <1>2 DEF Lost, Misled
<1>4. ~InVain(w)'
  BY <1>3 DEF InVain
<1>5. Running(w)' => r.stage = "lookup"
  BY <1>1, <1>2 DEF Running, Ended
<1>6. OwnPays(w, r)
  BY <1>1, <1>3, <1>4, <1>5 DEF OwnPays
<1>. QED  BY <1>1, <1>6, OwnKeeps

LEMMA ReadPays ==
  ASSUME TroubleInv, AckInv', NEW w \in Write, NEW a \in replies, ReadReply(w, a)
  PROVE  TroubleInv'
<1>1. /\ task[w].stage = "posted" /\ Current(w, a)
      /\ posts' = posts /\ replies' \subseteq replies /\ UNCHANGED <<group, changes, troubled, toll>>
  BY DEF ReadReply, counters, ghosts, past, Current
<1>2. AckInv /\ Running(w)
  BY <1>1, TaskTyped DEF TroubleInv
<1>3. CASE a.code = 200
  <2>1. PICK t \in Locals : t = task[w]
    BY <1>2, TaskTyped
  <2>. DEFINE r == [t EXCEPT !.stage = "ok"]
  <2>2. r \in Locals /\ r.stage = "ok" /\ r.attempt = t.attempt
    BY DEF Locals, Stage
  <2>3. task' = [task EXCEPT ![w] = r] /\ cached' = cached
    BY <1>3, <2>1 DEF ReadReply, Step
  <2>. HIDE DEF r
  <2>4. OwnStep(w, r)
    BY <1>1, <1>2, <2>1, <2>2, <2>3 DEF OwnStep, group, Ended
  <2>5. task'[w] = r
    BY <1>2, <2>4, OwnTask
  <2>6. OwnPays(w, r)
    BY <2>2, <2>3, <2>5 DEF OwnPays, Misled, Running, Ended
  <2>. QED  BY <1>1, <2>4, <2>6, OwnKeeps
<1>4. CASE a.code # 200
  <2>1. cached' = None /\ NextAttempt(w, "failed")
    BY <1>4 DEF ReadReply
  <2>2. InVain(w)
    BY <1>1, <1>4 DEF InVain, Lost, Doomed
  <2>. QED  BY <1>1, <1>2, <2>1, <2>2, VainPays
<1>. QED  BY <1>3, <1>4

LEMMA NoLeaderPays ==
  ASSUME TroubleInv, AckInv', NEW w \in Write, NoLeader(w)
  PROVE  TroubleInv'
<1>1. /\ task[w].stage = "unfound" /\ cached' = None /\ NextAttempt(w, "raised")
      /\ posts' = posts /\ replies' = replies /\ UNCHANGED <<group, changes, troubled, toll>>
  BY DEF NoLeader, wire, counters, ghosts, past
<1>2. Running(w) /\ InVain(w)
  BY <1>1, TaskTyped DEF TroubleInv, InVain, Lost
<1>. QED  BY <1>1, <1>2, VainPays

LEMMA StateFaultPays ==
  ASSUME TroubleInv, AckInv', NEW w \in Write, NEW v \in Voter, StateCallFails(w, v)
  PROVE  TroubleInv'
<1>1. /\ UNCHANGED <<group, cached, posts, replies, changes, toll>> /\ Troubled(TRUE)
      /\ Asks(w, v) /\ NotFound(w, task[w].hint) /\ AckInv
  BY DEF past, StateCallFails, wire, TroubleInv
<1>2. PICK t \in Locals : t = task[w] /\ t.stage \in {"ask", "verify"}
  BY <1>1 DEF AckInv, CoordinatorType, TaskType, Asks
<1>3. PICK r \in Locals : /\ task' = [task EXCEPT ![w] = r]
                          /\ r.stage \in {"ask", "verify", "unfound"} /\ r.attempt = task[w].attempt
  <2>1. t.hint \in Voter \cup {None}
    BY DEF Locals
  <2>. QED  BY <1>1, <1>2, <2>1, NotFoundAttempt
<1>4. OwnStep(w, r)
  BY <1>1, <1>2, <1>3, TaskTyped DEF OwnStep, group
<1>5. ~Misled(w)'
  BY <1>1, <1>3, <1>4, OwnTask DEF Misled
<1>. QED  BY <1>1, <1>4, <1>5, OwnFault

LEMMA CallFaultPays ==
  ASSUME TroubleInv, AckInv', NEW w \in Write, CallFails(w)
  PROVE  TroubleInv'
<1>1. /\ task[w].stage = "posted" /\ cached' = None /\ NextAttempt(w, "failed")
      /\ posts' \subseteq posts /\ replies' \subseteq replies
      /\ UNCHANGED <<group, changes, toll>> /\ Troubled(TRUE)
  BY DEF past, CallFails
<1>2. AckInv /\ Running(w)
  BY <1>1, TaskTyped DEF TroubleInv
<1>3. PICK r \in Locals : OwnStep(w, r) /\ r.stage \in {"lookup", "failed"}
  BY <1>1, <1>2, NextAttemptSteps DEF TroubleInv
<1>4. ~Misled(w)'
  BY <1>2, <1>3, OwnTask DEF Misled
<1>. QED  BY <1>1, <1>3, <1>4, OwnFault

-----------------------------------------------------------------------------
(* The steps of the group.                                                 *)

\* A step that changes neither a coroutine nor the leader costs nobody anything.
LEMMA NobodyCharged ==
  ASSUME TroubleInv, AckInv', Tried', Quiet', chief' = chief, cached' = cached, task' = task,
         changes' = changes, toll' = toll,
         claims' \subseteq claims, \A w \in Write : Excused(w) => Excused(w)',
         \A w \in Write : ~Excused(w)' /\ Doomed(w)' => Doomed(w)
  PROVE  TroubleInv'
<1>11. \A w \in Write : (Misled(w)' <=> Misled(w)) /\ (Running(w)' <=> Running(w))
  BY DEF Misled, Running
<1>12. Runners' = Runners
  BY <1>11 DEF Runners
<1>1. /\ IsFiniteSet(Runners') /\ toll \in [Write -> Nat]
      /\ \A w \in Write : (Misled(w)' <=> Misled(w)) /\ (Running(w)' <=> Running(w))
      /\ \A w \in Write : OthersMisled(w)' = OthersMisled(w)
  BY <1>11, <1>12 DEF OthersMisled, TroubleInv
<1>2. Unchanged'
  BY <1>1 DEF Unchanged, TroubleInv
<1>3. ASSUME NEW w \in Write, ~Excused(w)'
      PROVE  /\ Running(w)' => Charge(w)' <= toll[w]
             /\ task'[w].stage \in {"failed", "raised"} => Attempts <= toll[w]
  <2>1. w \in Write /\ ~Excused(w)
    BY <1>3
  <2>2. Lost(w)' => Lost(w)
    BY <1>1, <1>3, <2>1 DEF Lost
  <2>3. InVain(w)' => InVain(w)
    BY <2>2 DEF InVain
  <2>4. Charge(w)' <= Charge(w)
    BY <1>1, <2>1, <2>3, ChargeKept DEF TroubleInv
  <2>5. Charge(w) \in Int /\ Charge(w)' \in Int /\ toll[w] \in Nat
    <3>1. task[w].attempt \in Nat /\ Cardinality(OthersMisled(w)) \in Nat /\ toll[w] \in Nat
      BY <2>1, TaskTyped, MisledFinite DEF TroubleInv
    <3>2. task'[w].attempt \in Nat /\ Cardinality(OthersMisled(w)') \in Nat
      BY <1>1, <2>1, <3>1
    <3>. QED  BY <3>1, <3>2 DEF Charge
  <2>. QED  BY <1>1, <1>3, <2>1, <2>4, <2>5 DEF TroubleInv, Paid
<1>4. Paid'
  BY <1>1, <1>3 DEF Paid
<1>. QED  BY <1>1, <1>2, <1>4 DEF TroubleInv

\* Fewer voters that say they lead: the chief is still one of them.
LEMMA ClaimsShrink ==
  ASSUME TroubleInv, AckInv', claims' \subseteq claims, UNCHANGED <<chief, task, troubled>>
  PROVE  Quiet'
<1>1. chief' \in claims' \cup {None}
  BY DEF AckInv, CoordinatorType, WireType
<1>. QED  BY <1>1 DEF Quiet, TroubleInv, Running

\* A command that is served was posted, and its answer is of the same attempt.
LEMMA ServedPost ==
  ASSUME AckInv, Tried, NEW p \in posts, NEW code, Serve(p, code)
  PROVE  /\ Tried' /\ UNCHANGED <<chief, cached, task, changes, toll>>
         /\ \A q \in posts' : q \in posts
         /\ \A w \in Write : \A r \in replies' :
              Current(w, r) => r \in replies \/ (r.code = code /\ Current(w, p))
<1>1. /\ UNCHANGED <<chief, cached, task, changes, toll>>
      /\ \A q \in posts' : q \in posts
      /\ \A r \in replies' : r \in replies \/ r = Reply(p, code)
  BY DEF past, Serve
<1>2. /\ Reply(p, code).write = p.write /\ Reply(p, code).attempt = p.attempt
      /\ Reply(p, code).code = code
  BY DEF Reply
<1>3. \A q \in (posts \cup replies)' :
        \E o \in posts \cup replies : q.write = o.write /\ q.attempt = o.attempt
  BY <1>1, <1>2
<1>4. ASSUME NEW q \in (posts \cup replies)'
      PROVE  /\ q.attempt <= task'[q.write].attempt
             /\ \A w \in Write : Running(w)' /\ Current(w, q)' => task'[w].stage = "posted"
  <2>1. PICK o \in posts \cup replies : q.write = o.write /\ q.attempt = o.attempt
    BY <1>3
  <2>2. /\ o.attempt <= task[o.write].attempt
        /\ \A w \in Write : Running(w) /\ Current(w, o) => task[w].stage = "posted"
    BY DEF Tried
  <2>. QED  BY <1>1, <2>1, <2>2 DEF Running, Current
<1>5. Tried'
  BY <1>1, <1>4 DEF Tried, Running
<1>6. ASSUME NEW w \in Write, NEW r \in replies', Current(w, r)
      PROVE  r \in replies \/ (r.code = code /\ Current(w, p))
  BY <1>1, <1>2, <1>6 DEF Current
<1>. QED  BY <1>1, <1>5, <1>6

\* A refused command had gone to a voter that does not lead.
LEMMA RefusalPays ==
  ASSUME TroubleInv, AckInv', NEW p \in posts, p.to # chief, Serve(p, 409),
         claims' \subseteq claims, UNCHANGED <<committed, troubled>>
  PROVE  TroubleInv'
<1>1. /\ Tried' /\ UNCHANGED <<chief, cached, task, changes, committed, troubled, toll>>
      /\ p.to # chief /\ \A q \in posts' : q \in posts
      /\ \A w \in Write : \A r \in replies' : Current(w, r) => r \in replies \/ Current(w, p)
  <2>1. AckInv /\ Tried
    BY DEF TroubleInv
  <2>. QED  BY <2>1, ServedPost
<1>2. Quiet'
  BY <1>1, ClaimsShrink
<1>3. \A w \in Write : (Excused(w) <=> Excused(w)') /\ (Doomed(w)' => Doomed(w))
  BY <1>1 DEF Excused, Stuck, Applies, Doomed, Current
<1>. QED  BY <1>1, <1>2, <1>3, NobodyCharged

LEMMA RefusePays ==
  ASSUME TroubleInv, AckInv', NEW p \in posts, Refuse(p)
  PROVE  TroubleInv'
<1>1. p.to \in Voter /\ chief \in claims \cup {None}
  BY DEF TroubleInv, AckInv, CoordinatorType, WireType, CommandPost
<1>2. p.to # chief
  BY <1>1, CoordinatorAssumption DEF Refuse
<1>. QED  BY <1>2, RefusalPays DEF Refuse

LEMMA OutvotedPays ==
  ASSUME TroubleInv, AckInv', NEW p \in posts, Outvoted(p)
  PROVE  TroubleInv'
BY RefusalPays DEF Outvoted

LEMMA CommitPays ==
  ASSUME TroubleInv, AckInv', NEW p \in posts, Commit(p)
  PROVE  TroubleInv'
<1>1. PICK code : Serve(p, code) /\ (code # 200 => Stuck')
  BY DEF Commit
<1>2. /\ Tried' /\ UNCHANGED <<chief, cached, task, changes, troubled, toll>>
      /\ \A q \in posts' : q \in posts
      /\ \A w \in Write : \A r \in replies' : Current(w, r) => r \in replies \/ r.code = code
  <2>1. AckInv /\ Tried /\ troubled' = troubled
    BY DEF TroubleInv, Commit
  <2>. QED  BY <1>1, <2>1, ServedPost
<1>3. Stuck => Stuck'
  <2>1. Begins(committed, committed')
    <3>1. p.to = chief /\ committed' = Longer(p)
      BY DEF Commit
    <3>. QED  BY <3>1, ChiefsLonger DEF TroubleInv
  <2>. QED  BY <2>1, StuckStays DEF TroubleInv, AckInv, CoordinatorType
<1>4. claims' \subseteq claims
  BY DEF Commit, Take
<1>5. Quiet'
  BY <1>2, <1>4, ClaimsShrink
<1>6. \A w \in Write : Excused(w) => Excused(w)'
  BY <1>2, <1>3 DEF Excused, Stuck, Applies
<1>7. ASSUME NEW w \in Write, ~Excused(w)', Doomed(w)'
      PROVE  Doomed(w)
  <2>1. code = 200
    BY <1>1, <1>7 DEF Excused, Stuck, Applies
  <2>2. \A r \in replies' : Current(w, r)' /\ r.code # 200 => r \in replies /\ Current(w, r)
    BY <1>2, <2>1 DEF Current
  <2>3. \A q \in posts' : Current(w, q)' => q \in posts /\ Current(w, q)
    BY <1>2 DEF Current
  <2>. QED  BY <1>2, <1>7, <2>2, <2>3 DEF Doomed
<1>. QED  BY <1>2, <1>4, <1>5, <1>6, <1>7, NobodyCharged

LEMMA MissPays ==
  ASSUME TroubleInv, AckInv', NEW p \in posts, MissMajority(p)
  PROVE  TroubleInv'
<1>1. Serve(p, 409) /\ committed' = committed /\ Troubled(TRUE) /\ claims' \subseteq claims
  BY DEF MissMajority, Take
<1>2. AckInv /\ Tried
  BY DEF TroubleInv
<1>3. Tried' /\ UNCHANGED <<chief, cached, task, changes, toll>>
  BY <1>1, <1>2, ServedPost
<1>4. IsFiniteSet(Runners')
  BY <1>3 DEF Runners, Running, TroubleInv
<1>5. Stuck => Stuck'
  BY <1>1 DEF Stuck, Applies
<1>. QED  BY <1>1, <1>3, <1>4, <1>5, FaultKeeps DEF Running, Misled

\* The voters agree, or every write that runs is in trouble.
LEMMA HearPays ==
  ASSUME TroubleInv, AckInv', NEW v \in Voter, Hear(v)
  PROVE  TroubleInv'
<1>1. /\ UNCHANGED <<chief, cached, task, changes, committed, posts, replies, toll>>
      /\ claims' \subseteq claims /\ Troubled(FALSE)
  BY DEF past, Hear, wire, counters, Take
<1>2. Tried'
  BY <1>1 DEF Tried, TroubleInv, Running, Current
<1>3. Quiet'
  BY <1>1 DEF Quiet, Troubled, Running
<1>4. \A w \in Write : (Excused(w) => Excused(w)') /\ (Doomed(w)' => Doomed(w))
  BY <1>1 DEF Excused, Stuck, Applies, Doomed, Current, Troubled
<1>. QED  BY <1>1, <1>2, <1>3, <1>4, NobodyCharged

\* Another leader costs every write what its other attempts may have been spared.
LEMMA ChangePays ==
  ASSUME TroubleInv, AckInv', NEW v \in Voter \cup {None}, ChangeLeader(v)
  PROVE  TroubleInv'
<1>1. /\ UNCHANGED <<cached, task, committed, posts, replies>> /\ Troubled(FALSE)
      /\ changes' = changes + 1 /\ changes \in Nat /\ IsFiniteSet(Runners)
      /\ toll' = [w \in Write |-> IF Running(w) THEN toll[w] + Cardinality(Runners) ELSE toll[w]]
  BY DEF ChangeLeader, wire, TroubleInv
<1>2. Tried' /\ \A w \in Write : Running(w)' <=> Running(w)
  BY <1>1 DEF Tried, TroubleInv, Running, Current
<1>9. Runners' = Runners
  BY <1>2 DEF Runners
<1>3. Quiet'
  BY <1>1 DEF Quiet, Troubled, Running
<1>4. Unchanged'
  BY <1>1 DEF Unchanged
<1>5. PICK b \in Nat : b = Cardinality(Runners) /\ b = Cardinality(Runners')
  BY <1>1, <1>9, FS_CardinalityType
<1>6. /\ toll \in [Write -> Nat] /\ toll' \in [Write -> Nat]
      /\ \A w \in Write : toll'[w] = IF Running(w) THEN toll[w] + b ELSE toll[w]
  BY <1>1, <1>5 DEF TroubleInv
<1>7. ASSUME NEW w \in Write, ~Excused(w)'
      PROVE  /\ Running(w)' => Charge(w)' <= toll'[w]
             /\ task'[w].stage \in {"failed", "raised"} => Attempts <= toll'[w]
  <2>1. w \in Write /\ ~Excused(w)
    BY <1>1, <1>7 DEF Excused, Stuck, Applies, Troubled
  <2>2. ASSUME Running(w)'
        PROVE  Charge(w)' <= toll'[w]
    <3>1. PICK k \in Nat, m \in Nat : k = task[w].attempt /\ m = Cardinality(OthersMisled(w))
      BY <2>1, TaskTyped, MisledFinite DEF TroubleInv
    <3>2. k - 1 + m + (IF InVain(w) THEN 1 ELSE 0) <= toll[w]
      BY <1>2, <2>1, <2>2, <3>1 DEF TroubleInv, Paid, Charge
    <3>3. PICK n \in Nat : n = Cardinality(OthersMisled(w)') /\ n + 1 <= b
      <4>1. /\ Cardinality(OthersMisled(w)') \in Nat
            /\ Cardinality(OthersMisled(w)') + 1 <= Cardinality(Runners')
        BY <1>1, <1>9, <2>1, <2>2, MisledPrimed DEF Runners
      <4>. QED  BY <1>5, <4>1
    <3>4. Charge(w)' = k - 1 + n + (IF InVain(w)' THEN 1 ELSE 0)
      BY <1>1, <3>1, <3>3 DEF Charge
    <3>5. PICK t \in Nat : t = toll[w] /\ toll'[w] = t + b
      BY <1>2, <1>6, <2>1, <2>2
    <3>6. k - 1 <= t
      BY <3>1, <3>2, <3>5
    <3>. QED  BY <3>1, <3>3, <3>4, <3>5, <3>6
  <2>3. ASSUME task'[w].stage \in {"failed", "raised"}
        PROVE  Attempts <= toll'[w]
    <3>1. Attempts <= toll[w]
      BY <1>1, <2>1, <2>3 DEF TroubleInv, Paid
    <3>2. PICK t \in Nat : t = toll[w] /\ toll'[w] \in {t, t + b}
      BY <1>6, <2>1
    <3>. QED  BY <1>5, <3>1, <3>2, CoordinatorAssumption
  <2>. QED  BY <2>2, <2>3
<1>8. Paid'
  BY <1>2, <1>7 DEF Paid
<1>. QED  BY <1>1, <1>2, <1>3, <1>4, <1>6, <1>8, <1>9 DEF TroubleInv

-----------------------------------------------------------------------------
(* A write begins.                                                         *)

LEMMA BegunMore ==
  ASSUME TroubleInv, AckInv', NEW w \in Write, BeginWrite(w)
  PROVE  /\ task'[w].stage = "lookup" /\ task'[w].attempt = 1
         /\ task[w].attempt = 0 /\ ~Running(w) /\ Running(w)'
         /\ \A x \in Write \ {w} : task'[x] = task[x]
         /\ Runners' = Runners \cup {w} /\ IsFiniteSet(Runners')
         /\ UNCHANGED <<chief, claims, committed, cached, posts, replies, changes>>
         /\ toll' \in [Write -> Nat]
         /\ toll'[w] = IF changes = 0 THEN 0 ELSE Cardinality(Runners')
         /\ \A x \in Write \ {w} : toll'[x] = toll[x]
<1>1. /\ task[w] = Idle /\ task' = [task EXCEPT ![w] = [Idle EXCEPT !.stage = "lookup", !.attempt = 1]]
      /\ UNCHANGED <<chief, claims, committed, cached, posts, replies, changes>>
      /\ DOMAIN task = Write
  BY DEF BeginWrite, Step, group, wire, counters, TroubleInv, AckInv, CoordinatorType, TaskType
<1>2. /\ task'[w].stage = "lookup" /\ task'[w].attempt = 1
      /\ task[w].attempt = 0 /\ task[w].stage = "idle"
      /\ \A x \in Write \ {w} : task'[x] = task[x]
  BY <1>1 DEF Idle
<1>3. ~Running(w) /\ Running(w)' /\ \A x \in Write \ {w} : Running(x)' <=> Running(x)
  BY <1>2 DEF Running, Ended
<1>4. Runners' = Runners \cup {w}
  BY <1>3 DEF Runners
<1>5. IsFiniteSet(Runners') /\ Cardinality(Runners') \in Nat
  BY <1>4, FS_AddElement, FS_CardinalityType DEF TroubleInv
<1>6. /\ toll \in [Write -> Nat]
      /\ toll' = [toll EXCEPT ![w] = IF changes = 0 THEN 0 ELSE Cardinality(Runners')]
  BY <1>4 DEF BeginWrite, TroubleInv
<1>7. (IF changes = 0 THEN 0 ELSE Cardinality(Runners')) \in Nat
  BY <1>5
<1>. QED  BY <1>1, <1>2, <1>3, <1>4, <1>5, <1>6, <1>7

LEMMA BeginTried ==
  ASSUME TroubleInv, AckInv', NEW w \in Write, BeginWrite(w)
  PROVE  Tried'
<1>1. /\ task'[w].attempt = 1 /\ task[w].attempt = 0
      /\ \A x \in Write \ {w} : task'[x] = task[x]
      /\ posts' = posts /\ replies' = replies
  BY BegunMore
<1>2. ASSUME NEW x \in Write, Running(x)'
      PROVE  task'[x].attempt \in 1 .. Attempts
  BY <1>1, <1>2, CoordinatorAssumption DEF TroubleInv, Tried, Running
<1>3. ASSUME NEW p \in (posts \cup replies)'
      PROVE  /\ p.attempt <= task'[p.write].attempt
             /\ \A x \in Write : Running(x)' /\ Current(x, p)' => task'[x].stage = "posted"
  <2>1. PICK y \in Write, n \in Nat : y = p.write /\ n = p.attempt /\ n <= task[y].attempt
    BY <1>1, PostTyped DEF TroubleInv, Tried
  <2>2. n <= task'[y].attempt
    BY <1>1, <2>1
  <2>3. ASSUME NEW x \in Write, Running(x)', Current(x, p)'
        PROVE  task'[x].stage = "posted"
    <3>1. x = y /\ n = task'[x].attempt
      BY <2>1, <2>3 DEF Current
    <3>2. x # w
      BY <1>1, <2>1, <3>1
    <3>3. task'[x] = task[x] /\ Running(x) /\ Current(x, p)
      BY <1>1, <2>3, <3>2 DEF Running, Current
    <3>. QED  BY <1>1, <3>3 DEF TroubleInv, Tried
  <2>. QED  BY <2>1, <2>2, <2>3
<1>. QED  BY <1>2, <1>3 DEF Tried

LEMMA BeginPays ==
  ASSUME TroubleInv, AckInv', NEW w \in Write, BeginWrite(w)
  PROVE  TroubleInv'
<1>1. /\ task'[w].stage = "lookup" /\ task'[w].attempt = 1
      /\ ~Running(w)
      /\ \A x \in Write \ {w} : task'[x] = task[x]
      /\ Runners' = Runners \cup {w} /\ IsFiniteSet(Runners')
      /\ UNCHANGED <<chief, claims, committed, cached, posts, replies, changes>>
      /\ toll' \in [Write -> Nat]
      /\ toll'[w] = IF changes = 0 THEN 0 ELSE Cardinality(Runners')
      /\ \A x \in Write \ {w} : toll'[x] = toll[x]
  BY BegunMore
<1>2. Tried'
  BY BeginTried
<1>3. /\ \A x \in troubled : x \in troubled'
      /\ w \notin troubled' => claims = {chief} /\ chief # None
      /\ \A x \in Write \ {w} : x \in troubled' => x \in troubled
  BY DEF BeginWrite
<1>4. Quiet'
  BY <1>1, <1>3 DEF Quiet, TroubleInv, Running
<1>5. ~Misled(w)' /\ ~Misled(w) /\ ~Lost(w)'
  BY <1>1 DEF Misled, Lost, Running, Ended
<1>6. \A x \in Write \ {w} : Misled(x)' <=> Misled(x)
  BY <1>1 DEF Misled
<1>7. \A x \in Write : OthersMisled(x)' = OthersMisled(x)
  BY <1>5, <1>6 DEF OthersMisled
<1>8. Unchanged'
  BY <1>1, <1>5, <1>6 DEF Unchanged, TroubleInv
<1>9. ASSUME NEW x \in Write, ~Excused(x)'
      PROVE  /\ Running(x)' => Charge(x)' <= toll'[x]
             /\ task'[x].stage \in {"failed", "raised"} => Attempts <= toll'[x]
  <2>1. CASE x = w
    <3>1. PICK m \in Nat, b \in Nat : /\ m = Cardinality(OthersMisled(w)) /\ IsFiniteSet(OthersMisled(w))
                                      /\ b = Cardinality(Runners')
                                      /\ m + 1 <= b
      <4>1. /\ Cardinality(OthersMisled(w)) \in Nat /\ IsFiniteSet(OthersMisled(w))
            /\ Cardinality(OthersMisled(w)) <= Cardinality(Runners)
        BY MisledFinite DEF TroubleInv
      <4>2. Cardinality(Runners') = Cardinality(Runners) + 1 /\ Cardinality(Runners) \in Nat
        BY <1>1, FS_AddElement, FS_CardinalityType DEF TroubleInv, Runners
      <4>. QED  BY <4>1, <4>2
    <3>2. Charge(w)' = m + (IF InVain(w)' THEN 1 ELSE 0)
      BY <1>1, <1>7, <3>1 DEF Charge
    <3>3. CASE changes = 0
      <4>1. ~InVain(w)'
        BY <1>1, <1>5, <3>3 DEF InVain, Unchanged, TroubleInv
      <4>2. OthersMisled(w) = {}
        BY <3>3 DEF OthersMisled, Unchanged, TroubleInv
      <4>3. m = 0
        BY <3>1, <4>2, FS_EmptySet
      <4>. QED  BY <1>1, <2>1, <3>2, <4>1, <4>3
    <3>4. CASE changes # 0
      BY <1>1, <2>1, <3>1, <3>2, <3>4
    <3>. QED  BY <3>3, <3>4
  <2>2. CASE x # w
    <3>1. x \in Write \ {w} /\ ~Excused(x)
      BY <1>1, <1>3, <1>9, <2>2 DEF Excused, Stuck, Applies
    <3>2. InVain(x)' => InVain(x)
      BY <1>1, <1>6, <3>1 DEF InVain, Lost, Doomed, Current
    <3>3. Charge(x)' <= Charge(x)
      BY <1>1, <1>7, <3>1, <3>2, ChargeKept DEF TroubleInv
    <3>4. Charge(x) \in Int /\ Charge(x)' \in Int
      <4>1. task[x].attempt \in Nat /\ Cardinality(OthersMisled(x)) \in Nat
        BY <3>1, TaskTyped, MisledFinite DEF TroubleInv
      <4>2. task'[x].attempt \in Nat /\ Cardinality(OthersMisled(x)') \in Nat
        BY <1>1, <1>7, <3>1, <4>1
      <4>. QED  BY <4>1, <4>2 DEF Charge
    <3>5. ASSUME Running(x)'
          PROVE  Charge(x)' <= toll'[x]
      <4>1. Running(x)
        BY <1>1, <3>1, <3>5 DEF Running
      <4>2. Charge(x) <= toll[x]
        BY <3>1, <4>1 DEF TroubleInv, Paid
      <4>. QED  BY <1>1, <3>1, <3>3, <3>4, <4>2 DEF TroubleInv
    <3>6. ASSUME task'[x].stage \in {"failed", "raised"}
          PROVE  Attempts <= toll'[x]
      <4>1. Attempts <= toll[x]
        BY <1>1, <3>1, <3>6 DEF TroubleInv, Paid
      <4>. QED  BY <1>1, <3>1, <4>1
    <3>. QED  BY <3>5, <3>6
  <2>. QED  BY <2>1, <2>2
<1>10. Paid'
  BY <1>9 DEF Paid
<1>. QED  BY <1>1, <1>2, <1>4, <1>8, <1>10 DEF TroubleInv

-----------------------------------------------------------------------------
LEMMA InitTrouble == CoordinatorInit => TroubleInv
<1>. SUFFICES ASSUME CoordinatorInit
              PROVE  TroubleInv
  OBVIOUS
<1>1. AckInv
  BY InitAckInv
<1>2. \A w \in Write : task[w] = Idle
  BY DEF CoordinatorInit
<1>3. \A w \in Write : task[w].stage = "idle" /\ ~Running(w) /\ ~Misled(w)
  BY <1>2 DEF Idle, Running, Ended, Misled
<1>4. Runners = {} /\ IsFiniteSet({})
  BY <1>3, FS_EmptySet DEF Runners
<1>5. changes \in Nat /\ toll \in [Write -> Nat] /\ posts = {} /\ replies = {}
      /\ claims \subseteq {chief} /\ cached \in {chief, None}
  BY DEF CoordinatorInit
<1>6. Tried /\ Quiet /\ Unchanged /\ Paid
  BY <1>3, <1>4, <1>5 DEF Tried, Quiet, Unchanged, Paid
<1>. QED  BY <1>1, <1>4, <1>5, <1>6 DEF TroubleInv

LEMMA StepTrouble == TroubleInv /\ [CoordinatorNext]_coordinatorVars => TroubleInv'
<1>. SUFFICES ASSUME TroubleInv, [CoordinatorNext]_coordinatorVars
              PROVE  TroubleInv'
  OBVIOUS
<1>1. AckInv'
  BY StepAckInv DEF TroubleInv
<1>2. ASSUME NEW w \in Write, BeginWrite(w)
      PROVE  TroubleInv'
  BY <1>1, <1>2, BeginPays
<1>3. ASSUME NEW w \in Write, WriteStep(w)
      PROVE  TroubleInv'
  <2>1. CASE LookUp(w)
    BY <1>1, <2>1, LookUpPays
  <2>2. ASSUME NEW v \in Voter, AnswerState(w, v)
        PROVE  TroubleInv'
    BY <1>1, <2>2, AnswerPays
  <2>3. ASSUME NEW v \in Voter, StateCallFails(w, v)
        PROVE  TroubleInv'
    BY <1>1, <2>3, StateFaultPays
  <2>4. CASE UseLeader(w)
    BY <1>1, <2>4, UsePays
  <2>5. CASE NoLeader(w)
    BY <1>1, <2>5, NoLeaderPays
  <2>6. ASSUME NEW r \in replies, ReadReply(w, r)
        PROVE  TroubleInv'
    BY <1>1, <2>6, ReadPays
  <2>7. CASE CallFails(w)
    BY <1>1, <2>7, CallFaultPays
  <2>. QED  BY <1>3, <2>1, <2>2, <2>3, <2>4, <2>5, <2>6, <2>7 DEF WriteStep
<1>4. CASE GroupStep
  <2>1. ASSUME NEW v \in Voter \cup {None}, ChangeLeader(v)
        PROVE  TroubleInv'
    BY <1>1, <2>1, ChangePays
  <2>2. ASSUME NEW v \in Voter, Hear(v)
        PROVE  TroubleInv'
    BY <1>1, <2>2, HearPays
  <2>3. ASSUME NEW p \in posts, Refuse(p)
        PROVE  TroubleInv'
    BY <1>1, <2>3, RefusePays
  <2>6. ASSUME NEW p \in posts, Outvoted(p)
        PROVE  TroubleInv'
    BY <1>1, <2>6, OutvotedPays
  <2>4. ASSUME NEW p \in posts, MissMajority(p)
        PROVE  TroubleInv'
    BY <1>1, <2>4, MissPays
  <2>5. ASSUME NEW p \in posts, Commit(p)
        PROVE  TroubleInv'
    BY <1>1, <2>5, CommitPays
  <2>. QED  BY <1>4, <2>1, <2>2, <2>3, <2>4, <2>5, <2>6 DEF GroupStep
<1>5. CASE UNCHANGED coordinatorVars
  <2>1. UNCHANGED <<chief, claims, committed, cached, task, posts, replies, changes, troubled, toll>>
    BY <1>5 DEF coordinatorVars
  <2>2. Tried' /\ Quiet'
    BY <2>1 DEF TroubleInv, Tried, Quiet, Running, Current
  <2>3. \A w \in Write : (Excused(w) => Excused(w)') /\ (Doomed(w)' => Doomed(w))
    BY <2>1 DEF Excused, Stuck, Applies, Doomed, Current
  <2>. QED  BY <1>1, <2>1, <2>2, <2>3, NobodyCharged
<1>. QED  BY <1>2, <1>3, <1>4, <1>5 DEF CoordinatorNext

\* A write that fails has met a failed call, an entry that cannot be applied, voters
\* that disagree, or as many passed leaders as it has attempts: a change of leadership
\* costs it at most one attempt for every write that runs and may put the deposed leader
\* into the cache (coordinator.submit_raft_command, LeaderDirectory.get_leader).
THEOREM FailsAlwaysInTrouble == CoordinatorSpec => []FailsInTroubleOnly
<1>1. TroubleInv => FailsInTroubleOnly
  <2>. SUFFICES ASSUME TroubleInv, NEW w \in Write, task[w].stage \in {"failed", "raised"},
                       w \notin troubled, ~Stuck
                PROVE  toll[w] >= Attempts
    BY DEF FailsInTroubleOnly
  <2>1. toll[w] \in Nat /\ Attempts <= toll[w]
    BY DEF TroubleInv, Paid, Excused
  <2>. QED  BY <2>1, CoordinatorAssumption
<1>. QED  BY <1>1, InitTrouble, StepTrouble, PTL DEF CoordinatorSpec
=============================================================================
