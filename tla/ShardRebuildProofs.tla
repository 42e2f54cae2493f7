------------------------- MODULE ShardRebuildProofs -------------------------
(* Rebuilds beside the Raft runtimes: what the runtimes promise of elections *)
(* and of submissions is kept, and a follower turns healthy only with an     *)
(* append of its leader that leaves its positions as they were.  Everything  *)
(* here is without Attentive.                                                *)
EXTENDS ShardRebuild, RaftElectionsProofs

-----------------------------------------------------------------------------
(* The documents of a file and the file of documents.                      *)

LEMMA DocumentsFinite ==
  ASSUME NEW records \in Seq(Command)
  PROVE  Documents(records) \in SUBSET DocumentIds /\ IsFiniteSet(Documents(records))
<1>. DEFINE ids == {records[i].id : i \in 1 .. Len(records)}
            f == [i \in 1 .. Len(records) |-> records[i].id]
<1>1. Len(records) \in Nat
  BY LenProperties
<1>2. f \in Surjection(1 .. Len(records), ids)
  BY DEF Surjection
<1>3. IsFiniteSet(ids)
  BY <1>1, <1>2, FS_NatSurjection DEF ExistsSurjection
<1>4. Documents(records) \subseteq ids
  BY DEF Documents, Present, Writes
<1>. QED  BY <1>3, <1>4, FS_Subset DEF Documents

LEMMA SequenceOfSet ==
  ASSUME NEW S, IsFiniteSet(S)
  PROVE  SetToSeq(S) \in Seq(S)
<1>1. Cardinality(S) \in Nat /\ ExistsBijection(1 .. Cardinality(S), S)
  BY FS_CardinalityType
<1>2. \E f \in [1 .. Cardinality(S) -> S] : IsInjective(f)
  BY <1>1 DEF ExistsBijection, Bijection, Injection
<1>3. SetToSeq(S) \in [1 .. Cardinality(S) -> S]
  BY <1>2 DEF SetToSeq
<1>. QED  BY <1>1, <1>3, SeqDef

LEMMA CompactedType ==
  ASSUME NEW docs \in SUBSET DocumentIds, IsFiniteSet(docs)
  PROVE  Compacted(docs) \in Seq(Command)
<1>. DEFINE written == {[type |-> "add_document", id |-> d] : d \in docs}
            f == [d \in docs |-> [type |-> "add_document", id |-> d]]
<1>1. f \in Surjection(docs, written)
  BY DEF Surjection
<1>2. IsFiniteSet(written)
  BY <1>1, FS_Surjection
<1>3. written \subseteq Command
  BY AddAssumption DEF DocumentIds
<1>4. SetToSeq(written) \in Seq(written)
  BY <1>2, SequenceOfSet
<1>. QED  BY <1>3, <1>4 DEF Compacted

-----------------------------------------------------------------------------
(* Roles and submissions.                                                  *)

\* A leader runs no campaign; a voter that was deposed while it submits knows no
\* leader until its submission ends; the only voter of a group campaigns in one step.
RoleOK(n) ==
  /\ role[n] = "leader" => election[n] = Nil
  /\ submit[n] # Nil /\ role[n] # "leader" => leaderId[n] = Nil
  /\ Node = {n} => election[n] = Nil

RoleInv == \A n \in Node : RoleOK(n)

LEMMA InitRoleInv == Init => RoleInv
BY DEF Init, RoleInv, RoleOK

\* What RoleOK(n) looks at is unchanged.
SameRole(n) ==
  /\ role'[n] = role[n] /\ leaderId'[n] = leaderId[n]
  /\ election'[n] = election[n] /\ submit'[n] = submit[n]

LEMMA RoleStep ==
  ASSUME RoleInv, NEW n \in Node, \A k \in Node \ {n} : SameRole(k), SameRole(n) \/ RoleOK(n)'
  PROVE  RoleInv'
<1>1. ASSUME NEW k \in Node, SameRole(k)
      PROVE  RoleOK(k)'
  BY <1>1 DEF RoleInv, RoleOK, SameRole
<1>. QED  BY <1>1 DEF RoleInv

\* A group of one voter has no calls.
LEMMA SoleHasNoCalls ==
  ASSUME Inv, NEW n \in Node, Node = {n}
  PROVE  net = {}
BY MessageKinds DEF Inv, TypeOK, TypeNet, CallsTracked, NoSelfCall

LEMMA SoleIsMajority ==
  ASSUME NEW n \in Node, Node = {n}
  PROVE  Majority = 1
<1>1. Cardinality({n}) = 1
  BY FS_Singleton
<1>. QED  BY <1>1 DEF Majority

LEMMA StartElectionRole ==
  ASSUME Inv, Inv', RoleInv, NEW n \in Node, StartElection(n)
  PROVE  RoleInv'
<1>1. /\ state[n] \in DurableState /\ diskState[n] \in DurableState
      /\ state \in [Node -> DurableState] /\ diskState \in [Node -> DurableState]
      /\ role \in [Node -> Role] /\ leaderId \in [Node -> Node \cup {Nil}]
      /\ election \in [Node -> {Nil} \cup Campaign]
  BY DEF Inv, TypeOK, TypeCore, TypeTasks
<1>2. \A k \in Node \ {n} : SameRole(k)
  BY <1>1 DEF StartElection, BecomeLeader, SameRole
<1>3. CASE Majority = 1
  BY <1>1, <1>2, <1>3, RoleStep DEF StartElection, BecomeLeader, RoleOK
<1>4. CASE Majority # 1
  <2>1. role'[n] = "candidate" /\ leaderId'[n] = Nil /\ Node # {n}
    BY <1>1, <1>4, SoleIsMajority DEF StartElection
  <2>. QED  BY <1>2, <2>1, RoleStep DEF RoleOK
<1>. QED  BY <1>3, <1>4

LEMMA HandleRequestVoteRole ==
  ASSUME Inv, Inv', RoleInv, NEW n \in Node, NEW m \in net, HandleRequestVote(n, m)
  PROVE  RoleInv'
<1>1. /\ state \in [Node -> DurableState] /\ diskState \in [Node -> DurableState]
      /\ role \in [Node -> Role] /\ leaderId \in [Node -> Node \cup {Nil}]
  BY DEF Inv, TypeOK, TypeCore
<1>2. Node # {n}
  BY SoleHasNoCalls
<1>3. \A k \in Node \ {n} : SameRole(k)
  BY <1>1 DEF HandleRequestVote, SameRole
<1>4. RoleOK(n)'
  BY <1>1, <1>2 DEF HandleRequestVote, RoleInv, RoleOK
<1>. QED  BY <1>3, <1>4, RoleStep

LEMMA HandleVoteReplyRole ==
  ASSUME Inv, Inv', RoleInv, NEW n \in Node, NEW m \in net, HandleVoteReply(n, m)
  PROVE  RoleInv'
<1>1. /\ state \in [Node -> DurableState] /\ diskState \in [Node -> DurableState]
      /\ role \in [Node -> Role] /\ leaderId \in [Node -> Node \cup {Nil}]
      /\ election \in [Node -> {Nil} \cup Campaign]
  BY DEF Inv, TypeOK, TypeCore, TypeTasks
<1>2. Node # {n}
  BY SoleHasNoCalls
<1>3. m.task = "election" /\ Caller(m) = n
  BY MessageKinds DEF HandleVoteReply, Inv, TypeOK, TypeNet, VoteReply, Caller, IsRequest
<1>4. role[n] # "leader"
  BY <1>3 DEF Inv, CallsTracked, ElectionAwaits, RoleInv, RoleOK
<1>5. CASE LoseElection(n, m)
  <2>1. \A k \in Node \ {n} : SameRole(k)
    BY <1>1, <1>5 DEF HandleVoteReply, LoseElection, SameRole
  <2>2. RoleOK(n)'
    BY <1>1, <1>2, <1>4, <1>5 DEF HandleVoteReply, LoseElection, RoleInv, RoleOK
  <2>. QED  BY <2>1, <2>2, RoleStep
<1>6. CASE WinElection(n, m)
  <2>1. \A k \in Node \ {n} : SameRole(k)
    BY <1>1, <1>6 DEF HandleVoteReply, WinElection, BecomeLeader, SameRole
  <2>2. RoleOK(n)'
    BY <1>1, <1>2, <1>6 DEF HandleVoteReply, WinElection, BecomeLeader, RoleOK
  <2>. QED  BY <2>1, <2>2, RoleStep
<1>7. CASE CountVote(n, m)
  <2>1. \A k \in Node \ {n} : SameRole(k)
    BY <1>1, <1>7 DEF HandleVoteReply, CountVote, AwaitVotes, SameRole
  <2>2. RoleOK(n)'
    BY <1>2, <1>4, <1>7 DEF HandleVoteReply, CountVote, AwaitVotes, RoleInv, RoleOK
  <2>. QED  BY <2>1, <2>2, RoleStep
<1>. QED  BY <1>5, <1>6, <1>7 DEF HandleVoteReply

LEMMA VoteCallFailsRole ==
  ASSUME Inv, Inv', RoleInv, NEW n \in Node, NEW m \in net, VoteCallFails(n, m)
  PROVE  RoleInv'
<1>1. election \in [Node -> {Nil} \cup Campaign]
  BY DEF Inv, TypeOK, TypeTasks
<1>2. Node # {n}
  BY SoleHasNoCalls
<1>3. role[n] # "leader"
  BY DEF VoteCallFails, Calls, Inv, CallsTracked, ElectionAwaits, RoleInv, RoleOK
<1>4. \A k \in Node \ {n} : SameRole(k)
  BY <1>1 DEF VoteCallFails, AwaitVotes, SameRole
<1>5. RoleOK(n)'
  BY <1>2, <1>3 DEF VoteCallFails, AwaitVotes, RoleInv, RoleOK
<1>. QED  BY <1>4, <1>5, RoleStep

LEMMA HandleAppendEntriesRole ==
  ASSUME Inv, Inv', RoleInv, NEW n \in Node, NEW m \in net, HandleAppendEntries(n, m)
  PROVE  RoleInv'
<1>1. /\ state \in [Node -> DurableState] /\ diskState \in [Node -> DurableState]
      /\ role \in [Node -> Role] /\ leaderId \in [Node -> Node \cup {Nil}]
  BY DEF Inv, TypeOK, TypeCore
<1>2. Node # {n}
  BY SoleHasNoCalls
<1>3. UNCHANGED <<election, submit>> /\ submit[n] = Nil
  BY DEF HandleAppendEntries, tasks, LockFree
<1>4. \/ UNCHANGED <<role, leaderId>>
      \/ /\ role' = [role EXCEPT ![n] = "follower"]
         /\ leaderId' = [leaderId EXCEPT ![n] = m.source]
  BY DEF HandleAppendEntries
<1>5. \A k \in Node \ {n} : state'[k] = state[k] /\ diskState'[k] = diskState[k]
  BY <1>1 DEF HandleAppendEntries
<1>6. \A k \in Node \ {n} : SameRole(k)
  BY <1>1, <1>3, <1>4, <1>5 DEF SameRole
<1>7. RoleOK(n)'
  BY <1>1, <1>2, <1>3, <1>4 DEF RoleInv, RoleOK
<1>. QED  BY <1>6, <1>7, RoleStep

LEMMA HeartbeatStepRole ==
  ASSUME Inv, Inv', RoleInv, NEW n \in Node, HeartbeatStep(n)
  PROVE  RoleInv'
<1>1. /\ state \in [Node -> DurableState] /\ diskState \in [Node -> DurableState]
      /\ role \in [Node -> Role] /\ leaderId \in [Node -> Node \cup {Nil}]
  BY DEF Inv, TypeOK, TypeCore
<1>2. CASE UNCHANGED <<state, role, leaderId, election, submit, diskState>>
  BY <1>2, RoleStep DEF SameRole
<1>3. CASE \E m \in net : DeposedByHeartbeat(n, m) /\ UNCHANGED <<election, submit>>
  <2>1. PICK m \in net : DeposedByHeartbeat(n, m) /\ UNCHANGED <<election, submit>>
    BY <1>3
  <2>2. Node # {n}
    BY SoleHasNoCalls
  <2>3. \A k \in Node \ {n} : SameRole(k)
    BY <1>1, <2>1 DEF DeposedByHeartbeat, StepDown, SameRole
  <2>4. RoleOK(n)'
    BY <1>1, <2>1, <2>2 DEF DeposedByHeartbeat, StepDown, RoleOK
  <2>. QED  BY <2>3, <2>4, RoleStep
<1>4. ASSUME NEW m \in net, HandleHeartbeatReply(n, m)
      PROVE  \/ UNCHANGED <<state, role, leaderId, election, submit, diskState>>
             \/ DeposedByHeartbeat(n, m) /\ UNCHANGED <<election, submit>>
  BY <1>4 DEF HandleHeartbeatReply, EndHeartbeat, Retry, DeposedByHeartbeat
<1>5. CASE \/ Heartbeat(n) \/ (\E p \in Peers(n) : SendHeartbeat(n, p))
           \/ (\E m \in net : HeartbeatCallFails(n, m))
  BY <1>2, <1>5 DEF Heartbeat, SendHeartbeat, HeartbeatCallFails, core, disk, tasks
<1>. QED  BY <1>2, <1>3, <1>4, <1>5 DEF HeartbeatStep
LEMMA SubmitCommandRole ==
  ASSUME Inv, Inv', RoleInv, NEW n \in Node, NEW c \in Command, SubmitCommand(n, c)
  PROVE  RoleInv'
<1>1. /\ state \in [Node -> DurableState] /\ diskState \in [Node -> DurableState]
      /\ submit \in [Node -> {Nil} \cup Submission]
  BY DEF Inv, TypeOK, TypeCore, TypeTasks
<1>2. UNCHANGED <<role, leaderId, election>> /\ role[n] = "leader"
  BY DEF SubmitCommand
<1>3. \A k \in Node \ {n} : /\ submit'[k] = submit[k]
                            /\ state'[k] = state[k] /\ diskState'[k] = diskState[k]
  BY <1>1 DEF SubmitCommand, CallNextPeer, EndSubmit
<1>4. \A k \in Node \ {n} : SameRole(k)
  BY <1>2, <1>3 DEF SameRole
<1>5. RoleOK(n)'
  BY <1>2 DEF RoleInv, RoleOK
<1>. QED  BY <1>4, <1>5, RoleStep

LEMMA SubmitToSoleVoterRole ==
  ASSUME Inv, Inv', RoleInv, NEW n \in Node, NEW c \in Command, SubmitToSoleVoter(n, c)
  PROVE  RoleInv'
<1>1. Node = {n} /\ role'[n] = "leader" /\ UNCHANGED election
  BY DEF SubmitToSoleVoter, BecomeLeader, Inv, TypeOK, TypeCore
<1>2. RoleOK(n)'
  BY <1>1 DEF RoleInv, RoleOK
<1>. QED  BY <1>1, <1>2, RoleStep

\* The call of a submission that goes on with these values.
LEMMA ResumeRole ==
  ASSUME Inv, Inv', RoleInv, NEW n \in Node, NEW m \in net, m.task = "submit", Caller(m) = n,
         NEW replicated, NEW st, NEW ds, NEW prog, NEW base,
         Resume(n, replicated, st, ds, prog, base), UNCHANGED election,
         UNCHANGED <<role, leaderId>> \/ StepDown(n)
  PROVE  RoleInv'
<1>1. /\ state \in [Node -> DurableState] /\ diskState \in [Node -> DurableState]
      /\ role \in [Node -> Role] /\ leaderId \in [Node -> Node \cup {Nil}]
      /\ submit \in [Node -> {Nil} \cup Submission]
  BY DEF Inv, TypeOK, TypeCore, TypeTasks
<1>2. Node # {n} /\ submit[n] # Nil
  BY SoleHasNoCalls, SubmitCall, NilIsNoTask
<1>3. \A k \in Node \ {n} : /\ submit'[k] = submit[k]
                            /\ state'[k] = state[k] /\ diskState'[k] = diskState[k]
  BY <1>1 DEF Resume, CallNextPeer, EndSubmit
<1>4. \A k \in Node \ {n} : SameRole(k)
  BY <1>1, <1>3 DEF StepDown, SameRole
<1>5. RoleOK(n)'
  BY <1>1, <1>2 DEF StepDown, RoleInv, RoleOK
<1>. QED  BY <1>4, <1>5, RoleStep

LEMMA SubmitRepliesRole ==
  ASSUME Inv, Inv', RoleInv, NEW n \in Node, NEW m \in net,
         HandleSubmitReply(n, m) \/ SubmitCallFails(n, m)
  PROVE  RoleInv'
<1>1. m.task = "submit" /\ Caller(m) = n /\ UNCHANGED election
  BY ReplyKind DEF HandleSubmitReply, SubmitCallFails, Calls
<1>2. CASE HandleSubmitReply(n, m) /\ Retry(n, m)
  BY <1>1, <1>2, RoleStep DEF Retry, SameRole
<1>3. CASE HandleSubmitReply(n, m) /\ Replicate(n, m)
  BY <1>1, <1>3, ResumeRole DEF Replicate
<1>4. CASE HandleSubmitReply(n, m) /\ DeposedBySubmit(n, m)
  <2>1. PICK st : Resume(n, submit[n].replicated, st, st, progress, net \ {m}) /\ StepDown(n)
    BY <1>4 DEF DeposedBySubmit
  <2>. QED  BY <1>1, <2>1, ResumeRole
<1>5. CASE SubmitCallFails(n, m)
  <2>1. PICK base : Resume(n, submit[n].replicated, state[n], diskState[n], progress, base)
    BY <1>5 DEF SubmitCallFails
  <2>. QED  BY <1>1, <1>5, <2>1, ResumeRole DEF SubmitCallFails
<1>. QED  BY <1>2, <1>3, <1>4, <1>5 DEF HandleSubmitReply

LEMMA ReloadRole ==
  ASSUME Inv, Inv', RoleInv, NEW n \in Node, NEW ds, NEW l, NEW docs, Reload(n, ds, l, docs)
  PROVE  RoleInv'
<1>1. \A k \in Node \ {n} : SameRole(k)
  BY DEF Reload, SameRole, Inv, TypeOK, TypeCore, TypeTasks
<1>2. RoleOK(n)'
  BY DEF Reload, RoleOK, Inv, TypeOK, TypeCore, TypeTasks
<1>. QED  BY <1>1, <1>2, RoleStep

LEMMA StepRole ==
  ASSUME Inv, Inv', RoleInv, [Next]_vars
  PROVE  RoleInv'
<1>1. ASSUME NEW n \in Node, ElectionStep(n)
      PROVE  RoleInv'
  BY <1>1, StartElectionRole, HandleRequestVoteRole, HandleVoteReplyRole, VoteCallFailsRole
  DEF ElectionStep
<1>2. ASSUME NEW n \in Node, SubmitStep(n)
      PROVE  RoleInv'
  BY <1>2, SubmitCommandRole, SubmitToSoleVoterRole, SubmitRepliesRole DEF SubmitStep
<1>3. ASSUME NEW n \in Node, CrashStep(n)
      PROVE  RoleInv'
  <2>1. PICK ds, l, docs : Reload(n, ds, l, docs)
    BY <1>3 DEF CrashStep, Restart, CrashInAppend, CrashInSubmit, CrashInSoleSubmit
  <2>. QED  BY <2>1, ReloadRole
<1>4. CASE UNCHANGED vars
  <2>1. PICK n \in Node : TRUE
    BY NodeAssumption
  <2>. QED  BY <1>4, <2>1, RoleStep DEF vars, SameRole
<1>. QED  BY <1>1, <1>2, <1>3, <1>4, HeartbeatStepRole, HandleAppendEntriesRole
          DEF Next, AppendStep

-----------------------------------------------------------------------------
(* The invariant.                                                          *)

RuntimeInv == Inv /\ SubmissionInv /\ ElectionInv /\ RoleInv

Stage == {"lock", "find", "verify", "inspect", "manifest", "export", "confirm", "install"}

Task ==
  [stage : Stage, locked : BOOLEAN, todo : SUBSET Node, hint : Node \cup {Nil},
   leader : Node \cup {Nil}, broken : BOOLEAN, manifest : [term : Nat, index : Nat],
   documents : SUBSET DocumentIds, hollow : BOOLEAN, entries : Seq(Entry)]

Fields ==
  [override : {NoOverride, "failed", "rebuilding", "catching_up"}, error : BOOLEAN,
   leaderLog : Nat \cup {NoIndex}, leaderCommit : Nat \cup {NoIndex}, confirm : BOOLEAN]

\* A task verifies a hint it has, reads from a leader it found, and reads a snapshot
\* under the lock.
TaskOK(t) ==
  /\ t \in Task /\ IsFiniteSet(t.documents)
  /\ t.stage = "verify" => t.hint # Nil
  /\ t.stage \in {"inspect", "manifest", "export", "confirm", "install"} => t.leader # Nil
  /\ t.stage \in {"manifest", "export", "confirm", "install"} => t.locked

TasksOK ==
  /\ rebuild \in [Node -> [By -> Task \cup {Nil}]]
  /\ \A n \in Node, by \in By : rebuild[n][by] # Nil => TaskOK(rebuild[n][by])

RecoveryOK == recovery \in [Node -> Fields]

\* A voter does not submit while it is rebuilt.
LockExclusive == \A n \in Node : submit[n] # Nil => ~Rebuilding(n)

RebuildInv == RuntimeInv /\ TasksOK /\ RecoveryOK /\ LockExclusive

LEMMA InitRebuildInv == RebuildInit => RebuildInv
<1>. SUFFICES ASSUME RebuildInit PROVE RebuildInv
  OBVIOUS
<1>1. RuntimeInv
  BY InitInv, InitSubmissionInv, InitElectionInv, InitRoleInv DEF RebuildInit, RuntimeInv
<1>2. TasksOK /\ LockExclusive
  BY DEF RebuildInit, TasksOK, LockExclusive, Rebuilding
<1>3. RecoveryOK
  BY DEF RebuildInit, RecoveryOK, FreshRecovery, Fields
<1>. QED  BY <1>1, <1>2, <1>3 DEF RebuildInv

-----------------------------------------------------------------------------
(* Steps of the tasks.                                                     *)

LEMMA ContinueOK ==
  ASSUME TasksOK, NEW n \in Node, NEW by \in By, NEW t, t = Nil \/ TaskOK(t), Continue(n, by, t)
  PROVE  TasksOK'
<1>1. \A k \in Node, b \in By : rebuild'[k][b] = IF k = n /\ b = by THEN t ELSE rebuild[k][b]
  BY DEF TasksOK, Continue
<1>2. rebuild' \in [Node -> [By -> Task \cup {Nil}]]
  BY DEF TasksOK, Continue, TaskOK
<1>. QED  BY <1>1, <1>2 DEF TasksOK, TaskOK

LEMMA NewTaskOK ==
  ASSUME NEW locked \in BOOLEAN
  PROVE  TaskOK(NewTask(locked)) /\ TaskOK([NewTask(locked) EXCEPT !.stage = "lock"])
<1>1. NewTask(locked) \in Task /\ [NewTask(locked) EXCEPT !.stage = "lock"] \in Task
  BY EmptySeq DEF NewTask, Task, Stage, NoManifest
<1>2. IsFiniteSet({})
  BY FS_EmptySet
<1>. QED  BY <1>1, <1>2 DEF NewTask, TaskOK

LEMMA ReportOK ==
  ASSUME RecoveryOK, NEW n \in Node, NEW status \in {"failed", "rebuilding", "catching_up"},
         recovery' = [recovery EXCEPT ![n] = ReportRecovery(@, status)]
  PROVE  RecoveryOK'
<1>1. PICK r \in Fields : r = recovery[n]
  BY DEF RecoveryOK
<1>2. ReportRecovery(r, status) \in Fields
  BY DEF Fields, ReportRecovery
<1>. QED  BY <1>1, <1>2 DEF RecoveryOK

LEMMA RaiseOK ==
  ASSUME TasksOK, RecoveryOK, NEW n \in Node, NEW by \in By, Raise(n, by)
  PROVE  TasksOK' /\ RecoveryOK' /\ rebuild' = [rebuild EXCEPT ![n][by] = Nil]
<1>1. \/ UNCHANGED recovery
      \/ recovery' = [recovery EXCEPT ![n] = ReportRecovery(@, "failed")]
  BY DEF Raise
<1>2. RecoveryOK'
  BY <1>1, ReportOK DEF RecoveryOK
<1>3. Continue(n, by, Nil)
  BY DEF Raise
<1>. QED  BY <1>2, <1>3, ContinueOK DEF Continue

\* A task takes the lock from no submission.
LEMMA ContinueExclusive ==
  ASSUME TasksOK, LockExclusive, UNCHANGED submit, NEW n \in Node, NEW by \in By, NEW t,
         Continue(n, by, t),
         \/ t = Nil \/ ~t.locked \/ submit[n] = Nil
         \/ rebuild[n][by] # Nil /\ rebuild[n][by].locked
  PROVE  LockExclusive'
<1>1. \A k \in Node, b \in By : rebuild'[k][b] = IF k = n /\ b = by THEN t ELSE rebuild[k][b]
  BY DEF TasksOK, Continue
<1>. QED  BY <1>1 DEF LockExclusive, Rebuilding

LEMMA RaiseExclusive ==
  ASSUME TasksOK, LockExclusive, UNCHANGED submit, NEW n \in Node, NEW by \in By, Raise(n, by)
  PROVE  LockExclusive'
BY ContinueExclusive DEF Raise

TaskInv == TasksOK /\ RecoveryOK /\ LockExclusive

LEMMA WaitForLockInv ==
  ASSUME TaskInv, UNCHANGED submit, NEW n \in Node, NEW by \in By, WaitForLock(n, by)
  PROVE  TaskInv'
<1>. DEFINE t == [NewTask(FALSE) EXCEPT !.stage = "lock"]
<1>1. TaskOK(t) /\ ~t.locked
  BY NewTaskOK DEF NewTask
<1>2. Continue(n, by, t) /\ UNCHANGED recovery
  BY DEF WaitForLock
<1>. HIDE DEF t
<1>. QED  BY <1>1, <1>2, ContinueOK, ContinueExclusive DEF TaskInv, RecoveryOK

LEMMA StartAutoInv ==
  ASSUME TaskInv, NEW n \in Node, StartAuto(n)
  PROVE  TaskInv'
<1>1. UNCHANGED submit /\ "auto" \in By
  BY DEF StartAuto, vars, By
<1>2. CASE Return(n)
  BY <1>1, <1>2, ContinueOK, ContinueExclusive DEF Return, TaskInv, RecoveryOK
<1>3. CASE Continue(n, "auto", NewTask(FALSE)) /\ UNCHANGED recovery
  <2>1. TaskOK(NewTask(FALSE)) /\ ~NewTask(FALSE).locked
    BY NewTaskOK DEF NewTask
  <2>. QED  BY <1>1, <1>3, <2>1, ContinueOK, ContinueExclusive DEF TaskInv, RecoveryOK
<1>. QED  BY <1>2, <1>3 DEF StartAuto

LEMMA EnterLockInv ==
  ASSUME TaskInv, NEW n \in Node, NEW by \in By, EnterLock(n, by)
  PROVE  TaskInv'
<1>1. UNCHANGED submit /\ submit[n] = Nil
  BY DEF EnterLock, vars, RebuildLockFree, LockFree
<1>2. CASE Raise(n, by)
  BY <1>1, <1>2, RaiseOK, RaiseExclusive DEF TaskInv
<1>3. CASE /\ Continue(n, by, NewTask(TRUE))
           /\ recovery' = [recovery EXCEPT ![n] = ReportRecovery(@, "rebuilding")]
  BY <1>1, <1>3, NewTaskOK, ContinueOK, ContinueExclusive, ReportOK DEF TaskInv
<1>. QED  BY <1>2, <1>3 DEF EnterLock, TakeLock

LEMMA FoundInv ==
  ASSUME TaskInv, UNCHANGED submit, NEW n \in Node, NEW by \in By, rebuild[n][by] # Nil,
         NEW l \in Node, Found(n, by, l)
  PROVE  TaskInv'
<1>1. PICK task : task = rebuild[n][by]
  OBVIOUS
<1>2. PICK broken \in BOOLEAN : broken = (~task.locked /\ RequiresRebuild(n))
  OBVIOUS
<1>. DEFINE t == [task EXCEPT !.stage = IF task.locked THEN "manifest" ELSE "inspect",
                    !.todo = {}, !.hint = Nil, !.leader = l, !.broken = broken]
<1>3. TaskOK(task)
  BY <1>1 DEF TaskInv, TasksOK
<1>4. TaskOK(t) /\ t.locked = task.locked
  BY <1>3, NilAssumption DEF TaskOK, Task, Stage
<1>5. Continue(n, by, t) /\ UNCHANGED recovery
  BY <1>1, <1>2 DEF Found
<1>. HIDE DEF t
<1>. QED  BY <1>1, <1>3, <1>4, <1>5, ContinueOK, ContinueExclusive DEF TaskInv, RecoveryOK

LEMMA NotFoundInv ==
  ASSUME TaskInv, UNCHANGED submit, NEW n \in Node, NEW by \in By, NotFound(n, by)
  PROVE  TaskInv'
<1>1. CASE Raise(n, by)
  BY <1>1, RaiseOK, RaiseExclusive DEF TaskInv
<1>2. CASE Continue(n, by, Nil) /\ UNCHANGED recovery
  BY <1>2, ContinueOK, ContinueExclusive DEF TaskInv, RecoveryOK
<1>. QED  BY <1>1, <1>2 DEF NotFound

LEMMA AskVoterInv ==
  ASSUME TaskInv, Inv, NEW n \in Node, NEW by \in By, NEW p \in Node, AskVoter(n, by, p)
  PROVE  TaskInv'
<1>1. PICK task, others : task = rebuild[n][by] /\ others = task.todo \ {p}
  OBVIOUS
<1>2. /\ TaskOK(task) /\ task # Nil /\ task.stage = "find" /\ rebuild[n][by] # Nil
      /\ UNCHANGED submit /\ leaderId[p] \in Node \cup {Nil}
  BY <1>1 DEF AskVoter, TaskInv, TasksOK, vars, Inv, TypeOK, TypeCore
<1>3. PICK answered \in BOOLEAN :
        LET hint == IF answered /\ leaderId[p] # Nil THEN leaderId[p] ELSE task.hint
        IN  IF answered /\ role[p] = "leader" THEN Found(n, by, p)
            ELSE IF others = {} /\ hint = Nil THEN NotFound(n, by)
            ELSE /\ Continue(n, by, [task EXCEPT !.todo = others, !.hint = hint,
                      !.stage = IF others = {} THEN "verify" ELSE "find"])
                 /\ UNCHANGED <<recovery, attempts>>
  BY <1>1 DEF AskVoter
<1>4. PICK hint : hint = IF answered /\ leaderId[p] # Nil THEN leaderId[p] ELSE task.hint
  OBVIOUS
<1>5. CASE Found(n, by, p)
  BY <1>2, <1>5, FoundInv
<1>6. CASE NotFound(n, by)
  BY <1>2, <1>6, NotFoundInv
<1>7. CASE /\ ~(others = {} /\ hint = Nil)
           /\ Continue(n, by, [task EXCEPT !.todo = others, !.hint = hint,
                !.stage = IF others = {} THEN "verify" ELSE "find"])
           /\ UNCHANGED recovery
  <2>. DEFINE t == [task EXCEPT !.todo = others, !.hint = hint,
                     !.stage = IF others = {} THEN "verify" ELSE "find"]
  <2>1. hint \in Node \cup {Nil} /\ others \in SUBSET Node
    BY <1>1, <1>2, <1>4 DEF TaskOK, Task
  <2>2. TaskOK(t) /\ t.locked = task.locked
    BY <1>2, <1>7, <2>1 DEF TaskOK, Task, Stage
  <2>3. Continue(n, by, t)
    BY <1>7
  <2>. HIDE DEF t
  <2>. QED  BY <1>1, <1>2, <1>7, <2>2, <2>3, ContinueOK, ContinueExclusive DEF TaskInv, RecoveryOK
<1>. QED  BY <1>3, <1>4, <1>5, <1>6, <1>7

LEMMA VerifyHintInv ==
  ASSUME TaskInv, NEW n \in Node, NEW by \in By, VerifyHint(n, by)
  PROVE  TaskInv'
<1>1. rebuild[n][by] # Nil /\ rebuild[n][by].hint \in Node /\ UNCHANGED submit
  BY DEF VerifyHint, TaskInv, TasksOK, TaskOK, Task, vars
<1>. QED  BY <1>1, FoundInv, NotFoundInv DEF VerifyHint

LEMMA InspectInv ==
  ASSUME TaskInv, NEW n \in Node, Inspect(n)
  PROVE  TaskInv'
<1>1. UNCHANGED submit /\ "auto" \in By
  BY DEF Inspect, vars, By
<1>2. CASE Return(n)
  BY <1>1, <1>2, ContinueOK, ContinueExclusive DEF Return, TaskInv, RecoveryOK
<1>3. CASE WaitForLock(n, "auto")
  BY <1>1, <1>3, WaitForLockInv
<1>. QED  BY <1>2, <1>3 DEF Inspect

\* What a leader tells a rebuild of its snapshot has the types of a snapshot.
LEMMA SnapshotType ==
  ASSUME Inv, NEW l \in Node
  PROVE  /\ ManifestOf(l) \in [term : Nat, index : Nat]
         /\ Documents(store[l]) \in SUBSET DocumentIds /\ IsFiniteSet(Documents(store[l]))
         /\ CommittedEntries(l) \in Seq(Entry)
<1>1. /\ state[l].currentTerm \in Nat /\ state[l].commitIndex \in Nat
      /\ store[l] \in Seq(Command) /\ log[l] \in Seq(Entry)
  BY DEF Inv, TypeOK, TypeCore, DurableState
<1>2. CommittedEntries(l) \in Seq(Entry)
  <2>1. Len(log[l]) \in Nat
    BY <1>1, LenProperties
  <2>2. Smaller(state[l].commitIndex, Len(log[l])) \in 0 .. Len(log[l])
    BY <1>1, <2>1 DEF Smaller
  <2>. QED  BY <1>1, <2>1, <2>2, SubSeqProperties DEF CommittedEntries, EntriesUpTo
<1>. QED  BY <1>1, <1>2, DocumentsFinite DEF ManifestOf

LEMMA ReadsInv ==
  ASSUME TaskInv, Inv, NEW n \in Node, NEW by \in By, ReadManifest(n, by) \/ ReadExport(n, by)
  PROVE  TaskInv'
<1>1. PICK task, l : task = rebuild[n][by] /\ l = task.leader
  OBVIOUS
<1>2. /\ TaskOK(task) /\ task.stage \in {"manifest", "export"} /\ task # Nil
      /\ task.locked /\ l \in Node /\ UNCHANGED <<submit, recovery>>
  BY <1>1 DEF ReadManifest, ReadExport, TaskInv, TasksOK, TaskOK, Task, vars
<1>3. PICK manifest \in [term : Nat, index : Nat], docs \in SUBSET DocumentIds,
           entries \in Seq(Entry) :
        /\ manifest = ManifestOf(l) /\ docs = Documents(store[l]) /\ IsFiniteSet(docs)
        /\ entries = CommittedEntries(l)
  BY <1>2, SnapshotType
<1>4. CASE ReadManifest(n, by)
  <2>. DEFINE t == [task EXCEPT !.stage = "export", !.manifest = manifest]
  <2>1. TaskOK(t)
    BY <1>2 DEF TaskOK, Task, Stage
  <2>2. Continue(n, by, t)
    BY <1>1, <1>3, <1>4 DEF ReadManifest
  <2>. HIDE DEF t
  <2>. QED  BY <1>1, <1>2, <2>1, <2>2, ContinueOK, ContinueExclusive DEF TaskInv, RecoveryOK
<1>5. CASE ReadExport(n, by)
  <2>1. PICK h \in BOOLEAN : h = HasCollection(l)
    BY DEF HasCollection
  <2>. DEFINE t == [task EXCEPT !.stage = "confirm", !.documents = docs, !.hollow = h,
                     !.entries = entries]
  <2>2. TaskOK(t)
    BY <1>2, <1>3, <2>1 DEF TaskOK, Task, Stage
  <2>3. Continue(n, by, t)
    BY <1>1, <1>3, <1>5, <2>1 DEF ReadExport
  <2>. HIDE DEF t
  <2>. QED  BY <1>1, <1>2, <2>2, <2>3, ContinueOK, ContinueExclusive DEF TaskInv, RecoveryOK
<1>. QED  BY <1>4, <1>5

LEMMA ConfirmInv ==
  ASSUME TaskInv, NEW n \in Node, NEW by \in By, Confirm(n, by)
  PROVE  TaskInv'
<1>1. PICK task : task = rebuild[n][by]
  OBVIOUS
<1>2. /\ TaskOK(task) /\ task.stage = "confirm" /\ task # Nil
      /\ task.locked /\ UNCHANGED <<submit, recovery>>
  BY <1>1 DEF Confirm, TaskInv, TasksOK, TaskOK, vars
<1>. DEFINE t == [task EXCEPT !.stage = "install"]
<1>3. TaskOK(t)
  BY <1>2 DEF TaskOK, Task, Stage
<1>4. Continue(n, by, t)
  BY <1>1 DEF Confirm
<1>. HIDE DEF t
<1>. QED  BY <1>1, <1>2, <1>3, <1>4, ContinueOK, ContinueExclusive DEF TaskInv, RecoveryOK

\* The steps of a rebuild that only read.
ReadingStep(n) ==
  \/ StartRoute(n)
  \/ StartAuto(n)
  \/ Inspect(n)
  \/ \E by \in By : \/ EnterLock(n, by)
                    \/ \E p \in Node : AskVoter(n, by, p)
                    \/ VerifyHint(n, by)
                    \/ ReadManifest(n, by)
                    \/ ReadExport(n, by)
                    \/ Confirm(n, by)
                    \/ GiveUp(n, by)

LEMMA ReadingStepInv ==
  ASSUME TaskInv, Inv, NEW n \in Node, ReadingStep(n)
  PROVE  TaskInv' /\ UNCHANGED vars
<1>1. UNCHANGED vars
  BY DEF ReadingStep, StartRoute, StartAuto, Inspect, EnterLock, AskVoter, VerifyHint,
         ReadManifest, ReadExport, Confirm, GiveUp
<1>2. UNCHANGED submit
  BY <1>1 DEF vars
<1>3. CASE StartRoute(n)
  <2>1. "route" \in By
    BY DEF By
  <2>. QED  BY <1>2, <1>3, <2>1, WaitForLockInv DEF StartRoute
<1>4. ASSUME NEW by \in By, GiveUp(n, by)
      PROVE  TaskInv'
  BY <1>2, <1>4, RaiseOK, RaiseExclusive DEF GiveUp, TaskInv
<1>. QED  BY <1>1, <1>3, <1>4, StartAutoInv, InspectInv, EnterLockInv, AskVoterInv, VerifyHintInv,
             ReadsInv, ConfirmInv DEF ReadingStep

-----------------------------------------------------------------------------
(* Steps of the runtimes.                                                  *)

LEMMA NextInv ==
  ASSUME RuntimeInv, [Next]_vars
  PROVE  RuntimeInv' /\ GoodStep
<1>1. Inv'
  BY StepInv DEF RuntimeInv
<1>2. SubmissionInv' /\ GoodStep /\ RoleInv'
  BY <1>1, StepSubmissionInv, StepGood, StepRole DEF RuntimeInv
<1>. QED  BY <1>1, <1>2 DEF RuntimeInv, GoodStep

\* A runtime submits only while its voter is not rebuilt.
LEMMA RuntimeExclusive ==
  ASSUME Inv, LockExclusive, NEW n \in Node, RuntimeStep(n)
  PROVE  LockExclusive'
<1>1. \A k \in Node : Rebuilding(k)' = Rebuilding(k)
  BY DEF RuntimeStep, Rebuilding
<1>2. \A k \in Node : submit'[k] # Nil => submit[k] # Nil \/ ~Rebuilding(k)
  <2>1. CASE ElectionStep(n) \/ HeartbeatStep(n)
    BY <2>1 DEF ElectionStep, StartElection, HandleRequestVote, HandleVoteReply, VoteCallFails,
       HeartbeatStep, Heartbeat, SendHeartbeat, HeartbeatCallFails, HandleHeartbeatReply,
       EndHeartbeat, DeposedByHeartbeat, Retry, core, disk, tasks
  <2>2. CASE (submit[n] = Nil => ~Rebuilding(n)) /\ SubmitStep(n)
    <3>1. \A k \in Node \ {n} : submit'[k] = submit[k]
      BY <2>2 DEF SubmitStep, SubmitCommand, SubmitToSoleVoter, HandleSubmitReply, Replicate,
         DeposedBySubmit, Retry, SubmitCallFails, Resume, CallNextPeer, EndSubmit, Inv, TypeOK,
         TypeTasks
    <3>. QED  BY <2>2, <3>1
  <2>. QED  BY <2>1, <2>2 DEF RuntimeStep
<1>. QED  BY <1>1, <1>2 DEF LockExclusive

LEMMA RuntimeStepInv ==
  ASSUME RebuildInv, NEW n \in Node, RuntimeStep(n)
  PROVE  RebuildInv' /\ GoodStep
<1>1. RuntimeInv' /\ GoodStep
  BY NextInv DEF RuntimeStep, Next, RebuildInv
<1>2. LockExclusive'
  BY RuntimeExclusive DEF RebuildInv, RuntimeInv
<1>3. TasksOK'
  BY DEF RuntimeStep, RebuildInv, TasksOK
<1>4. RecoveryOK'
  <2>1. state[n].commitIndex \in Nat /\ Len(log[n]) \in Nat
    BY LenProperties DEF RebuildInv, RuntimeInv, Inv, TypeOK, TypeCore, DurableState
  <2>2. \/ UNCHANGED recovery
        \/ recovery' = [recovery EXCEPT ![n] = RecoveryOfLeader(@, state[n], Len(log[n]))]
    BY DEF RuntimeStep
  <2>3. recovery[n] \in Fields => RecoveryOfLeader(recovery[n], state[n], Len(log[n])) \in Fields
    BY <2>1 DEF RecoveryOfLeader, Fields
  <2>. QED  BY <2>2, <2>3 DEF RebuildInv, RecoveryOK
<1>. QED  BY <1>1, <1>2, <1>3, <1>4 DEF RebuildInv

LEMMA HeardType ==
  ASSUME NEW r \in Fields, NEW m \in AppendEntries
  PROVE  /\ HeardFrom(r, m) \in Fields
         /\ HeardFrom(r, m).override = r.override /\ HeardFrom(r, m).error = r.error
         /\ HeardFrom(r, m).confirm = r.confirm
         /\ HeardFrom(r, m).leaderLog \in Nat /\ HeardFrom(r, m).leaderCommit \in Nat
<1>1. Len(m.entries) \in Nat /\ m.prevLogIndex \in Nat /\ m.leaderCommit \in Nat
  BY LenProperties DEF AppendEntries, Index
<1>2. PICK position \in Nat :
        HeardFrom(r, m) = [r EXCEPT !.leaderLog = position, !.leaderCommit = m.leaderCommit]
  <2>1. m.prevLogIndex + Len(m.entries) \in Nat
    BY <1>1
  <2>. QED  BY <1>1, <2>1 DEF HeardFrom
<1>. QED  BY <1>1, <1>2 DEF Fields

LEMMA ServeAppendInv ==
  ASSUME RebuildInv, NEW n \in Node, NEW m \in net, ServeAppend(n, m)
  PROVE  RebuildInv' /\ GoodStep
<1>1. RuntimeInv' /\ GoodStep
  BY NextInv DEF ServeAppend, Next, AppendStep, RebuildInv
<1>2. LockExclusive' /\ TasksOK'
  BY DEF ServeAppend, HandleAppendEntries, tasks, RebuildInv, TasksOK, LockExclusive, Rebuilding
<1>3. m \in AppendEntries /\ recovery \in [Node -> Fields]
  BY MessageKinds
  DEF ServeAppend, HandleAppendEntries, RebuildInv, RuntimeInv, Inv, TypeOK, TypeNet, RecoveryOK
<1>4. PICK heard \in Fields : heard = HeardFrom(recovery[n], m)
  BY <1>3, HeardType
<1>5. PICK moved : \/ UNCHANGED recovery
                   \/ recovery' = [recovery EXCEPT ![n] = heard]
                   \/ recovery' = [recovery EXCEPT ![n] =
                        ConfirmCatchUp(heard, moved, state'[n], Len(log'[n]))]
  <2>1. \/ recovery' = [recovery EXCEPT ![n] = @]
        \/ recovery' = [recovery EXCEPT ![n] = heard]
        \/ recovery' = [recovery EXCEPT ![n] =
             ConfirmCatchUp(heard, Positions(n)' # Positions(n), state'[n], Len(log'[n]))]
    BY <1>4 DEF ServeAppend
  <2>. QED  BY <1>3, <2>1
<1>6. ConfirmCatchUp(heard, moved, state'[n], Len(log'[n])) \in Fields
  BY DEF ConfirmCatchUp, Fields
<1>7. RecoveryOK'
  BY <1>3, <1>5, <1>6 DEF RecoveryOK
<1>. QED  BY <1>1, <1>2, <1>7 DEF RebuildInv

\* A new process has no task and no submission.
LEMMA ForgetInv ==
  ASSUME TaskInv, Inv, NEW n \in Node, NEW ds, NEW l, NEW docs, Reload(n, ds, l, docs), Forget(n)
  PROVE  TaskInv'
<1>1. submit'[n] = Nil /\ \A k \in Node \ {n} : submit'[k] = submit[k]
  BY DEF Reload, Inv, TypeOK, TypeTasks
<1>2. \A k \in Node, by \in By : rebuild'[k][by] = IF k = n THEN Nil ELSE rebuild[k][by]
  BY DEF Forget, TaskInv, TasksOK
<1>3. TasksOK'
  <2>1. rebuild' \in [Node -> [By -> Task \cup {Nil}]]
    BY DEF Forget, TaskInv, TasksOK
  <2>. QED  BY <1>2, <2>1 DEF TaskInv, TasksOK, TaskOK
<1>4. LockExclusive'
  BY <1>1, <1>2 DEF TaskInv, LockExclusive, Rebuilding
<1>5. FreshRecovery \in Fields
  BY DEF FreshRecovery, Fields
<1>6. RecoveryOK'
  BY <1>5 DEF Forget, TaskInv, RecoveryOK
<1>. QED  BY <1>3, <1>4, <1>6 DEF TaskInv

LEMMA CrashBesideInv ==
  ASSUME RebuildInv, NEW n \in Node, CrashBeside(n)
  PROVE  RebuildInv' /\ GoodStep
<1>1. CrashStep(n) /\ Forget(n)
  BY DEF CrashBeside, CrashStep
<1>2. RuntimeInv' /\ GoodStep
  BY <1>1, NextInv DEF Next, RebuildInv
<1>3. PICK ds, l, docs : Reload(n, ds, l, docs)
  BY <1>1 DEF CrashStep, Restart, CrashInAppend, CrashInSubmit, CrashInSoleSubmit
<1>4. TaskInv'
  BY <1>1, <1>3, ForgetInv DEF RebuildInv, RuntimeInv, TaskInv
<1>. QED  BY <1>2, <1>4 DEF RebuildInv, TaskInv

-----------------------------------------------------------------------------
(* Installing a snapshot.                                                  *)

LEMMA InstalledFollows ==
  ASSUME NEW st \in DurableState, NEW manifest \in [term : Nat, index : Nat]
  PROVE  InstalledState(st, manifest) \in DurableState /\ Follows(st, InstalledState(st, manifest))
<1>1. st.currentTerm \in Nat /\ manifest.term \in Nat /\ manifest.index \in Nat
  BY DEF DurableState
<1>2. PICK term \in Nat : term = Larger(st.currentTerm, manifest.term)
  BY <1>1 DEF Larger
<1>3. InstalledState(st, manifest)
        = [st EXCEPT !.currentTerm = term, !.commitIndex = manifest.index,
                     !.lastApplied = manifest.index]
  BY <1>2 DEF InstalledState
<1>4. term >= st.currentTerm
  BY <1>1, <1>2 DEF Larger
<1>5. PICK new \in DurableState :
        new = InstalledState(st, manifest) /\ new.currentTerm = term /\ new.votedFor = st.votedFor
  <2>1. PICK index \in Nat : index = manifest.index
    BY <1>1
  <2>2. InstalledState(st, manifest)
          = [st EXCEPT !.currentTerm = term, !.commitIndex = index, !.lastApplied = index]
    BY <1>3, <2>1
  <2>. DEFINE new == [st EXCEPT !.currentTerm = term, !.commitIndex = index,
                                !.lastApplied = index]
  <2>3. new \in DurableState
    BY DEF DurableState
  <2>4. new.currentTerm = term /\ new.votedFor = st.votedFor
    BY DEF DurableState
  <2>. QED  BY <2>2, <2>3, <2>4
<1>6. Follows(st, new)
  BY <1>1, <1>4, <1>5 DEF Follows
<1>. QED  BY <1>5, <1>6

\* What a step finds that installs a snapshot.
LEMMA ReadyToInstall ==
  ASSUME RebuildInv, NEW n \in Node, NEW by \in By, NEW task, task = rebuild[n][by],
         task # Nil, task.stage = "install"
  PROVE  /\ submit[n] = Nil /\ task.leader \in Node
         /\ task.manifest \in [term : Nat, index : Nat] /\ task.entries \in Seq(Entry)
         /\ Compacted(task.documents) \in Seq(Command)
         /\ InstalledState(state[n], task.manifest) \in DurableState
         /\ Follows(state[n], InstalledState(state[n], task.manifest))
<1>1. TaskOK(task) /\ task.locked
  BY DEF RebuildInv, TasksOK, TaskOK
<1>2. submit[n] = Nil
  BY <1>1 DEF RebuildInv, LockExclusive, Rebuilding
<1>3. state[n] \in DurableState
  BY DEF RebuildInv, RuntimeInv, Inv, TypeOK, TypeCore
<1>. QED  BY <1>1, <1>2, <1>3, CompactedType, InstalledFollows DEF TaskOK, Task

LEMMA InstallInv ==
  ASSUME RebuildInv, NEW n \in Node, NEW by \in By, Install(n, by)
  PROVE  RebuildInv' /\ GoodStep
<1>1. PICK task, st : task = rebuild[n][by] /\ st = InstalledState(state[n], task.manifest)
  OBVIOUS
<1>2. /\ submit[n] = Nil /\ task.leader \in Node
      /\ task.manifest \in [term : Nat, index : Nat] /\ task.entries \in Seq(Entry)
      /\ Compacted(task.documents) \in Seq(Command)
      /\ st \in DurableState /\ Follows(state[n], st)
  BY <1>1, ReadyToInstall DEF Install
<1>3. /\ store' = [store EXCEPT ![n] = Compacted(task.documents)]
      /\ log' = [log EXCEPT ![n] = task.entries] /\ diskLog' = [diskLog EXCEPT ![n] = task.entries]
      /\ state' = [state EXCEPT ![n] = st] /\ diskState' = [diskState EXCEPT ![n] = st]
      /\ leaderId' = [leaderId EXCEPT ![n] = task.leader]
      /\ recovery' = [recovery EXCEPT ![n] =
           ReportRecovery(RecoveryOfInstalled(@, task.manifest.index), "catching_up")]
      /\ Continue(n, by, Nil)
      /\ UNCHANGED <<role, progress, election, beats, submit, net, crashes, ballots, wins, acked>>
  BY <1>1 DEF Install, tasks, history
<1>4. Inv'
  <2>1. TypeCore'
    BY <1>2, <1>3 DEF RebuildInv, RuntimeInv, Inv, TypeOK, TypeCore
  <2>2. TypeTasks' /\ TypeNet' /\ TypeHistory'
    BY <1>3 DEF RebuildInv, RuntimeInv, Inv, TypeOK, TypeTasks, TypeNet, TypeHistory
  <2>3. CallsTracked'
    BY <1>3 DEF RebuildInv, RuntimeInv, Inv, CallsTracked, NoSelfCall, ElectionAwaits,
       SubmitAwaits, OneSubmitCall, ProgressHeld, ReplicatorsTrack, PeersOnly
  <2>. QED  BY <2>1, <2>2, <2>3 DEF Inv, TypeOK
<1>5. SubmissionInv'
  BY <1>2, <1>3, LogReplaced DEF RebuildInv, RuntimeInv
<1>6. GoodStep
  <2>1. Moves(n)
    BY <1>2, <1>3, SavedMoves DEF RebuildInv, RuntimeInv
  <2>. QED  BY <1>3, <1>4, <2>1, QuietStep DEF RebuildInv, RuntimeInv
<1>7. RoleInv'
  <2>1. \A k \in Node \ {n} : SameRole(k)
    BY <1>3 DEF SameRole, RebuildInv, RuntimeInv, Inv, TypeOK, TypeCore
  <2>2. RoleOK(n)'
    BY <1>2, <1>3 DEF RoleOK, RoleInv, RebuildInv, RuntimeInv
  <2>. QED  BY <2>1, <2>2, RoleStep DEF RebuildInv, RuntimeInv
<1>8. TasksOK' /\ LockExclusive'
  BY <1>3, ContinueOK, ContinueExclusive DEF RebuildInv
<1>9. RecoveryOK'
  <2>1. ASSUME NEW r \in Fields
        PROVE  ReportRecovery(RecoveryOfInstalled(r, task.manifest.index), "catching_up") \in Fields
    <3>1. task.manifest.index \in Nat
      BY <1>2
    <3>. QED  BY <3>1 DEF Fields, ReportRecovery, RecoveryOfInstalled
  <2>. QED  BY <1>3, <2>1 DEF RebuildInv, RecoveryOK
<1>. QED  BY <1>4, <1>5, <1>6, <1>7, <1>8, <1>9 DEF RebuildInv, RuntimeInv, GoodStep

LEMMA CrashInInstallInv ==
  ASSUME RebuildInv, NEW n \in Node, NEW by \in By, CrashInInstall(n, by)
  PROVE  RebuildInv' /\ GoodStep
<1>1. /\ Compacted(rebuild[n][by].documents) \in Seq(Command)
      /\ rebuild[n][by].entries \in Seq(Entry)
  BY ReadyToInstall DEF CrashInInstall
<1>2. Inv /\ state[n] \in DurableState /\ diskState[n] \in DurableState
      /\ diskLog[n] \in Seq(Entry) /\ store[n] \in Seq(Command)
  BY DEF RebuildInv, RuntimeInv, Inv, TypeOK, TypeCore
<1>3. PICK l \in {diskLog[n], rebuild[n][by].entries},
           docs \in {store[n], <<>>, Compacted(rebuild[n][by].documents)} :
        Reload(n, diskState[n], l, docs)
  BY DEF CrashInInstall
<1>4. l \in Seq(Entry) /\ docs \in Seq(Command)
  BY <1>1, <1>2, EmptySeq
<1>5. Abandon(OwnCalls(n)) /\ Forget(n)
  BY DEF CrashInInstall
<1>6. AllTracked' /\ OneSubmitCall'
  BY <1>2, <1>3, <1>5, ReloadKeeps, AbandonKeeps, OwnCallsOfNet
<1>7. Inv'
  BY <1>2, <1>3, <1>4, <1>6, ReloadInv
<1>8. SubmissionInv'
  <2>1. submit'[n] = Nil /\ \A k \in Node \ {n} : submit'[k] = submit[k]
    BY <1>2, <1>3 DEF Reload, Inv, TypeOK, TypeTasks
  <2>. QED  BY <1>2, <1>3, <2>1, LogReplaced DEF Reload, RebuildInv, RuntimeInv
<1>9. GoodStep
  <2>1. /\ Moves(n)
        /\ \A k \in Node : election'[k] = Nil \/ election'[k] = election[k]
        /\ UNCHANGED <<ballots, wins>>
    <3>1. Follows(diskState[n], diskState[n])
      BY DEF Follows
    <3>. QED  BY <1>2, <1>3, <3>1, ReloadMoves DEF RebuildInv, RuntimeInv
  <2>2. \A k \in net' : k \in net \/ Stray(k)
    BY <1>2, <1>5, AbandonStray, OwnCallsOfNet DEF Inv, TypeOK, CallsTracked
  <2>. QED  BY <1>2, <1>7, <2>1, <2>2, StrayQuiet, QuietStep DEF RebuildInv, RuntimeInv
<1>10. RoleInv'
  BY <1>2, <1>3, <1>7, ReloadRole DEF RebuildInv, RuntimeInv
<1>11. TaskInv'
  BY <1>2, <1>3, <1>5, ForgetInv DEF RebuildInv, TaskInv
<1>. QED  BY <1>7, <1>8, <1>9, <1>10, <1>11 DEF RebuildInv, RuntimeInv, TaskInv, GoodStep

-----------------------------------------------------------------------------
(* Every step.                                                             *)

LEMMA StepRebuildInv ==
  ASSUME RebuildInv, [RebuildNext]_allVars
  PROVE  RebuildInv' /\ GoodStep
<1>1. CASE UNCHANGED allVars
  <2>1. UNCHANGED vars /\ UNCHANGED rebuildVars
    BY <1>1 DEF allVars
  <2>2. RuntimeInv' /\ GoodStep
    BY <2>1, NextInv DEF RebuildInv
  <2>3. TaskInv'
    BY <2>1 DEF vars, rebuildVars, RebuildInv, TaskInv, TasksOK, RecoveryOK, LockExclusive,
       Rebuilding
  <2>. QED  BY <2>2, <2>3 DEF RebuildInv, TaskInv
<1>2. ASSUME NEW n \in Node, ReadingStep(n)
      PROVE  RebuildInv' /\ GoodStep
  <2>1. TaskInv' /\ UNCHANGED vars
    BY <1>2, ReadingStepInv DEF RebuildInv, RuntimeInv, TaskInv
  <2>2. RuntimeInv' /\ GoodStep
    BY <2>1, NextInv DEF RebuildInv
  <2>. QED  BY <2>1, <2>2 DEF RebuildInv, TaskInv
<1>3. CASE RebuildNext
  <2>1. PICK n \in Node :
          \/ ReadingStep(n)
          \/ \E by \in By : Install(n, by) \/ CrashInInstall(n, by)
          \/ RuntimeStep(n)
          \/ \E m \in net : ServeAppend(n, m)
          \/ CrashBeside(n)
    BY <1>3 DEF RebuildNext, RebuildStep, ReadingStep
  <2>. QED  BY <1>2, <2>1, InstallInv, CrashInInstallInv, RuntimeStepInv, ServeAppendInv,
               CrashBesideInv
<1>. QED  BY <1>1, <1>3

LEMMA AlwaysRebuildInv == RebuildSpec => []RebuildInv
<1>1. RebuildInv /\ [RebuildNext]_allVars => RebuildInv'
  BY StepRebuildInv
<1>. QED  BY <1>1, InitRebuildInv, PTL DEF RebuildSpec

\* The bookkeeping of the runtimes is kept when snapshots replace their logs: the types,
\* the calls and the tasks that wait for them, the entry a submission holds the lock for,
\* and the state files behind the answers.
THEOREM RebuildsKeepRuntimes ==
  RebuildSpec => [](TypeOK /\ CallsTracked /\ SubmittedEntryStays /\ AnswersDurable)
<1>1. RebuildInv => TypeOK /\ CallsTracked /\ SubmittedEntryStays /\ AnswersDurable
  BY DEF RebuildInv, RuntimeInv, Inv, ElectionInv, SubmissionInv, LogSaved, EntryLast,
         SubmittedEntryStays
<1>. QED  BY <1>1, AlwaysRebuildInv, PTL

\* install_snapshot_metadata takes part in no election: with rebuilds the elections are
\* still those of the abstract specification.
THEOREM RebuildsImplementElections == RebuildSpec => ImplementsElections
<1>1. RebuildInit => E!Init
  BY DEF RebuildInit, Init, E!Init
<1>2. RebuildInv /\ [RebuildNext]_allVars => [E!Next]_(E!evars)
  BY StepRebuildInv DEF GoodStep
<1>. QED  BY <1>1, <1>2, AlwaysRebuildInv, PTL DEF RebuildSpec, ImplementsElections, E!Spec

\* A snapshot, whose term may be higher than the vote's, makes no node vote twice and no
\* two nodes win a term.
THEOREM RebuildsKeepElectionsSafe == RebuildSpec => [](VoteOnce /\ CampaignSafety)
BY RebuildsImplementElections, AbstractElectionsSafe, PTL

-----------------------------------------------------------------------------
(* Turning healthy.                                                        *)

\* The status of a follower, of a group of several, is "healthy".
IsHealthy(n) ==
  /\ ~recovery[n].error /\ recovery[n].override = NoOverride
  /\ leaderId[n] # Nil
  /\ ~Behind(recovery[n], state[n], Len(log[n]))

FollowerHealth(n) ==
  role[n] = "follower" /\ Node # {n} => (ShardStatus(n) = "healthy" <=> IsHealthy(n))

LEMMA HealthyFollower == RebuildInv => \A n \in Node : FollowerHealth(n)
<1>. SUFFICES ASSUME RebuildInv, NEW n \in Node, role[n] = "follower", Node # {n}
              PROVE  ShardStatus(n) = "healthy" <=> IsHealthy(n)
  BY DEF FollowerHealth
<1>1. recovery[n].override \in {NoOverride, "failed", "rebuilding", "catching_up"}
  BY DEF RebuildInv, RecoveryOK, Fields
<1>2. PICK v : v = Voter(n)
  OBVIOUS
<1>3. /\ v.sole = FALSE /\ v.role = "follower" /\ v.led = (leaderId[n] # Nil)
      /\ v.st = state[n] /\ v.length = Len(log[n])
  BY <1>2 DEF Voter
<1>4. CASE recovery[n].error
  BY <1>4 DEF ShardStatus, RecoveryStatus, IsHealthy
<1>5. CASE ~recovery[n].error /\ recovery[n].override # NoOverride
  BY <1>1, <1>5 DEF ShardStatus, RecoveryStatus, IsHealthy
<1>6. CASE ~recovery[n].error /\ recovery[n].override = NoOverride
  BY <1>2, <1>3, <1>6 DEF ShardStatus, RecoveryStatus, IsHealthy
<1>. QED  BY <1>4, <1>5, <1>6

LEMMA HealthyAfter == RebuildInv' => \A n \in Node : FollowerHealth(n)'
<1>1. RebuildInv' => (\A n \in Node : FollowerHealth(n))'
  BY HealthyFollower, PTL
<1>. QED  BY <1>1

\* What the status looks at is left alone.
SameStatus(n) == Positions(n)' = Positions(n) /\ leaderId'[n] = leaderId[n]

\* The step does not make a follower healthy.
NotHealthier(n) ==
  \/ leaderId'[n] = Nil
  \/ recovery'[n].override # NoOverride
  \/ SameStatus(n) /\ recovery'[n] = recovery[n]

LEMMA NoHealthier ==
  ASSUME NEW n \in Node, NotHealthier(n), IsHealthy(n)'
  PROVE  IsHealthy(n)
BY DEF NotHealthier, SameStatus, Positions, IsHealthy, Behind

LEMMA Untouched ==
  ASSUME NEW n, state'[n] = state[n], log'[n] = log[n], leaderId'[n] = leaderId[n]
  PROVE  SameStatus(n)
BY DEF SameStatus, Positions

LEMMA ObservePositions ==
  ASSUME NEW st \in DurableState, NEW term
  PROVE  /\ Observe(st, term).commitIndex = st.commitIndex
         /\ Observe(st, term).lastApplied = st.lastApplied
BY DEF Observe, DurableState

LEMMA VotePositions ==
  ASSUME NEW st \in DurableState, NEW l, NEW m
  PROVE  /\ StateAfterVote(st, l, m).commitIndex = st.commitIndex
         /\ StateAfterVote(st, l, m).lastApplied = st.lastApplied
<1>1. PICK seen : /\ seen = Observe(st, m.term)
                  /\ seen.commitIndex = st.commitIndex /\ seen.lastApplied = st.lastApplied
  BY ObservePositions
<1>2. LET new == [seen EXCEPT !.votedFor = m.source]
      IN  new.commitIndex = seen.commitIndex /\ new.lastApplied = seen.lastApplied
  OBVIOUS
<1>. QED  BY <1>1, <1>2 DEF StateAfterVote

-----------------------------------------------------------------------------
(* Steps of the runtimes that leave a follower as it is.                   *)

\* Elections, heartbeats and submissions of another node.
LEMMA OthersUntouched ==
  ASSUME Inv, NEW k \in Node, ElectionStep(k) \/ HeartbeatStep(k) \/ SubmitStep(k),
         NEW n \in Node, k # n
  PROVE  SameStatus(n)
<1>1. /\ state \in [Node -> DurableState] /\ log \in [Node -> Seq(Entry)]
      /\ leaderId \in [Node -> Node \cup {Nil}]
  BY DEF Inv, TypeOK, TypeCore
<1>2. CASE ElectionStep(k)
  BY <1>1, <1>2, Untouched DEF ElectionStep, StartElection, HandleRequestVote, HandleVoteReply,
     LoseElection, WinElection, CountVote, AwaitVotes, BecomeLeader, VoteCallFails
<1>3. CASE HeartbeatStep(k)
  BY <1>1, <1>3, Untouched DEF HeartbeatStep, Heartbeat, SendHeartbeat, HandleHeartbeatReply,
     EndHeartbeat, DeposedByHeartbeat, Retry, StepDown, HeartbeatCallFails, core
<1>4. ASSUME NEW c \in Command, SubmitCommand(k, c)
      PROVE  SameStatus(n)
  BY <1>1, <1>4, Untouched DEF SubmitCommand, EndSubmit
<1>5. ASSUME NEW c \in Command, SubmitToSoleVoter(k, c)
      PROVE  FALSE
  BY <1>5 DEF SubmitToSoleVoter
<1>6. ASSUME NEW m \in net, HandleSubmitReply(k, m) \/ SubmitCallFails(k, m)
      PROVE  SameStatus(n)
  <2>1. \A r, st, ds, prog, base :
          Resume(k, r, st, ds, prog, base) => \E end : state' = [state EXCEPT ![k] = end]
    BY DEF Resume, EndSubmit
  <2>2. \/ UNCHANGED state
        \/ \E r, st, ds, prog, base : Resume(k, r, st, ds, prog, base)
    BY <1>6 DEF HandleSubmitReply, Replicate, DeposedBySubmit, Retry, SubmitCallFails
  <2>3. state'[n] = state[n]
    BY <1>1, <2>1, <2>2
  <2>4. UNCHANGED log /\ leaderId'[n] = leaderId[n]
    BY <1>1, <1>6
    DEF HandleSubmitReply, Replicate, DeposedBySubmit, StepDown, Retry, SubmitCallFails
  <2>. QED  BY <2>3, <2>4, Untouched
<1>. QED  BY <1>2, <1>3, <1>4, <1>5, <1>6 DEF SubmitStep

\* A step of a follower's own election or heartbeat: it may have forgotten its leader.
StillFollows(n) ==
  /\ Positions(n)' = Positions(n)
  /\ leaderId'[n] \in {Nil, leaderId[n]}
  /\ Len(progress'[n]) = Len(progress[n])

LEMMA ElectionFollows ==
  ASSUME Inv, NEW n \in Node, ElectionStep(n), role[n] = "follower", role'[n] = "follower"
  PROVE  StillFollows(n)
<1>1. /\ state[n] \in DurableState /\ state \in [Node -> DurableState]
      /\ role \in [Node -> Role] /\ leaderId \in [Node -> Node \cup {Nil}]
  BY DEF Inv, TypeOK, TypeCore
<1>2. CASE StartElection(n)
  BY <1>1, <1>2 DEF StartElection, BecomeLeader
<1>3. ASSUME NEW m \in net, HandleRequestVote(n, m)
      PROVE  StillFollows(n)
  <2>1. PICK st : st = StateAfterVote(state[n], log[n], m)
    OBVIOUS
  <2>2. st.commitIndex = state[n].commitIndex /\ st.lastApplied = state[n].lastApplied
    BY <1>1, <2>1, VotePositions
  <2>3. state'[n] = st /\ UNCHANGED <<log, progress>> /\ leaderId'[n] \in {Nil, leaderId[n]}
    BY <1>1, <1>3, <2>1 DEF HandleRequestVote
  <2>. QED  BY <2>2, <2>3 DEF StillFollows, Positions
<1>4. ASSUME NEW m \in net, LoseElection(n, m), UNCHANGED log
      PROVE  StillFollows(n)
  <2>1. PICK st : st = Observe(state[n], m.term)
    OBVIOUS
  <2>2. st.commitIndex = state[n].commitIndex /\ st.lastApplied = state[n].lastApplied
    BY <1>1, <2>1, ObservePositions
  <2>3. state'[n] = st /\ UNCHANGED <<log, leaderId, progress>>
    BY <1>1, <1>4, <2>1 DEF LoseElection
  <2>. QED  BY <2>2, <2>3 DEF StillFollows, Positions
<1>5. ASSUME NEW m \in net, WinElection(n, m)
      PROVE  FALSE
  BY <1>1, <1>5 DEF WinElection, BecomeLeader
<1>6. ASSUME NEW votes, NEW m, AwaitVotes(n, votes, m), UNCHANGED log
      PROVE  StillFollows(n)
  BY <1>6 DEF AwaitVotes, StillFollows, Positions
<1>. QED  BY <1>2, <1>3, <1>4, <1>5, <1>6
          DEF ElectionStep, HandleVoteReply, CountVote, VoteCallFails

LEMMA HeartbeatFollows ==
  ASSUME Inv, NEW n \in Node, HeartbeatStep(n)
  PROVE  StillFollows(n)
<1>1. /\ state[n] \in DurableState /\ state \in [Node -> DurableState]
      /\ leaderId \in [Node -> Node \cup {Nil}]
  BY DEF Inv, TypeOK, TypeCore
<1>2. CASE UNCHANGED <<state, log, leaderId, progress>>
  BY <1>2 DEF StillFollows, Positions
<1>3. CASE \/ Heartbeat(n) \/ (\E p \in Peers(n) : SendHeartbeat(n, p))
           \/ (\E m \in net : HeartbeatCallFails(n, m))
  BY <1>2, <1>3 DEF Heartbeat, SendHeartbeat, HeartbeatCallFails, core, tasks
<1>4. ASSUME NEW m \in net, HandleHeartbeatReply(n, m)
      PROVE  StillFollows(n)
  <2>1. CASE EndHeartbeat(n, m) \/ Retry(n, m)
    <3>1. progress' = ProgressAfter(n, m) /\ UNCHANGED <<state, log, leaderId>>
      BY <1>4, <2>1 DEF HandleHeartbeatReply, EndHeartbeat, Retry
    <3>2. Len(ProgressAfter(n, m)[n]) = Len(progress[n])
      BY <1>4, ReplyKind, ProgressAfterType DEF HandleHeartbeatReply, Inv, TypeOK
    <3>. QED  BY <3>1, <3>2 DEF StillFollows, Positions
  <2>2. CASE DeposedByHeartbeat(n, m)
    <3>1. PICK st : st = Observe(state[n], m.term)
      OBVIOUS
    <3>2. st.commitIndex = state[n].commitIndex /\ st.lastApplied = state[n].lastApplied
      BY <1>1, <3>1, ObservePositions
    <3>3. state'[n] = st /\ UNCHANGED <<log, progress>> /\ leaderId'[n] = Nil
      BY <1>1, <1>4, <2>2, <3>1 DEF HandleHeartbeatReply, DeposedByHeartbeat, StepDown
    <3>. QED  BY <3>2, <3>3 DEF StillFollows, Positions
  <2>. QED  BY <1>4, <2>1, <2>2 DEF HandleHeartbeatReply
<1>. QED  BY <1>3, <1>4 DEF HeartbeatStep

\* A follower whose submission goes on or ends knows no leader.
LEMMA SubmitFollows ==
  ASSUME RebuildInv, NEW n \in Node, SubmitStep(n), role[n] = "follower", role'[n] = "follower"
  PROVE  leaderId'[n] = Nil
<1>1. Inv /\ RoleInv
  BY DEF RebuildInv, RuntimeInv
<1>2. ASSUME NEW c \in Command, SubmitCommand(n, c) \/ SubmitToSoleVoter(n, c)
      PROVE  FALSE
  BY <1>1, <1>2 DEF SubmitCommand, SubmitToSoleVoter, BecomeLeader, Inv, TypeOK, TypeCore
<1>3. ASSUME NEW m \in net, HandleSubmitReply(n, m) \/ SubmitCallFails(n, m)
      PROVE  leaderId'[n] = Nil
  <2>1. m.task = "submit" /\ Caller(m) = n
    BY <1>1, <1>3, ReplyKind DEF HandleSubmitReply, SubmitCallFails, Calls
  <2>2. submit[n] # Nil /\ leaderId[n] = Nil
    BY <1>1, <2>1, SubmitCall, NilIsNoTask DEF RoleInv, RoleOK
  <2>. QED  BY <1>1, <1>3, <2>2 DEF HandleSubmitReply, Replicate, DeposedBySubmit, Retry,
               StepDown, SubmitCallFails, Inv, TypeOK, TypeCore
<1>. QED  BY <1>2, <1>3 DEF SubmitStep

LEMMA RuntimeNotHealthier ==
  ASSUME RebuildInv, NEW k \in Node, RuntimeStep(k),
         NEW n \in Node, role[n] = "follower", role'[n] = "follower"
  PROVE  NotHealthier(n)
<1>1. Inv /\ recovery \in [Node -> Fields]
  BY DEF RebuildInv, RuntimeInv, RecoveryOK
<1>2. CASE k # n
  <2>1. recovery'[n] = recovery[n]
    BY <1>1, <1>2 DEF RuntimeStep
  <2>. QED  BY <1>1, <1>2, <2>1, OthersUntouched DEF RuntimeStep, NotHealthier
<1>3. CASE k = n /\ SubmitStep(n)
  BY <1>3, SubmitFollows DEF NotHealthier
<1>4. CASE k = n /\ (ElectionStep(n) \/ HeartbeatStep(n))
  <2>1. StillFollows(n)
    BY <1>1, <1>4, ElectionFollows, HeartbeatFollows
  <2>2. Len(progress[n]) \in Nat
    BY <1>1, LenProperties DEF Inv, TypeOK, TypeTasks
  <2>3. recovery' = recovery
    BY <1>4, <2>1, <2>2 DEF StillFollows, RuntimeStep
  <2>. QED  BY <2>1, <2>3 DEF StillFollows, NotHealthier, SameStatus
<1>. QED  BY <1>2, <1>3, <1>4 DEF RuntimeStep

-----------------------------------------------------------------------------
(* Steps of a rebuild and of a crash.                                      *)

\* A rebuild that reads only reports that it began or that it failed.
LEMMA ReadingNotHealthier ==
  ASSUME RebuildInv, NEW k \in Node, ReadingStep(k), NEW n \in Node
  PROVE  NotHealthier(n)
<1>1. recovery \in [Node -> Fields]
  BY DEF RebuildInv, RecoveryOK
<1>2. UNCHANGED vars
  BY ReadingStepInv DEF RebuildInv, RuntimeInv, TaskInv
<1>3. SameStatus(n)
  BY <1>2, Untouched DEF vars
<1>4. PICK status \in {"failed", "rebuilding"} :
        \/ UNCHANGED recovery
        \/ recovery' = [recovery EXCEPT ![k] = ReportRecovery(@, status)]
  <2>1. ASSUME NEW by \in By
        PROVE  /\ Raise(k, by) \/ NotFound(k, by)
                    => \/ UNCHANGED recovery
                       \/ recovery' = [recovery EXCEPT ![k] = ReportRecovery(@, "failed")]
               /\ \A l : Found(k, by, l) => UNCHANGED recovery
    BY DEF Raise, NotFound, Found
  <2>2. CASE StartRoute(k) \/ StartAuto(k) \/ Inspect(k)
    BY <2>2 DEF StartRoute, StartAuto, Inspect, WaitForLock, Return
  <2>3. ASSUME NEW by \in By, EnterLock(k, by)
        PROVE  \/ Raise(k, by)
               \/ recovery' = [recovery EXCEPT ![k] = ReportRecovery(@, "rebuilding")]
    BY <2>3 DEF EnterLock, TakeLock
  <2>4. ASSUME NEW by \in By, NEW p \in Node, AskVoter(k, by, p)
        PROVE  Found(k, by, p) \/ NotFound(k, by) \/ UNCHANGED recovery
    BY <2>4 DEF AskVoter
  <2>5. ASSUME NEW by \in By, VerifyHint(k, by)
        PROVE  Found(k, by, rebuild[k][by].hint) \/ NotFound(k, by)
    BY <2>5 DEF VerifyHint
  <2>6. ASSUME NEW by \in By, ReadManifest(k, by) \/ ReadExport(k, by) \/ Confirm(k, by)
        PROVE  UNCHANGED recovery
    BY <2>6 DEF ReadManifest, ReadExport, Confirm
  <2>7. ASSUME NEW by \in By, GiveUp(k, by)
        PROVE  Raise(k, by)
    BY <2>7 DEF GiveUp
  <2>. QED  BY <2>1, <2>2, <2>3, <2>4, <2>5, <2>6, <2>7 DEF ReadingStep
<1>5. CASE k # n \/ UNCHANGED recovery
  BY <1>1, <1>3, <1>4, <1>5 DEF NotHealthier
<1>6. CASE k = n /\ recovery' = [recovery EXCEPT ![k] = ReportRecovery(@, status)]
  <2>1. recovery[n] \in Fields
    BY <1>1
  <2>2. recovery'[n].override = status
    BY <1>1, <1>6, <2>1 DEF ReportRecovery, Fields
  <2>. QED  BY <2>2 DEF NotHealthier, NoOverride
<1>. QED  BY <1>4, <1>5, <1>6

\* After a crash a voter knows no leader.
LEMMA CrashNotHealthier ==
  ASSUME RebuildInv, NEW k \in Node,
         CrashBeside(k) \/ \E by \in By : CrashInInstall(k, by), NEW n \in Node
  PROVE  NotHealthier(n)
<1>1. Inv /\ recovery \in [Node -> Fields]
  BY DEF RebuildInv, RuntimeInv, RecoveryOK
<1>2. PICK ds, l, docs : Reload(k, ds, l, docs)
  BY DEF CrashBeside, CrashInInstall, Restart, CrashInAppend, CrashInSubmit, CrashInSoleSubmit
<1>3. Forget(k)
  BY DEF CrashBeside, CrashInInstall
<1>4. CASE k = n
  BY <1>1, <1>2, <1>4 DEF Reload, NotHealthier, Inv, TypeOK, TypeCore
<1>5. CASE k # n
  <2>1. state'[n] = state[n] /\ log'[n] = log[n] /\ leaderId'[n] = leaderId[n]
    BY <1>1, <1>2, <1>5 DEF Reload, Inv, TypeOK, TypeCore
  <2>2. recovery'[n] = recovery[n]
    BY <1>1, <1>3, <1>5 DEF Forget
  <2>. QED  BY <2>1, <2>2, Untouched DEF NotHealthier
<1>. QED  BY <1>4, <1>5

\* A snapshot leaves its voter catching up.
LEMMA InstallNotHealthier ==
  ASSUME RebuildInv, NEW k \in Node, NEW by \in By, Install(k, by), NEW n \in Node
  PROVE  NotHealthier(n)
<1>1. Inv /\ recovery \in [Node -> Fields] /\ recovery[k] \in Fields
  BY DEF RebuildInv, RuntimeInv, RecoveryOK
<1>2. PICK index : recovery' = [recovery EXCEPT ![k] =
        ReportRecovery(RecoveryOfInstalled(@, index), "catching_up")]
  BY DEF Install
<1>3. CASE k = n
  <2>1. recovery'[n].override = "catching_up"
    BY <1>1, <1>2, <1>3 DEF ReportRecovery, RecoveryOfInstalled, Fields
  <2>. QED  BY <2>1 DEF NotHealthier, NoOverride
<1>4. CASE k # n
  <2>1. state'[n] = state[n]
    BY <1>1, <1>4 DEF Install, Inv, TypeOK, TypeCore
  <2>2. log'[n] = log[n] /\ leaderId'[n] = leaderId[n]
    BY <1>1, <1>4 DEF Install, Inv, TypeOK, TypeCore
  <2>3. recovery'[n] = recovery[n]
    BY <1>1, <1>2, <1>4
  <2>. QED  BY <2>1, <2>2, <2>3, Untouched DEF NotHealthier
<1>. QED  BY <1>3, <1>4

-----------------------------------------------------------------------------
(* Steps of an append.                                                     *)

LEMMA AppendElsewhere ==
  ASSUME RebuildInv, NEW k \in Node, NEW m \in net, ServeAppend(k, m), NEW n \in Node, k # n
  PROVE  NotHealthier(n)
<1>1. Inv /\ recovery \in [Node -> Fields] /\ HandleAppendEntries(k, m)
  BY DEF RebuildInv, RuntimeInv, RecoveryOK, ServeAppend
<1>2. PICK r : recovery' = [recovery EXCEPT ![k] = r]
  BY DEF ServeAppend
<1>3. recovery'[n] = recovery[n]
  BY <1>1, <1>2
<1>4. state'[n] = state[n] /\ log'[n] = log[n]
  BY <1>1 DEF HandleAppendEntries, Inv, TypeOK, TypeCore
<1>5. leaderId'[n] = leaderId[n]
  BY <1>1 DEF HandleAppendEntries, Inv, TypeOK, TypeCore
<1>. QED  BY <1>3, <1>4, <1>5, Untouched DEF NotHealthier

\* After an application that raised there is a committed entry left to apply.
LEMMA RaiseLeavesBehind ==
  ASSUME NEW docs, NEW st \in DurableState, NEW l \in Seq(Entry), ApplyRaises(docs, st, l)
  PROVE  StateAfterApply(docs, st, l).lastApplied < StateAfterApply(docs, st, l).commitIndex
<1>. DEFINE batch == Unapplied(st, l)
            k == Smaller(st.commitIndex, Len(l)) - st.lastApplied
<1>1. /\ st.commitIndex \in Nat /\ st.lastApplied \in Nat /\ Len(l) \in Nat
      /\ k \in Int /\ st.lastApplied + k <= st.commitIndex
  BY LenProperties DEF DurableState, Smaller
<1>2. batch \in Seq(Command) /\ Len(batch) \in Nat /\ DOMAIN batch = 1 .. Len(batch)
  BY UnappliedType, LenProperties
<1>3. DOMAIN batch = 1 .. k
  BY DEF Unapplied
<1>4. PICK count \in Nat : count = AppliedCount(docs, batch) /\ count < Len(batch)
  BY <1>2, AppliedCountType DEF ApplyRaises
<1>. HIDE DEF batch
<1>5. Len(batch) \in 1 .. k
  <2>1. Len(batch) \in 1 .. Len(batch)
    BY <1>2, <1>4
  <2>2. 1 .. Len(batch) = 1 .. k
    BY <1>2, <1>3 DEF batch
  <2>. QED  BY <2>1, <2>2
<1>. HIDE DEF k
<1>6. count < k
  BY <1>1, <1>2, <1>4, <1>5
<1>7. StateAfterApply(docs, st, l) = [st EXCEPT !.lastApplied = @ + count]
  BY <1>4 DEF StateAfterApply, batch
<1>8. /\ StateAfterApply(docs, st, l).lastApplied = st.lastApplied + count
      /\ StateAfterApply(docs, st, l).commitIndex = st.commitIndex
  BY <1>7 DEF DurableState
<1>. QED  BY <1>1, <1>4, <1>6, <1>8

\* What an append leaves of the term and the known leader.
LEMMA AppendFollows ==
  ASSUME Inv, NEW n \in Node, NEW m \in net, HandleAppendEntries(n, m), ~Stale(state[n], m)
  PROVE  leaderId'[n] = m.source /\ state'[n].currentTerm = m.term
<1>. DEFINE l == LogAfterAppend(state[n], log[n], m)
            st == StateAfterAppend(state[n], log[n], m)
<1>1. m \in AppendEntries /\ Payload(m)
  BY MessageKinds DEF Inv, TypeOK, TypeNet, HandleAppendEntries, AppendEntries, Payload, Term,
     Index
<1>2. /\ state[n] \in DurableState /\ log[n] \in Seq(Entry)
      /\ state \in [Node -> DurableState] /\ leaderId \in [Node -> Node \cup {Nil}]
  BY DEF Inv, TypeOK, TypeCore
<1>3. st \in DurableState /\ st.currentTerm = m.term
  <2>1. PICK seen : seen = Observe(state[n], m.term)
    OBVIOUS
  <2>2. m.term \in Nat /\ state[n].currentTerm \in Nat /\ m.term >= state[n].currentTerm
    BY <1>1, <1>2 DEF Stale, DurableState, AppendEntries, Term
  <2>3. seen.currentTerm = m.term
    BY <1>2, <2>1, <2>2 DEF Observe, DurableState
  <2>4. st \in DurableState
    BY <1>1, <1>2, StateAfterAppendType
  <2>5. \A i : [seen EXCEPT !.commitIndex = i].currentTerm = seen.currentTerm
    OBVIOUS
  <2>. QED  BY <2>1, <2>3, <2>4, <2>5 DEF StateAfterAppend
<1>4. StateAfterApply(store[n], st, l).currentTerm = st.currentTerm
  BY <1>3 DEF StateAfterApply, DurableState
<1>5. state'[n] \in {st, StateAfterApply(store[n], st, l)}
  BY <1>2 DEF HandleAppendEntries
<1>. HIDE DEF st, l
<1>6. leaderId'[n] = m.source
  BY <1>2 DEF HandleAppendEntries
<1>. QED  BY <1>3, <1>4, <1>5, <1>6

\* A refused append raises the term at most: the follower was up to date before it, and
\* knew no leader.
LEMMA RefusedHealthy ==
  ASSUME RebuildInv, NEW n \in Node, NEW m \in net, ServeAppend(n, m),
         ~Accepted(state[n], log[n], m), ~IsHealthy(n), IsHealthy(n)'
  PROVE  ConfirmedBy(n, m)
<1>1. /\ Inv /\ recovery \in [Node -> Fields] /\ HandleAppendEntries(n, m)
      /\ m.type = "AppendEntries" /\ m.dest = n
  BY DEF RebuildInv, RuntimeInv, RecoveryOK, ServeAppend, HandleAppendEntries
<1>2. /\ state[n] \in DurableState /\ state \in [Node -> DurableState]
      /\ log \in [Node -> Seq(Entry)]
  BY <1>1 DEF Inv, TypeOK, TypeCore
<1>3. Positions(n)' = Positions(n)
  <2>1. PICK st : st = Observe(state[n], m.term)
    OBVIOUS
  <2>2. st.commitIndex = state[n].commitIndex /\ st.lastApplied = state[n].lastApplied
    BY <1>2, <2>1, ObservePositions
  <2>3. state'[n] = st /\ log'[n] = log[n]
    BY <1>1, <1>2, <2>1 DEF HandleAppendEntries, LogAfterAppend, StateAfterAppend
  <2>. QED  BY <2>2, <2>3 DEF Positions
<1>4. recovery'[n] = recovery[n]
  BY <1>1 DEF ServeAppend
<1>5. ~Behind(recovery[n], state[n], Len(log[n]))
  BY <1>3, <1>4 DEF IsHealthy, Positions, Behind
<1>6. leaderId[n] = Nil
  BY <1>4, <1>5 DEF IsHealthy
<1>7. ~Stale(state[n], m)
  BY <1>1, <1>6 DEF IsHealthy, HandleAppendEntries
<1>. QED  BY <1>1, <1>3, <1>5, <1>6, <1>7, AppendFollows DEF ConfirmedBy

\* An accepted append that turns a follower healthy brought nothing.
LEMMA AcceptedHealthy ==
  ASSUME RebuildInv, RebuildInv', NEW n \in Node, NEW m \in net, ServeAppend(n, m),
         Accepted(state[n], log[n], m), IsHealthy(n)'
  PROVE  ConfirmedBy(n, m)
<1>. DEFINE l == LogAfterAppend(state[n], log[n], m)
            st == StateAfterAppend(state[n], log[n], m)
            heard == HeardFrom(recovery[n], m)
            moved == Positions(n)' # Positions(n)
<1>1. /\ Inv /\ m \in AppendEntries /\ Payload(m) /\ recovery \in [Node -> Fields]
      /\ HandleAppendEntries(n, m) /\ m.type = "AppendEntries" /\ m.dest = n
  BY MessageKinds DEF RebuildInv, RuntimeInv, Inv, TypeOK, TypeNet, RecoveryOK, ServeAppend,
     HandleAppendEntries, AppendEntries, Payload, Term, Index
<1>2. /\ state[n] \in DurableState /\ log[n] \in Seq(Entry)
      /\ state \in [Node -> DurableState] /\ log \in [Node -> Seq(Entry)]
  BY <1>1 DEF Inv, TypeOK, TypeCore
<1>3. l \in Seq(Entry) /\ st \in DurableState
  BY <1>1, <1>2, LogAfterAppendType, StateAfterAppendType
<1>4. ~Behind(recovery'[n], state'[n], Len(log'[n]))
  BY DEF IsHealthy
<1>5. /\ state'[n].commitIndex \in Nat /\ state'[n].lastApplied \in Nat /\ Len(log'[n]) \in Nat
  BY LenProperties DEF RebuildInv, RuntimeInv, Inv, TypeOK, TypeCore, DurableState
<1>6. ~ApplyRaises(store[n], st, l)
  <2>1. SUFFICES ASSUME ApplyRaises(store[n], st, l)
                 PROVE  FALSE
    OBVIOUS
  <2>2. state'[n] = StateAfterApply(store[n], st, l)
    BY <1>1, <1>2 DEF HandleAppendEntries
  <2>. HIDE DEF st, l
  <2>3. state'[n].lastApplied < state'[n].commitIndex
    BY <1>3, <2>1, <2>2, RaiseLeavesBehind
  <2>. QED  BY <1>4, <2>3 DEF Behind
<1>7. recovery'[n] = ConfirmCatchUp(heard, moved, state'[n], Len(log'[n]))
  BY <1>1, <1>6 DEF ServeAppend
<1>8. heard \in Fields /\ heard.leaderLog \in Nat /\ heard.leaderCommit \in Nat
  BY <1>1, HeardType
<1>9. heard.leaderLog >= m.prevLogIndex + Len(m.entries) /\ heard.leaderCommit = m.leaderCommit
  <2>1. /\ m.prevLogIndex \in Nat /\ Len(m.entries) \in Nat /\ m.leaderCommit \in Nat
        /\ recovery[n] \in Fields
    BY <1>1, LenProperties DEF AppendEntries, Index
  <2>. QED  BY <2>1 DEF HeardFrom, Fields
<1>. HIDE DEF heard, moved, st, l
<1>10. CaughtUp(heard, state'[n], Len(log'[n]))
  <2>1. SUFFICES ASSUME ~CaughtUp(heard, state'[n], Len(log'[n]))
                 PROVE  FALSE
    OBVIOUS
  <2>2. recovery'[n] = heard
    BY <1>7, <2>1 DEF ConfirmCatchUp
  <2>. QED  BY <1>4, <1>5, <1>8, <2>1, <2>2 DEF Behind, CaughtUp
<1>11. ~moved
  <2>1. SUFFICES ASSUME moved
                 PROVE  FALSE
    OBVIOUS
  <2>2. recovery'[n].confirm
    BY <1>7, <1>8, <1>10, <2>1 DEF ConfirmCatchUp, Fields
  <2>. QED  BY <1>4, <2>2 DEF Behind
<1>12. Positions(n)' = Positions(n)
  BY <1>11 DEF moved
<1>13. HasAllOf(n, m)
  <2>1. /\ Len(log[n]) = Len(log'[n]) /\ state[n].commitIndex = state'[n].commitIndex
        /\ state[n].lastApplied = state'[n].lastApplied
    BY <1>12 DEF Positions
  <2>2. m.prevLogIndex + Len(m.entries) \in Nat
    BY <1>1, LenProperties DEF AppendEntries, Index
  <2>. QED  BY <1>5, <1>8, <1>9, <1>10, <2>1, <2>2 DEF HasAllOf, CaughtUp
<1>. QED  BY <1>1, <1>12, <1>13, AppendFollows DEF ConfirmedBy, Accepted

-----------------------------------------------------------------------------
LEMMA StepHealthy ==
  ASSUME RebuildInv, RebuildInv', [RebuildNext]_allVars, NEW n \in Node,
         role[n] = "follower", role'[n] = "follower", ~IsHealthy(n), IsHealthy(n)'
  PROVE  \E m \in net : ConfirmedBy(n, m)
<1>1. CASE UNCHANGED allVars
  <2>1. NotHealthier(n)
    BY <1>1, Untouched DEF allVars, vars, rebuildVars, NotHealthier
  <2>. QED  BY <2>1, NoHealthier
<1>2. ASSUME NEW m \in net, ServeAppend(n, m)
      PROVE  ConfirmedBy(n, m)
  BY <1>2, RefusedHealthy, AcceptedHealthy
<1>3. CASE RebuildNext
  <2>1. PICK k \in Node :
          \/ ReadingStep(k)
          \/ \E by \in By : Install(k, by) \/ CrashInInstall(k, by)
          \/ RuntimeStep(k)
          \/ \E m \in net : ServeAppend(k, m)
          \/ CrashBeside(k)
    BY <1>3 DEF RebuildNext, RebuildStep, ReadingStep
  <2>2. CASE k = n /\ \E m \in net : ServeAppend(k, m)
    BY <1>2, <2>2
  <2>3. CASE ~(k = n /\ \E m \in net : ServeAppend(k, m))
    <3>1. NotHealthier(n)
      BY <2>1, <2>3, ReadingNotHealthier, InstallNotHealthier, CrashNotHealthier,
         RuntimeNotHealthier, AppendElsewhere
    <3>. QED  BY <3>1, NoHealthier
  <2>. QED  BY <2>2, <2>3
<1>. QED  BY <1>1, <1>3

\* A follower of raft_runtime.py, in a group of several, turns healthy only with an append
\* of the leader it follows from then on, of that leader's term, which leaves its positions
\* as they were: an accepted one of which it has, committed and applied everything, or a
\* refused one, before which it followed no leader and was behind none.  So it does not
\* with an append that brings it up to date, with a snapshot, after a crash, or as a
\* rebuild or a submission of its own ends.
THEOREM HealthyAlwaysConfirmed == RebuildSpec => HealthyConfirmed
<1>1. RebuildInv /\ RebuildInv' /\ [RebuildNext]_allVars =>
        \A n \in Node :
          /\ Peers(n) # {} /\ role[n] = "follower" /\ role'[n] = "follower"
          /\ ShardStatus(n) # "healthy" /\ ShardStatus(n)' = "healthy"
          => \E m \in net : ConfirmedBy(n, m)
  <2>. SUFFICES ASSUME RebuildInv, RebuildInv', [RebuildNext]_allVars, NEW n \in Node,
                       Peers(n) # {}, role[n] = "follower", role'[n] = "follower",
                       ShardStatus(n) # "healthy", ShardStatus(n)' = "healthy"
                PROVE  \E m \in net : ConfirmedBy(n, m)
    OBVIOUS
  <2>1. Node # {n}
    BY DEF Peers
  <2>2. ~IsHealthy(n) /\ IsHealthy(n)'
    BY <2>1, HealthyFollower, HealthyAfter DEF FollowerHealth
  <2>. QED  BY <2>2, StepHealthy
<1>. QED  BY <1>1, AlwaysRebuildInv, PTL DEF RebuildSpec, HealthyConfirmed
=============================================================================
