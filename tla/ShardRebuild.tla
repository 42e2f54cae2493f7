---------------------------- MODULE ShardRebuild ----------------------------
(***************************************************************************)
(* A voter whose shard is replaced by its leader's snapshot (server.py,    *)
(* rebuild.py, storage.py, install_snapshot_metadata), beside the Raft     *)
(* runtimes of the group, which keep electing, heartbeating and appending, *)
(* and the recovery status each runtime reports.                           *)
(*                                                                         *)
(* A rebuild is a coroutine of the voter, suspended in one HTTP read after *)
(* the other: who leads, the leader's manifest, its export, its state      *)
(* again.  It is run by the route ("route") or by the task every process   *)
(* starts with ("auto"), and holds the rebuild lock, the one appends and   *)
(* submissions take, over all its reads.  The snapshot routes of the       *)
(* leader take the leader's lock, so a rebuild waits for the leader's      *)
(* submission while that submission waits for the voter's append.          *)
(***************************************************************************)
EXTENDS RaftProperties, Recovery, SequencesExt

CONSTANTS
  AutoAttempts,   \* attempts of the start-up task (10 in the code)
  MaxRequests,    \* bound: rebuilds asked for through the route
  Rebuilder       \* bound: the voters that are rebuilt

ASSUME RebuildAssumption ==
  AutoAttempts \in Nat \ {0} /\ MaxRequests \in Nat /\ Rebuilder \subseteq Node

\* A document that may be written may be added.
ASSUME AddAssumption == \A c \in Command : [type |-> "add_document", id |-> c.id] \in Command

VARIABLES
  recovery,   \* the recovery fields of every runtime
  rebuild,    \* the locals of a voter's "auto" and "route" coroutine, or Nil
  attempts,   \* attempts the start-up task has left
  requests,   \* rebuild requests so far
  hollow      \* nodes whose collection directory exists and holds no record

rebuildVars == <<recovery, rebuild, attempts, requests, hollow>>
allVars == <<vars, rebuildVars>>

By == {"auto", "route"}

NoManifest == [term |-> 0, index |-> 0]

\* The stages: find and verify look for the leader; manifest, export and confirm read
\* from it under the lock, and install has its last answer on the way; inspect is the
\* start-up task's manifest, before the lock.
NewTask(locked) ==
  [stage |-> "find", locked |-> locked, todo |-> Node, hint |-> Nil, leader |-> Nil,
   broken |-> FALSE, manifest |-> NoManifest, documents |-> {}, hollow |-> FALSE,
   entries |-> <<>>]

\* mutant of Rebuilding: a rebuild does not hold the lock
NeverRebuilding(n) == FALSE

Rebuilding(n) == \E by \in By : rebuild[n][by] # Nil /\ rebuild[n][by].locked

\* The lock of handle_append_entries, of submissions, snapshots and rebuilds.
RebuildLockFree(n) == LockFree(n) /\ ~Rebuilding(n)

\* Every voter of a group of several has a start-up task.
StartupAttempts(n) == IF Cardinality(Node) > 1 /\ n \in Rebuilder THEN AutoAttempts ELSE 0

RebuildInit ==
  /\ Init
  /\ recovery = [n \in Node |-> FreshRecovery]
  /\ rebuild = [n \in Node |-> [by \in By |-> Nil]]
  /\ attempts = [n \in Node |-> StartupAttempts(n)]
  /\ requests = 0
  /\ hollow = {}

Voter(n) ==
  [sole |-> Node = {n}, role |-> role[n], led |-> leaderId[n] # Nil,
   st |-> state[n], length |-> Len(log[n])]

ShardStatus(n) == RecoveryStatus(recovery[n], Voter(n))

-----------------------------------------------------------------------------
(* Documents.                                                              *)

DocumentIds == {c.id : c \in Command}

Documents(records) == {d \in DocumentIds : Present(records, d)}

\* _collections_from_commands: an update of a document that is not there is ignored.
Replayed(commands) ==
  FoldLeft(LAMBDA docs, c : CASE c.type = "add_document" -> docs \cup {c.id}
                              [] c.type = "delete_document" -> docs \ {c.id}
                              [] OTHER -> docs,
           {}, commands)

EntriesUpTo(n, i) == SubSeq(log[n], 1, Smaller(i, Len(log[n])))
CommittedEntries(n) == EntriesUpTo(n, state[n].commitIndex)
CommandsOf(l) == [i \in 1 .. Len(l) |-> l[i].command]

HasCollection(n) == store[n] # <<>> \/ n \in hollow

\* check_replica_integrity against the applied commands.  A collection without documents
\* counts on the side of the files and not on that of the commands.
RequiresRebuild(n) ==
  LET commands == CommandsOf(EntriesUpTo(n, state[n].lastApplied))
  IN  \/ commands # <<>> /\ ~HasCollection(n)
      \/ Documents(store[n]) # Replayed(commands)
      \/ HasCollection(n) /\ Replayed(commands) = {}

\* The file replace_shard_documents writes: one record for each document.
Compacted(docs) == SetToSeq({[type |-> "add_document", id |-> d] : d \in docs})

-----------------------------------------------------------------------------
(* What a node answers to the reads of a rebuild.                          *)

\* _build_local_snapshot serves a leader that applied all it committed, and
\* waits for the lock.
ServesSnapshot(l) ==
  /\ role[l] = "leader"
  /\ state[l].lastApplied >= state[l].commitIndex
  /\ RebuildLockFree(l)

ManifestOf(l) == [term |-> state[l].currentTerm, index |-> state[l].commitIndex]

StillLeads(l, manifest) ==
  /\ role[l] = "leader"
  /\ state[l].currentTerm = manifest.term
  /\ manifest.index <= state[l].commitIndex

-----------------------------------------------------------------------------
(* The coroutines.  `task` is the next value of rebuild[n][by].            *)

Continue(n, by, task) == rebuild' = [rebuild EXCEPT ![n][by] = task]

\* The rebuild raises.  The route marks the shard failed; the start-up task
\* tries again later and marks it only after its last attempt.
Raise(n, by) ==
  /\ Continue(n, by, Nil)
  /\ IF by = "auto"
     THEN /\ attempts' = [attempts EXCEPT ![n] = @ - 1]
          /\ recovery' = IF attempts[n] = 1
                         THEN [recovery EXCEPT ![n] = ReportRecovery(@, "failed")]
                         ELSE recovery
     ELSE /\ recovery' = [recovery EXCEPT ![n] = ReportRecovery(@, "failed")]
          /\ UNCHANGED attempts

\* The start-up task has nothing left to do.
Return(n) ==
  /\ Continue(n, "auto", Nil)
  /\ attempts' = [attempts EXCEPT ![n] = 0]
  /\ UNCHANGED recovery

\* The lock is free: a leader refuses, another voter reports and looks for the leader.
TakeLock(n, by) ==
  IF role[n] = "leader" THEN Raise(n, by)
  ELSE /\ Continue(n, by, NewTask(TRUE))
       /\ recovery' = [recovery EXCEPT ![n] = ReportRecovery(@, "rebuilding")]
       /\ UNCHANGED attempts

WaitForLock(n, by) ==
  /\ Continue(n, by, [NewTask(FALSE) EXCEPT !.stage = "lock"])
  /\ UNCHANGED <<recovery, attempts>>

StartRoute(n) ==
  /\ n \in Rebuilder /\ requests < MaxRequests /\ rebuild[n]["route"] = Nil
  /\ requests' = requests + 1
  /\ WaitForLock(n, "route")
  /\ UNCHANGED <<vars, hollow>>

StartAuto(n) ==
  /\ attempts[n] > 0 /\ rebuild[n]["auto"] = Nil
  /\ IF role[n] = "leader" THEN Return(n)
     ELSE /\ Continue(n, "auto", NewTask(FALSE))
          /\ UNCHANGED <<recovery, attempts>>
  /\ UNCHANGED <<vars, requests, hollow>>

EnterLock(n, by) ==
  /\ rebuild[n][by] # Nil /\ rebuild[n][by].stage = "lock"
  /\ RebuildLockFree(n)
  /\ TakeLock(n, by)
  /\ UNCHANGED <<vars, requests, hollow>>

\* A leader was found.  The start-up task checks its own documents before it
\* asks for the manifest.
Found(n, by, l) ==
  /\ Continue(n, by, [rebuild[n][by] EXCEPT
       !.stage = IF rebuild[n][by].locked THEN "manifest" ELSE "inspect",
       !.todo = {}, !.hint = Nil, !.leader = l,
       !.broken = ~rebuild[n][by].locked /\ RequiresRebuild(n)])
  /\ UNCHANGED <<recovery, attempts>>

\* mutant of NotFound: finding no leader is not an attempt
NotFoundNoAttempt(n, by) ==
  IF rebuild[n][by].locked THEN Raise(n, by)
  ELSE Continue(n, by, Nil) /\ UNCHANGED <<recovery, attempts>>

\* No voter said it led and the hint did not help: the locked rebuild raises,
\* the start-up task's attempt ends.
NotFound(n, by) ==
  IF rebuild[n][by].locked THEN Raise(n, by)
  ELSE /\ Continue(n, by, Nil)
       /\ attempts' = [attempts EXCEPT ![n] = @ - 1]
       /\ UNCHANGED recovery

\* _discover_current_leader asks one voter after the other, itself included.  A
\* voter that leads ends the search; another's leader is kept as a hint.
AskVoter(n, by, p) ==
  LET task == rebuild[n][by]
      others == task.todo \ {p}
  IN  /\ task # Nil /\ task.stage = "find" /\ p \in task.todo
      /\ \E answered \in BOOLEAN :
           LET hint == IF answered /\ leaderId[p] # Nil THEN leaderId[p] ELSE task.hint
           IN  IF answered /\ role[p] = "leader" THEN Found(n, by, p)
               ELSE IF others = {} /\ hint = Nil THEN NotFound(n, by)
               ELSE /\ Continue(n, by, [task EXCEPT !.todo = others, !.hint = hint,
                         !.stage = IF others = {} THEN "verify" ELSE "find"])
                    /\ UNCHANGED <<recovery, attempts>>
      /\ UNCHANGED <<vars, requests, hollow>>

VerifyHint(n, by) ==
  LET task == rebuild[n][by]
  IN  /\ task # Nil /\ task.stage = "verify"
      /\ \/ role[task.hint] = "leader" /\ Found(n, by, task.hint)
         \/ NotFound(n, by)
      /\ UNCHANGED <<vars, requests, hollow>>

\* The start-up task rebuilds a shard whose documents are not those of its log,
\* or one without a log when the leader has a snapshot to give.
Inspect(n) ==
  LET task == rebuild[n]["auto"]
  IN  /\ task # Nil /\ task.stage = "inspect"
      /\ ServesSnapshot(task.leader)
      /\ IF task.broken \/ (log[n] = <<>> /\ ManifestOf(task.leader).index > 0)
         THEN WaitForLock(n, "auto")
         ELSE Return(n)
      /\ UNCHANGED <<vars, requests, hollow>>

ReadManifest(n, by) ==
  LET task == rebuild[n][by]
  IN  /\ task # Nil /\ task.stage = "manifest"
      /\ ServesSnapshot(task.leader)
      /\ Continue(n, by, [task EXCEPT !.stage = "export", !.manifest = ManifestOf(task.leader)])
      /\ UNCHANGED <<vars, recovery, attempts, requests, hollow>>

\* validate_snapshot_payload: the export is of the term and index of the manifest.
ReadExport(n, by) ==
  LET task == rebuild[n][by]
      l == task.leader
  IN  /\ task # Nil /\ task.stage = "export"
      /\ ServesSnapshot(l)
      /\ ManifestOf(l) = task.manifest
      /\ Continue(n, by, [task EXCEPT !.stage = "confirm", !.documents = Documents(store[l]),
           !.hollow = HasCollection(l), !.entries = CommittedEntries(l)])
      /\ UNCHANGED <<vars, recovery, attempts, requests, hollow>>

\* The leader answers that it leads in the manifest's term and has committed the
\* snapshot's entries; it may be another's follower when the answer arrives.
Confirm(n, by) ==
  LET task == rebuild[n][by]
  IN  /\ task # Nil /\ task.stage = "confirm"
      /\ StillLeads(task.leader, task.manifest)
      /\ Continue(n, by, [task EXCEPT !.stage = "install"])
      /\ UNCHANGED <<vars, recovery, attempts, requests, hollow>>

\* A call of the rebuild fails, is refused, or answers what it does not accept.
GiveUp(n, by) ==
  /\ rebuild[n][by] # Nil
  /\ rebuild[n][by].stage \in {"inspect", "manifest", "export", "confirm", "install"}
  /\ Raise(n, by)
  /\ UNCHANGED <<vars, requests, hollow>>

\* mutant of InstalledState: the apply position is kept
InstalledStateKeepsApplied(st, manifest) ==
  [st EXCEPT !.currentTerm = Larger(@, manifest.term), !.commitIndex = manifest.index]

\* install_snapshot_metadata: a raised term does not forget the vote of the lower one.
InstalledState(st, manifest) ==
  [st EXCEPT !.currentTerm = Larger(@, manifest.term),
             !.commitIndex = manifest.index, !.lastApplied = manifest.index]

\* The answer arrived: documents, log and positions are replaced, whatever the role and
\* the term of the node, and those of the leader, have become.
Install(n, by) ==
  LET task == rebuild[n][by]
      st == InstalledState(state[n], task.manifest)
      index == task.manifest.index
  IN  /\ task # Nil /\ task.stage = "install"
      /\ store' = [store EXCEPT ![n] = Compacted(task.documents)]
      /\ hollow' = IF task.hollow /\ task.documents = {} THEN hollow \cup {n} ELSE hollow \ {n}
      /\ log' = [log EXCEPT ![n] = task.entries]
      /\ diskLog' = [diskLog EXCEPT ![n] = task.entries]
      /\ state' = [state EXCEPT ![n] = st]
      /\ diskState' = [diskState EXCEPT ![n] = st]
      /\ leaderId' = [leaderId EXCEPT ![n] = task.leader]
      /\ recovery' = [recovery EXCEPT ![n] =
           ReportRecovery(RecoveryOfInstalled(@, index), "catching_up")]
      /\ Continue(n, by, Nil)
      /\ attempts' = IF by = "auto" THEN [attempts EXCEPT ![n] = 0] ELSE attempts
      /\ UNCHANGED <<role, tasks, net, crashes, history, requests>>

-----------------------------------------------------------------------------
(* The runtimes beside the rebuilds.                                       *)

\* Elections, heartbeats and submissions; a submission waits for the lock.
RuntimeStep(n) ==
  /\ \/ ElectionStep(n)
     \/ HeartbeatStep(n)
     \/ (submit[n] = Nil => ~Rebuilding(n)) /\ SubmitStep(n)
  /\ recovery' = IF Len(progress'[n]) > Len(progress[n])
                 THEN [recovery EXCEPT ![n] = RecoveryOfLeader(@, state[n], Len(log[n]))]
                 ELSE recovery
  /\ UNCHANGED <<rebuild, attempts, requests, hollow>>

Positions(n) == <<Len(log[n]), state[n].commitIndex, state[n].lastApplied>>

\* An append waits for the lock.  An accepted one tells the leader's positions;
\* if it applies, it may confirm that the voter caught up.
ServeAppend(n, m) ==
  /\ ~Rebuilding(n)
  /\ HandleAppendEntries(n, m)
  /\ LET heard == HeardFrom(recovery[n], m)
         st == StateAfterAppend(state[n], log[n], m)
         raises == ApplyRaises(store[n], st, LogAfterAppend(state[n], log[n], m))
         moved == Positions(n)' # Positions(n)
     IN  recovery' = [recovery EXCEPT ![n] =
           IF ~Accepted(state[n], log[n], m) THEN @
           ELSE IF raises THEN heard
           ELSE ConfirmCatchUp(heard, moved, state'[n], Len(log'[n]))]
  /\ UNCHANGED <<rebuild, attempts, requests, hollow>>

\* A new process: nothing of a rebuild is left, and the start-up task begins again.
Forget(n) ==
  /\ recovery' = [recovery EXCEPT ![n] = FreshRecovery]
  /\ rebuild' = [rebuild EXCEPT ![n] = [by \in By |-> Nil]]
  /\ attempts' = [attempts EXCEPT ![n] = StartupAttempts(n)]
  /\ UNCHANGED requests

CrashBeside(n) ==
  /\ \/ Restart(n)
     \/ ~Rebuilding(n) /\ \E m \in net : CrashInAppend(n, m) \/ CrashInSubmit(n, m)
     \/ ~Rebuilding(n) /\ \E c \in Command : CrashInSoleSubmit(n, c)
  /\ Forget(n)
  /\ UNCHANGED hollow

\* Killed in the installation: the documents are the old ones, none (their
\* directory was moved aside and is not put back), or the new ones; with the
\* new documents the log file may be the new one too, the state file is not.
CrashInInstall(n, by) ==
  LET task == rebuild[n][by]
      replaced == Compacted(task.documents)
      nowHollow == task.hollow /\ task.documents = {}
  IN  /\ task # Nil /\ task.stage = "install"
      /\ \E l \in {diskLog[n], task.entries},
            docs \in {[s |-> store[n], h |-> n \in hollow], [s |-> <<>>, h |-> FALSE],
                      [s |-> replaced, h |-> nowHollow]} :
           /\ l # diskLog[n] => docs = [s |-> replaced, h |-> nowHollow]
           /\ Reload(n, diskState[n], l, docs.s)
           /\ hollow' = IF docs.h THEN hollow \cup {n} ELSE hollow \ {n}
      /\ Abandon(OwnCalls(n))
      /\ Forget(n)

-----------------------------------------------------------------------------
RebuildStep(n, by) ==
  \/ EnterLock(n, by)
  \/ \E p \in Node : AskVoter(n, by, p)
  \/ VerifyHint(n, by)
  \/ ReadManifest(n, by)
  \/ ReadExport(n, by)
  \/ Confirm(n, by)
  \/ Install(n, by)
  \/ GiveUp(n, by)
  \/ CrashInInstall(n, by)

RebuildNext ==
  \E n \in Node :
    \/ StartRoute(n)
    \/ StartAuto(n)
    \/ Inspect(n)
    \/ \E by \in By : RebuildStep(n, by)
    \/ RuntimeStep(n)
    \/ \E m \in net : ServeAppend(n, m)
    \/ CrashBeside(n)

RebuildSpec == RebuildInit /\ [][RebuildNext]_allVars

-----------------------------------------------------------------------------
(* What is claimed of rebuilds.                                            *)

\* Until a crash, the documents of a voter are those its applied log entries
\* leave, whether they came as entries or in a snapshot taken while the leader
\* went on writing.
DocumentsMatchLog ==
  crashes = 0 => \A n \in Node : Documents(store[n]) = Replayed(CommandsOf(Applied(n)))

KeepsCommitted(n) ==
  \A i \in 1 .. state[n].commitIndex : i <= Len(log'[n]) /\ log'[n][i] = log[n][i]

\* A snapshot takes nothing back that the voter had committed.  The failover guide
\* promises it of every snapshot; it is true of neither kind below.
SnapshotKeepsCommitted == [][\A n \in Node, by \in By : Install(n, by) => KeepsCommitted(n)]_allVars

\* The snapshot ends with an entry of its leader's own term: the leader's commit
\* position is not behind that of the leaders before it.
OfOwnTerm(n, by) == LastTerm(rebuild[n][by].entries) = rebuild[n][by].manifest.term

\* The voter has not heard of a term after that of the snapshot's leader.
NotSuperseded(n, by) == rebuild[n][by].manifest.term >= state[n].currentTerm

\* A snapshot of its leader's own term, which the voter has not passed, takes nothing
\* back that the voter had committed, whatever happened between its reads.
InstallKeepsCommitted ==
  [][\A n \in Node, by \in By :
       Install(n, by) /\ OfOwnTerm(n, by) /\ NotSuperseded(n, by) => KeepsCommitted(n)]_allVars

\* The voter has, committed and applied all that the append tells of its leader.
HasAllOf(n, m) ==
  /\ Len(log[n]) >= m.prevLogIndex + Len(m.entries)
  /\ state[n].commitIndex >= m.leaderCommit
  /\ state[n].lastApplied >= state[n].commitIndex

\* An append of the leader the voter follows from now on, which leaves its positions as
\* they were: an accepted one, of which it has everything; or a refused one, which is the
\* first the voter hears of the leader and leaves it with the positions of an earlier
\* leader, or none, that it is not behind.
ConfirmedBy(n, m) ==
  /\ m.type = "AppendEntries" /\ m.dest = n
  /\ leaderId'[n] = m.source /\ state'[n].currentTerm = m.term
  /\ Positions(n)' = Positions(n)
  /\ IF Accepted(state[n], log[n], m) THEN HasAllOf(n, m)
     ELSE leaderId[n] = Nil /\ ~Behind(recovery[n], state[n], Len(log[n]))

\* A follower of a group of several turns healthy only with such an append: not with the
\* one that brought it up to date, nor with a snapshot, after a crash, or as a rebuild or
\* a submission of its own ends.
HealthyConfirmed ==
  [][\A n \in Node :
       /\ Peers(n) # {} /\ role[n] = "follower" /\ role'[n] = "follower"
       /\ ShardStatus(n) # "healthy" /\ ShardStatus(n)' = "healthy"
       => \E m \in net : ConfirmedBy(n, m)]_allVars

\* Every rebuild ends and the start-up task runs out of attempts, though a rebuild
\* and its leader's submission may each wait for the lock the other one holds.
RebuildsEnd ==
  \A n \in Node : <>[](attempts[n] = 0 /\ \A by \in By : rebuild[n][by] = Nil)
=============================================================================
