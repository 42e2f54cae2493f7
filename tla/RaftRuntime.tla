---------------------------- MODULE RaftRuntime -----------------------------
(***************************************************************************)
(* The Raft runtimes of one shard group (raft_runtime.py and the node      *)
(* routes of server.py that call it): one RaftRuntime object per voter,    *)
(* its durable files, and the HTTP calls between them.                     *)
(*                                                                         *)
(* Each process is a single asyncio event loop, so the code between two    *)
(* awaits is one atomic step.  The interleavings are those of the          *)
(* coroutines that are suspended in an HTTP call: the election loop        *)
(* ("election"), the heartbeat loop's one task per peer ("heartbeat") and  *)
(* the route that submits a client's command ("submit").  A call is in     *)
(* `net` from the moment its request is posted until its caller reads the  *)
(* answer or gives up; a request whose caller gave up may still be served  *)
(* later (task "none").                                                    *)
(***************************************************************************)
EXTENDS RaftCore

CONSTANTS
  MaxTerm,      \* bound: no campaign beyond this term
  MaxLog,       \* bound: no command is submitted to a log this long
  MaxCrashes,   \* bound: process crashes in a behaviour
  MaxOrphans    \* bound: abandoned requests still on their way

ASSUME BoundAssumption ==
  MaxTerm \in Nat /\ MaxLog \in Nat /\ MaxCrashes \in Nat /\ MaxOrphans \in Nat

Progress == [nextIndex : Nat \ {0}, matchIndex : Nat]
Campaign == [term : Nat, votes : SUBSET Node]
SubmittedEntry == [index : Nat, term : Nat, command : Command]
Submission == [entry : SubmittedEntry, replicated : SUBSET Node, todo : SUBSET Node]

ASSUME NilIsNoTask == Nil \notin Campaign /\ Nil \notin Submission

VARIABLES
  state,       \* core.state: the durable record, in memory
  log,         \* core.log, in memory
  role,        \* core.role
  leaderId,    \* core.leader_id
  progress,    \* every peer_progress dict the process made, the current one last
  election,    \* start_election's locals while it waits for votes, or Nil
  beats,       \* peers whose heartbeat task is created and has not run yet
  submit,      \* submit_command's locals while it holds the lock, or Nil
  diskState,   \* state.json
  diskLog,     \* log.jsonl
  store,       \* the shard's document records, in the order they were written
  net,         \* HTTP requests and answers
  crashes,     \* crashes so far
  ballots,     \* history: votes granted
  wins,        \* history: elections won, by the term campaigned for
  acked        \* history: entries whose submission was answered "ok"

core == <<state, log, role, leaderId>>
tasks == <<progress, election, beats, submit>>
disk == <<diskState, diskLog, store>>
history == <<ballots, wins, acked>>
vars == <<state, log, role, leaderId, progress, election, beats, submit,
          diskState, diskLog, store, net, crashes, ballots, wins, acked>>

-----------------------------------------------------------------------------
(* Messages.                                                               *)

Term == Nat
Index == Nat

RequestVote ==
  [type : {"RequestVote"}, task : {"election", "none"}, source : Node, dest : Node,
   term : Term, lastLogIndex : Index, lastLogTerm : Term]

VoteReply ==
  [type : {"VoteReply"}, task : {"election"}, source : Node, dest : Node,
   term : Term, granted : BOOLEAN]

AppendEntries ==
  [type : {"AppendEntries"}, task : {"heartbeat", "submit", "none"}, gen : Nat,
   source : Node, dest : Node, term : Term, prevLogIndex : Index, prevLogTerm : Term,
   entries : Seq(Entry), leaderCommit : Index]

AppendReply ==
  [type : {"AppendReply"}, task : {"heartbeat", "submit"}, gen : Nat,
   source : Node, dest : Node, term : Term, success : BOOLEAN, matchIndex : Index]

\* A handler that raised, or a process that died in it: the caller sees an HTTP error.
ServerError ==
  [type : {"ServerError"}, task : {"heartbeat", "submit"}, source : Node, dest : Node]

Message == RequestVote \cup VoteReply \cup AppendEntries \cup AppendReply \cup ServerError

IsRequest(m) == m.type \in {"RequestVote", "AppendEntries"}

Caller(m) == IF IsRequest(m) THEN m.source ELSE m.dest

Calls(n, task) == {m \in net : m.task = task /\ Caller(m) = n}

Answer(m, reply) == (net \ {m}) \cup (IF m.task = "none" THEN {} ELSE {reply})

Orphan(m) == [m EXCEPT !.task = "none"]

\* What may be left on the network of calls whose caller gives up.
Leftovers(calls) ==
  {left \in SUBSET {Orphan(m) : m \in {c \in calls : IsRequest(c)}} :
     Cardinality(left \cup {m \in net : m.task = "none"}) <= MaxOrphans}

\* The caller gives up on `calls`.
Abandon(calls) == \E left \in Leftovers(calls) : net' = (net \ calls) \cup left

AppendPayload(n, p, task, gen, nextIndex, st, l) ==
  [type |-> "AppendEntries", task |-> task, gen |-> gen, source |-> n, dest |-> p,
   term |-> st.currentTerm, prevLogIndex |-> nextIndex - 1,
   prevLogTerm |-> TermAt(l, nextIndex - 1), entries |-> EntriesFrom(l, nextIndex),
   leaderCommit |-> st.commitIndex]

-----------------------------------------------------------------------------
Peers(n) == Node \ {n}

Init ==
  /\ state = [n \in Node |-> InitialState]
  /\ log = [n \in Node |-> <<>>]
  /\ role = [n \in Node |-> "follower"]
  /\ leaderId = [n \in Node |-> Nil]
  /\ progress = [n \in Node |-> <<>>]
  /\ election = [n \in Node |-> Nil]
  /\ beats = [n \in Node |-> {}]
  /\ submit = [n \in Node |-> Nil]
  /\ diskState = [n \in Node |-> InitialState]
  /\ diskLog = [n \in Node |-> <<>>]
  /\ store = [n \in Node |-> <<>>]
  /\ net = {}
  /\ crashes = 0
  /\ ballots = {}
  /\ wins = {}
  /\ acked = {}

-----------------------------------------------------------------------------
(* Elections.                                                              *)

Ballot(term, voter, candidate) == [term |-> term, voter |-> voter, candidate |-> candidate]

Campaigning(n) ==
  [state[n] EXCEPT !.currentTerm = @ + 1, !.votedFor = n]

VoteRequest(n, p, st) ==
  [type |-> "RequestVote", task |-> "election", source |-> n, dest |-> p,
   term |-> st.currentTerm, lastLogIndex |-> Len(log[n]), lastLogTerm |-> LastTerm(log[n])]

\* mutant of BecomeLeader: the next index is that of the last entry
BecomeLeaderAtLastIndex(n, campaignTerm) ==
  /\ role' = [role EXCEPT ![n] = "leader"]
  /\ leaderId' = [leaderId EXCEPT ![n] = n]
  /\ progress' = [progress EXCEPT ![n] =
       Append(@, [p \in Peers(n) |-> [nextIndex |-> Len(log[n]), matchIndex |-> 0]])]
  /\ wins' = wins \cup {[term |-> campaignTerm, node |-> n]}

\* _become_leader: the role is taken whatever the node's role and term are by
\* now, and every peer's progress starts afresh in a new dict.
BecomeLeader(n, campaignTerm) ==
  /\ role' = [role EXCEPT ![n] = "leader"]
  /\ leaderId' = [leaderId EXCEPT ![n] = n]
  /\ progress' = [progress EXCEPT ![n] =
       Append(@, [p \in Peers(n) |-> [nextIndex |-> Len(log[n]) + 1, matchIndex |-> 0]])]
  /\ wins' = wins \cup {[term |-> campaignTerm, node |-> n]}

\* The election timer fired.  The loop runs one campaign at a time.
StartElection(n) ==
  /\ role[n] # "leader"
  /\ election[n] = Nil
  /\ state[n].currentTerm < MaxTerm
  /\ LET st == Campaigning(n)
     IN  /\ state' = [state EXCEPT ![n] = st]
         /\ diskState' = [diskState EXCEPT ![n] = st]
         /\ ballots' = ballots \cup {Ballot(st.currentTerm, n, n)}
         /\ IF Majority = 1
            THEN /\ BecomeLeader(n, st.currentTerm)
                 /\ UNCHANGED <<election, net>>
            ELSE /\ role' = [role EXCEPT ![n] = "candidate"]
                 /\ leaderId' = [leaderId EXCEPT ![n] = Nil]
                 /\ election' = [election EXCEPT ![n] = [term |-> st.currentTerm, votes |-> {n}]]
                 /\ net' = net \cup {VoteRequest(n, p, st) : p \in Peers(n)}
                 /\ UNCHANGED <<progress, wins>>
  /\ UNCHANGED <<log, beats, submit, diskLog, store, crashes, acked>>

\* The route takes no lock: it runs between any two steps of the node's own tasks.
HandleRequestVote(n, m) ==
  /\ m.type = "RequestVote" /\ m.dest = n
  /\ LET st == StateAfterVote(state[n], log[n], m)
         granted == Grants(state[n], log[n], m)
         newTerm == m.term > state[n].currentTerm
     IN  /\ state' = [state EXCEPT ![n] = st]
         /\ diskState' = [diskState EXCEPT ![n] = st]
         /\ role' = IF newTerm THEN [role EXCEPT ![n] = "follower"] ELSE role
         /\ leaderId' = IF newTerm THEN [leaderId EXCEPT ![n] = Nil] ELSE leaderId
         /\ ballots' = IF granted THEN ballots \cup {Ballot(m.term, n, m.source)} ELSE ballots
         /\ net' = Answer(m, [type |-> "VoteReply", task |-> "election", source |-> n,
                              dest |-> m.source, term |-> st.currentTerm, granted |-> granted])
  /\ UNCHANGED <<log, progress, election, beats, submit, diskLog, store, crashes, wins, acked>>

\* A higher term in an answer ends the campaign.
LoseElection(n, m) ==
  /\ m.term > state[n].currentTerm
  /\ state' = [state EXCEPT ![n] = Observe(@, m.term)]
  /\ diskState' = [diskState EXCEPT ![n] = Observe(state[n], m.term)]
  /\ role' = [role EXCEPT ![n] = "follower"]
  /\ election' = [election EXCEPT ![n] = Nil]
  /\ Abandon(Calls(n, "election"))
  /\ UNCHANGED <<leaderId, progress, ballots, wins>>

\* mutant of Votes: a refusal counts
VotesAndRefusals(n, m) == election[n].votes \cup {m.source}

Votes(n, m) == IF m.granted THEN election[n].votes \cup {m.source} ELSE election[n].votes

\* The last vote needed: the role and the term the node has now are not looked at.
WinElection(n, m) ==
  /\ m.term <= state[n].currentTerm
  /\ Cardinality(Votes(n, m)) >= Majority
  /\ BecomeLeader(n, election[n].term)
  /\ election' = [election EXCEPT ![n] = Nil]
  /\ Abandon(Calls(n, "election"))
  /\ UNCHANGED <<state, diskState, ballots>>

\* mutant of AwaitVotes: the first answer without a verdict ends the campaign
AwaitOneVote(n, votes, answered) ==
  /\ election' = [election EXCEPT ![n] = Nil]
  /\ UNCHANGED <<state, role, leaderId, progress, diskState, ballots, wins>>

AwaitVotes(n, votes, answered) ==
  /\ election' = [election EXCEPT ![n] =
       IF Calls(n, "election") = {answered} THEN Nil ELSE [@ EXCEPT !.votes = votes]]
  /\ UNCHANGED <<state, role, leaderId, progress, diskState, ballots, wins>>

CountVote(n, m) ==
  /\ m.term <= state[n].currentTerm
  /\ Cardinality(Votes(n, m)) < Majority
  /\ AwaitVotes(n, Votes(n, m), m)
  /\ net' = net \ {m}

HandleVoteReply(n, m) ==
  /\ m.type = "VoteReply" /\ m.dest = n
  /\ LoseElection(n, m) \/ WinElection(n, m) \/ CountVote(n, m)
  /\ UNCHANGED <<log, beats, submit, diskLog, store, crashes, acked>>

\* The HTTP call of one vote request fails (None in the code).
VoteCallFails(n, m) ==
  /\ m \in Calls(n, "election")
  /\ AwaitVotes(n, election[n].votes, m)
  /\ Abandon({m})
  /\ UNCHANGED <<log, beats, submit, diskLog, store, crashes, acked>>

-----------------------------------------------------------------------------
(* Serving append_entries.                                                 *)

\* mutant of LockFree: append_entries does not take the lock
LockIgnored(n) == TRUE

\* The rebuild lock is free: the node's own submission holds it to its end.
LockFree(n) == submit[n] = Nil

AppendAnswer(n, m, l, st) ==
  [type |-> "AppendReply", task |-> m.task, gen |-> m.gen, source |-> n, dest |-> m.source,
   term |-> st.currentTerm, success |-> Accepted(state[n], log[n], m), matchIndex |-> Len(l)]

Failure(n, m) == [type |-> "ServerError", task |-> m.task, source |-> n, dest |-> m.source]

\* The log file is written first; if applying a newly committed entry raises,
\* the state file is not written and the caller gets an HTTP error.
HandleAppendEntries(n, m) ==
  /\ m.type = "AppendEntries" /\ m.dest = n
  /\ LockFree(n)
  /\ LET l == LogAfterAppend(state[n], log[n], m)
         st == StateAfterAppend(state[n], log[n], m)
         applies == Accepted(state[n], log[n], m)
         raises == applies /\ ApplyRaises(store[n], st, l)
         end == IF applies THEN StateAfterApply(store[n], st, l) ELSE st
     IN  /\ log' = [log EXCEPT ![n] = l]
         /\ diskLog' = [diskLog EXCEPT ![n] = l]
         /\ state' = [state EXCEPT ![n] = end]
         /\ store' = IF applies THEN [store EXCEPT ![n] = StoreAfterApply(@, st, l)] ELSE store
         /\ diskState' = IF raises THEN diskState ELSE [diskState EXCEPT ![n] = end]
         /\ net' = Answer(m, IF raises THEN Failure(n, m) ELSE AppendAnswer(n, m, l, end))
  /\ IF Stale(state[n], m)
     THEN UNCHANGED <<role, leaderId>>
     ELSE /\ role' = [role EXCEPT ![n] = "follower"]
          /\ leaderId' = [leaderId EXCEPT ![n] = m.source]
  /\ UNCHANGED <<tasks, crashes, history>>

-----------------------------------------------------------------------------
(* Replication: _replicate_to_peer, one call at a time, on behalf of a     *)
(* heartbeat or of a submission.  A payload is built from the term, log    *)
(* and commit index the node has at that moment, whatever its role is.     *)

Current(n) == Len(progress[n])

Larger(a, b) == IF a >= b THEN a ELSE b

\* mutant of ProgressAfter: a rejection does not go back an entry
ProgressStuck(n, m) ==
  IF m.success
  THEN [progress EXCEPT ![n][m.gen][m.source] =
          [nextIndex |-> m.matchIndex + 1, matchIndex |-> m.matchIndex]]
  ELSE progress

\* The progress object the call holds, which may belong to an earlier dict.
ProgressAfter(n, m) ==
  LET held == progress[n][m.gen][m.source]
      next == IF m.success
              THEN [nextIndex |-> m.matchIndex + 1, matchIndex |-> m.matchIndex]
              ELSE [held EXCEPT !.nextIndex = Larger(1, held.nextIndex - 1)]
  IN  [progress EXCEPT ![n][m.gen][m.source] = next]

Deposes(n, m) == m.term > state[n].currentTerm

\* mutants of StepDown: the role, or the leader named to clients, is kept
StepDownKeepsRole(n) == leaderId' = [leaderId EXCEPT ![n] = Nil] /\ UNCHANGED role
StepDownKeepsHint(n) == role' = [role EXCEPT ![n] = "follower"] /\ UNCHANGED leaderId

\* A higher term in an answer: the node follows, and the call returns False.
StepDown(n) ==
  /\ role' = [role EXCEPT ![n] = "follower"]
  /\ leaderId' = [leaderId EXCEPT ![n] = Nil]

\* A rejected payload is rebuilt one entry earlier and posted again at once.
RetryPayload(n, m) ==
  AppendPayload(n, m.source, m.task, m.gen,
    ProgressAfter(n, m)[n][m.gen][m.source].nextIndex, state[n], log[n])

Retry(n, m) ==
  /\ ~Deposes(n, m) /\ ~m.success
  /\ progress' = ProgressAfter(n, m)
  /\ net' = (net \ {m}) \cup {RetryPayload(n, m)}
  /\ UNCHANGED <<state, role, leaderId, submit, diskState, store, acked>>

\* The heartbeat loop checks the role once and creates a task for every peer;
\* the next round starts when this one's calls are answered or cancelled.
Heartbeat(n) ==
  /\ role[n] = "leader"
  /\ beats[n] = {} /\ Calls(n, "heartbeat") = {}
  /\ Peers(n) # {}
  /\ beats' = [beats EXCEPT ![n] = Peers(n)]
  /\ UNCHANGED <<core, progress, election, submit, disk, net, crashes, history>>

\* A heartbeat task runs to its first await.
SendHeartbeat(n, p) ==
  /\ p \in beats[n]
  /\ beats' = [beats EXCEPT ![n] = @ \ {p}]
  /\ net' = net \cup {AppendPayload(n, p, "heartbeat", Current(n),
                        progress[n][Current(n)][p].nextIndex, state[n], log[n])}
  /\ UNCHANGED <<core, progress, election, submit, disk, crashes, history>>

EndHeartbeat(n, m) ==
  /\ ~Deposes(n, m) /\ m.success
  /\ progress' = ProgressAfter(n, m)
  /\ net' = net \ {m}
  /\ UNCHANGED <<state, role, leaderId, submit, diskState, store, acked>>

DeposedByHeartbeat(n, m) ==
  /\ Deposes(n, m)
  /\ state' = [state EXCEPT ![n] = Observe(@, m.term)]
  /\ diskState' = [diskState EXCEPT ![n] = Observe(state[n], m.term)]
  /\ StepDown(n)
  /\ net' = net \ {m}
  /\ UNCHANGED <<progress, submit, store, acked>>

HandleHeartbeatReply(n, m) ==
  /\ m.type = "AppendReply" /\ m.task = "heartbeat" /\ m.dest = n
  /\ EndHeartbeat(n, m) \/ DeposedByHeartbeat(n, m) \/ Retry(n, m)
  /\ UNCHANGED <<log, election, beats, diskLog, crashes, ballots, wins>>

\* The call fails, or the round's time is up and the task is cancelled.
HeartbeatCallFails(n, m) ==
  /\ m \in Calls(n, "heartbeat")
  /\ Abandon({m})
  /\ UNCHANGED <<core, tasks, disk, crashes, history>>

-----------------------------------------------------------------------------
(* Submitting a command.  `s` holds the locals of _submit_command_locked:  *)
(* the entry, the peers that count as replicated, the peers still to call. *)

\* The loop goes on to the next peer, whether or not the node still leads.
CallNextPeer(n, s, l, st, prog, base) ==
  \E p \in s.todo :
    /\ submit' = [submit EXCEPT ![n] = [s EXCEPT !.todo = @ \ {p}]]
    /\ net' = base \cup {AppendPayload(n, p, "submit", Current(n),
                           prog[n][Current(n)][p].nextIndex, st, l)}
    /\ UNCHANGED <<store, acked>>

\* The loop is over: no majority leaves the entry in the log; a majority
\* commits it, applies and saves, unless applying raises.
EndSubmit(n, s, l, st, ds) ==
  LET committed == [st EXCEPT !.commitIndex = s.entry.index]
      raises == ApplyRaises(store[n], committed, l)
      end == StateAfterApply(store[n], committed, l)
  IN  /\ s.todo = {}
      /\ submit' = [submit EXCEPT ![n] = Nil]
      /\ IF Cardinality(s.replicated) + 1 < Majority
         THEN /\ state' = [state EXCEPT ![n] = st]
              /\ diskState' = [diskState EXCEPT ![n] = ds]
              /\ UNCHANGED <<store, acked>>
         ELSE /\ state' = [state EXCEPT ![n] = end]
              /\ store' = [store EXCEPT ![n] = StoreAfterApply(@, committed, l)]
              /\ diskState' = [diskState EXCEPT ![n] = IF raises THEN ds ELSE end]
              /\ acked' = IF raises THEN acked ELSE acked \cup {s.entry}

NewSubmission(n, c, term) ==
  [entry |-> [index |-> Len(log[n]) + 1, term |-> term, command |-> c],
   replicated |-> {}, todo |-> Peers(n)]

\* The leader appends the command to its log and calls the first peer.
SubmitCommand(n, c) ==
  /\ role[n] = "leader"
  /\ LockFree(n)
  /\ Len(log[n]) < MaxLog
  /\ LET s == NewSubmission(n, c, state[n].currentTerm)
         l == Append(log[n], [term |-> state[n].currentTerm, command |-> c])
     IN  /\ log' = [log EXCEPT ![n] = l]
         /\ diskLog' = [diskLog EXCEPT ![n] = l]
         /\ \/ /\ CallNextPeer(n, s, l, state[n], progress, net)
               /\ UNCHANGED <<state, diskState>>
            \/ /\ EndSubmit(n, s, l, state[n], diskState[n])
               /\ UNCHANGED net
  /\ UNCHANGED <<role, leaderId, progress, election, beats, crashes, ballots, wins>>

\* The route of a group with one voter first lets it elect itself.
SubmitToSoleVoter(n, c) ==
  /\ Node = {n} /\ role[n] # "leader"
  /\ LockFree(n)
  /\ Len(log[n]) < MaxLog /\ state[n].currentTerm < MaxTerm
  /\ LET st == Campaigning(n)
         s == NewSubmission(n, c, st.currentTerm)
         l == Append(log[n], [term |-> st.currentTerm, command |-> c])
     IN  /\ BecomeLeader(n, st.currentTerm)
         /\ ballots' = ballots \cup {Ballot(st.currentTerm, n, n)}
         /\ log' = [log EXCEPT ![n] = l]
         /\ diskLog' = [diskLog EXCEPT ![n] = l]
         /\ EndSubmit(n, s, l, st, st)
  /\ UNCHANGED <<election, beats, net, crashes>>

\* A call of the submission returned; the loop goes on with these values.
Resume(n, replicated, st, ds, prog, base) ==
  LET s == [submit[n] EXCEPT !.replicated = replicated]
  IN  \/ /\ CallNextPeer(n, s, log[n], st, prog, base)
         /\ state' = [state EXCEPT ![n] = st]
         /\ diskState' = [diskState EXCEPT ![n] = ds]
      \/ /\ EndSubmit(n, s, log[n], st, ds)
         /\ net' = base

\* A peer counts when the progress the node holds for it now reaches the entry.
Replicated(n, m) ==
  IF ProgressAfter(n, m)[n][Current(n)][m.source].matchIndex >= submit[n].entry.index
  THEN submit[n].replicated \cup {m.source}
  ELSE submit[n].replicated

Replicate(n, m) ==
  /\ ~Deposes(n, m) /\ m.success
  /\ progress' = ProgressAfter(n, m)
  /\ Resume(n, Replicated(n, m), state[n], diskState[n], ProgressAfter(n, m), net \ {m})
  /\ UNCHANGED <<role, leaderId>>

DeposedBySubmit(n, m) ==
  /\ Deposes(n, m)
  /\ StepDown(n)
  /\ LET st == Observe(state[n], m.term)
     IN  Resume(n, submit[n].replicated, st, st, progress, net \ {m})
  /\ UNCHANGED progress

HandleSubmitReply(n, m) ==
  /\ m.type = "AppendReply" /\ m.task = "submit" /\ m.dest = n
  /\ Replicate(n, m) \/ DeposedBySubmit(n, m) \/ Retry(n, m)
  /\ UNCHANGED <<log, election, beats, diskLog, crashes, ballots, wins>>

SubmitCallFails(n, m) ==
  /\ m \in Calls(n, "submit")
  /\ \E left \in Leftovers({m}) :
       Resume(n, submit[n].replicated, state[n], diskState[n], progress, (net \ {m}) \cup left)
  /\ UNCHANGED <<log, role, leaderId, progress, election, beats, diskLog, crashes, ballots, wins>>

-----------------------------------------------------------------------------
(* Crashes.  A process that dies loses its memory and its calls and starts *)
(* again from its files; requests to it wait or fail like any others.      *)

OwnCalls(n) == Calls(n, "election") \cup Calls(n, "heartbeat") \cup Calls(n, "submit")

\* The new process reads the files, which the dying one left as `ds`, `l`, `docs`.
Reload(n, ds, l, docs) ==
  /\ crashes < MaxCrashes
  /\ crashes' = crashes + 1
  /\ state' = [state EXCEPT ![n] = ds]
  /\ diskState' = [diskState EXCEPT ![n] = ds]
  /\ log' = [log EXCEPT ![n] = l]
  /\ diskLog' = [diskLog EXCEPT ![n] = l]
  /\ store' = [store EXCEPT ![n] = docs]
  /\ role' = [role EXCEPT ![n] = "follower"]
  /\ leaderId' = [leaderId EXCEPT ![n] = Nil]
  /\ progress' = [progress EXCEPT ![n] = <<>>]
  /\ election' = [election EXCEPT ![n] = Nil]
  /\ beats' = [beats EXCEPT ![n] = {}]
  /\ submit' = [submit EXCEPT ![n] = Nil]
  /\ UNCHANGED history

\* mutants of Restart: the vote is not in the state file, the log file is not read
RestartForgetsVote(n) ==
  /\ Reload(n, [diskState[n] EXCEPT !.votedFor = Nil], diskLog[n], store[n])
  /\ Abandon(OwnCalls(n))

RestartWithoutLog(n) ==
  /\ Reload(n, diskState[n], <<>>, store[n])
  /\ Abandon(OwnCalls(n))

Restart(n) ==
  /\ Reload(n, diskState[n], diskLog[n], store[n])
  /\ Abandon(OwnCalls(n))

\* Killed in handle_append_entries: the log file and some documents are
\* written, the state file is not.
CrashInAppend(n, m) ==
  /\ m.type = "AppendEntries" /\ m.dest = n
  /\ LockFree(n)
  /\ Accepted(state[n], log[n], m)
  /\ LET l == LogAfterAppend(state[n], log[n], m)
         st == StateAfterAppend(state[n], log[n], m)
         batch == Unapplied(st, l)
     IN  \E k \in 0 .. AppliedCount(store[n], batch) :
           Reload(n, diskState[n], l, store[n] \o SubSeq(batch, 1, k))
  /\ \E left \in Leftovers(OwnCalls(n)) :
       net' = (Answer(m, Failure(n, m)) \ OwnCalls(n)) \cup left

\* Killed at the end of submit_command, whose last call was answered or
\* failed: some documents are written, the state file is not (it holds the
\* term of the answer, if that deposed the node).
CrashInSubmit(n, m) ==
  /\ m \in Calls(n, "submit")
  /\ submit[n].todo = {}
  /\ \E answered \in {m.type = "AppendReply", FALSE} :
       LET deposed == answered /\ Deposes(n, m)
           counted == answered /\ ~Deposes(n, m) /\ m.success
           replicated == IF counted THEN Replicated(n, m) ELSE submit[n].replicated
           st == IF deposed THEN Observe(state[n], m.term) ELSE state[n]
           batch == Unapplied([st EXCEPT !.commitIndex = submit[n].entry.index], log[n])
       IN  /\ answered => deposed \/ counted
           /\ Cardinality(replicated) + 1 >= Majority
           /\ \E k \in 1 .. AppliedCount(store[n], batch) :
                Reload(n, IF deposed THEN st ELSE diskState[n], diskLog[n],
                       store[n] \o SubSeq(batch, 1, k))
  /\ Abandon(OwnCalls(n))

\* A sole voter waits for no call: killed in submit_command, the entry is in its log
\* file and so are some documents, the state file is the one from before.
CrashInSoleSubmit(n, c) ==
  /\ Node = {n} /\ role[n] = "leader"
  /\ LockFree(n)
  /\ Len(log[n]) < MaxLog
  /\ LET l == Append(log[n], [term |-> state[n].currentTerm, command |-> c])
         batch == Unapplied([state[n] EXCEPT !.commitIndex = Len(l)], l)
     IN  \E k \in 0 .. AppliedCount(store[n], batch) :
           Reload(n, diskState[n], l, store[n] \o SubSeq(batch, 1, k))
  /\ Abandon(OwnCalls(n))

-----------------------------------------------------------------------------
ElectionStep(n) ==
  \/ StartElection(n)
  \/ \E m \in net : HandleRequestVote(n, m) \/ HandleVoteReply(n, m) \/ VoteCallFails(n, m)

HeartbeatStep(n) ==
  \/ Heartbeat(n)
  \/ \E p \in Peers(n) : SendHeartbeat(n, p)
  \/ \E m \in net : HandleHeartbeatReply(n, m) \/ HeartbeatCallFails(n, m)

SubmitStep(n) ==
  \/ \E c \in Command : SubmitCommand(n, c) \/ SubmitToSoleVoter(n, c)
  \/ \E m \in net : HandleSubmitReply(n, m) \/ SubmitCallFails(n, m)

AppendStep(n) == \E m \in net : HandleAppendEntries(n, m)

CrashStep(n) ==
  \/ Restart(n)
  \/ \E m \in net : CrashInAppend(n, m) \/ CrashInSubmit(n, m)
  \/ \E c \in Command : CrashInSoleSubmit(n, c)

Next ==
  \E n \in Node :
    \/ ElectionStep(n)
    \/ HeartbeatStep(n)
    \/ SubmitStep(n)
    \/ CrashStep(n)
    \/ AppendStep(n)

Spec == Init /\ [][Next]_vars
=============================================================================
