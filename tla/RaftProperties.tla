--------------------------- MODULE RaftProperties ---------------------------
(***************************************************************************)
(* What is claimed of RaftRuntime.  The first group holds of every         *)
(* behaviour.  The second group is Raft's own safety: it holds while no    *)
(* node changes its role or term with one of its own tasks suspended       *)
(* (Attentive), and fails of the code otherwise.                           *)
(***************************************************************************)
EXTENDS RaftRuntime

\* The elections in the history of the votes granted and the elections won.
E == INSTANCE Elections WITH Node <- Node, ballots <- ballots, wins <- wins

-----------------------------------------------------------------------------
TypeCore ==
  /\ state \in [Node -> DurableState]
  /\ log \in [Node -> Seq(Entry)]
  /\ role \in [Node -> Role]
  /\ leaderId \in [Node -> Node \cup {Nil}]
  /\ diskState \in [Node -> DurableState]
  /\ diskLog \in [Node -> Seq(Entry)]
  /\ store \in [Node -> Seq(Command)]

TypeTasks ==
  /\ DOMAIN progress = Node
  /\ \A n \in Node : progress[n] \in Seq([Peers(n) -> Progress])
  /\ election \in [Node -> {Nil} \cup Campaign]
  /\ beats \in [Node -> SUBSET Node]
  /\ submit \in [Node -> {Nil} \cup Submission]

TypeNet == \A m \in net : m \in Message

TypeHistory ==
  /\ crashes \in 0 .. MaxCrashes
  /\ ballots \subseteq E!Ballot
  /\ wins \subseteq E!Win
  /\ \A e \in acked : e \in SubmittedEntry

\* The type of every variable: of the four groups above.
TypeOK == TypeCore /\ TypeTasks /\ TypeNet /\ TypeHistory

-----------------------------------------------------------------------------
(* Every call on the network belongs to a task that waits for it.          *)

NoSelfCall == \A m \in net : m.source # m.dest

ElectionAwaits == \A m \in net : m.task = "election" => election[Caller(m)] # Nil

SubmitAwaits == \A m \in net : m.task = "submit" => submit[Caller(m)] # Nil

OneSubmitCall ==
  \A a, b \in net : a.task = "submit" /\ b.task = "submit" /\ Caller(a) = Caller(b) => a = b

ProgressHeld ==
  \A m \in net :
    m.type \in {"AppendEntries", "AppendReply"} /\ m.task # "none"
      => m.gen \in 1 .. Len(progress[Caller(m)])

ReplicatorsTrack ==
  \A n \in Node :
    role[n] = "leader" \/ beats[n] # {} \/ submit[n] # Nil => progress[n] # <<>>

PeersOnly ==
  \A n \in Node :
    /\ beats[n] \subseteq Peers(n)
    /\ submit[n] # Nil => submit[n].todo \subseteq Peers(n)

\* No answer reaches a task that has ended: a call is on the network only while
\* its election or its submission waits, a submission has one call at a time,
\* and the progress object a call holds exists as long as the call does.
CallsTracked ==
  /\ NoSelfCall
  /\ ElectionAwaits
  /\ SubmitAwaits
  /\ OneSubmitCall
  /\ ProgressHeld
  /\ ReplicatorsTrack
  /\ PeersOnly

-----------------------------------------------------------------------------
(* Every behaviour.                                                        *)

\* A node grants at most one candidate its vote in a term, however its own
\* campaigns, its unlocked request_vote route and its crashes interleave.
VoteOnce == E!OneVotePerTerm

\* At most one node collects a majority in the term it campaigned for.
CampaignSafety == E!OneWinnerPerTerm

\* The elections the runtimes hold are those of the abstract specification.
ImplementsElections == E!Spec

\* The state file never goes back: its term does not decrease, and within a
\* term its vote does not change once it is given.
DurableVoteForward ==
  [][\A n \in Node :
       \/ diskState'[n].currentTerm > diskState[n].currentTerm
       \/ /\ diskState'[n].currentTerm = diskState[n].currentTerm
          /\ diskState[n].votedFor \in {Nil, diskState'[n].votedFor}]_vars

\* A node answers only what its files remember: the term it reports and the
\* vote it grants are on its disk as long as the answer is on its way.
AnswersDurable ==
  \A m \in net :
    m.type \in {"VoteReply", "AppendReply"} =>
      /\ diskState[m.source].currentTerm >= m.term
      /\ m.type = "VoteReply" /\ m.granted
           => \/ diskState[m.source].currentTerm > m.term
              \/ diskState[m.source].votedFor = m.dest

\* While a submission is under way its entry stays the last one of the
\* node's log, in memory and on disk, whoever leads meanwhile.
SubmittedEntryStays ==
  \A n \in Node :
    submit[n] # Nil =>
      LET e == submit[n].entry
      IN  /\ Len(log[n]) = e.index
          /\ log[n][e.index] = [term |-> e.term, command |-> e.command]
          /\ diskLog[n] = log[n]

-----------------------------------------------------------------------------
(* Raft's safety.                                                          *)

Undisturbed(n) ==
  /\ submit[n] = Nil
  /\ beats[n] = {} /\ Calls(n, "heartbeat") = {}
  /\ role[n] = "candidate" \/ election[n] = Nil

Attentive ==
  \A n \in Node :
    role'[n] # role[n] \/ state'[n].currentTerm # state[n].currentTerm => Undisturbed(n)'

\* Behaviours in which no node changes its role or term while one of its own
\* tasks is suspended.
Calm == Init /\ [][Next /\ Attentive]_vars

\* A leader has the votes of a majority in the term it acts in.
LeaderElected ==
  \A n \in Node :
    role[n] = "leader" => E!HasMajority(ballots, [term |-> state[n].currentTerm, node |-> n])

\* The leader a node names to clients was elected in the node's term.
LeaderHintSound ==
  \A n \in Node :
    leaderId[n] # Nil =>
      E!HasMajority(ballots, [term |-> state[n].currentTerm, node |-> leaderId[n]])

\* Two logs with the same term at an index are the same up to that index.
LogMatching ==
  \A a, b \in Node : \A i \in 1 .. Smaller(Len(log[a]), Len(log[b])) :
    log[a][i].term = log[b][i].term => SubSeq(log[a], 1, i) = SubSeq(log[b], 1, i)

\* A request to append entries comes from a leader its term elected.
OnlyLeadersReplicate ==
  \A m \in net :
    m.type = "AppendEntries" =>
      E!HasMajority(ballots, [term |-> m.term, node |-> m.source])

Applied(n) == SubSeq(log[n], 1, state[n].lastApplied)

\* No two nodes apply different commands at the same index, and what is
\* applied is in the log.
StateMachineSafety ==
  /\ \A n \in Node : /\ state[n].lastApplied <= state[n].commitIndex
                     /\ state[n].commitIndex <= Len(log[n])
  /\ \A a, b \in Node : \A i \in 1 .. Smaller(Len(Applied(a)), Len(Applied(b))) :
       Applied(a)[i] = Applied(b)[i]

Holds(l, e) == e.index <= Len(l) /\ l[e.index] = [term |-> e.term, command |-> e.command]

\* A write answered "ok" is in the log files of a majority from then on.
AckedDurable ==
  \A e \in acked : Cardinality({n \in Node : Holds(diskLog[n], e)}) >= Majority

\* A write answered "ok" is in the log of every leader of its term or a later one.
LeaderCompleteness ==
  \A e \in acked, n \in Node :
    role[n] = "leader" /\ state[n].currentTerm >= e.term => Holds(log[n], e)

\* Until a crash, a node's documents are what its applied log entries wrote,
\* each of them once and in log order.
StoreFollowsLog ==
  crashes = 0 =>
    \A n \in Node : store[n] = [i \in 1 .. Len(Applied(n)) |-> Applied(n)[i].command]

\* A voter that missed writes is brought up to date by the leader's heartbeats.
CatchUp ==
  <>[](\A n, p \in Node :
         role[n] = "leader" =>
           /\ log[p] = log[n]
           /\ state[p].commitIndex = state[n].commitIndex
           /\ state[p].lastApplied = state[n].lastApplied)
=============================================================================
