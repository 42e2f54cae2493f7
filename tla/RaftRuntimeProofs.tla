------------------------- MODULE RaftRuntimeProofs --------------------------
(* The types of RaftRuntime's variables and the bookkeeping of its calls,  *)
(* for any number of voters, any commands and any bounds.                  *)
EXTENDS RaftProperties, ReplicatedLogProofs

Inv == TypeOK /\ CallsTracked

-----------------------------------------------------------------------------
(* Messages.                                                               *)

LEMMA MessageKinds ==
  ASSUME NEW m, m \in Message
  PROVE  /\ m.source \in Node /\ m.dest \in Node
         /\ m.type = "RequestVote" => m \in RequestVote
         /\ m.type = "VoteReply" => m \in VoteReply
         /\ m.type = "AppendEntries" => m \in AppendEntries
         /\ m.type = "AppendReply" => m \in AppendReply
         /\ m.type = "ServerError" => m \in ServerError
         /\ m.task = "none" => IsRequest(m)
         /\ m.task = "election" => m.type \in {"RequestVote", "VoteReply"}
         /\ m.task \in {"heartbeat", "submit"}
              => m.type \in {"AppendEntries", "AppendReply", "ServerError"}
         /\ Caller(m) \in Node
BY DEF Message, RequestVote, VoteReply, AppendEntries, AppendReply, ServerError,
       IsRequest, Caller

LEMMA OrphanKind ==
  ASSUME NEW m, m \in Message, IsRequest(m)
  PROVE  /\ Orphan(m) \in Message
         /\ Orphan(m).task = "none"
         /\ Orphan(m).source = m.source /\ Orphan(m).dest = m.dest
<1>1. CASE m \in RequestVote
  <2>1. Orphan(m) \in RequestVote
    BY <1>1 DEF Orphan, RequestVote
  <2>. QED  BY <1>1, <2>1 DEF Orphan, RequestVote, Message
<1>2. CASE m \in AppendEntries
  <2>1. Orphan(m) \in AppendEntries
    BY <1>2 DEF Orphan, AppendEntries
  <2>. QED  BY <1>2, <2>1 DEF Orphan, AppendEntries, Message
<1>. QED  BY <1>1, <1>2, MessageKinds DEF IsRequest

\* What a message that no task waits for looks like.
Stray(m) == m \in Message /\ m.task = "none" /\ m.source # m.dest

LEMMA LeftoversStray ==
  ASSUME TypeNet, NoSelfCall, NEW calls \in SUBSET net, NEW left \in Leftovers(calls),
         NEW m \in left
  PROVE  Stray(m)
<1>1. PICK c \in calls : IsRequest(c) /\ m = Orphan(c)
  BY DEF Leftovers
<1>. QED  BY <1>1, OrphanKind DEF Stray, TypeNet, NoSelfCall

LEMMA AbandonStray ==
  ASSUME TypeNet, NoSelfCall, NEW calls \in SUBSET net, Abandon(calls), NEW m \in net'
  PROVE  m \in net \ calls \/ Stray(m)
BY LeftoversStray DEF Abandon

LEMMA PayloadKind ==
  ASSUME NEW n \in Node, NEW p \in Peers(n), NEW task \in {"heartbeat", "submit"},
         NEW gen \in Nat, NEW next \in Nat \ {0}, NEW st \in DurableState, NEW l \in Seq(Entry),
         NEW m, m = AppendPayload(n, p, task, gen, next, st, l)
  PROVE  /\ m \in Message
         /\ m.source # m.dest
         /\ m.type = "AppendEntries"
         /\ m.task = task
         /\ m.gen = gen
         /\ Caller(m) = n
<1>1. /\ next - 1 \in Nat
      /\ TermAt(l, next - 1) \in Nat
      /\ EntriesFrom(l, next) \in Seq(Entry)
  <2>1. next - 1 \in Nat /\ next - 1 \in Int
    OBVIOUS
  <2>. QED  BY <2>1, TermAtType, EntriesFromType
<1>2. st.currentTerm \in Nat /\ st.commitIndex \in Nat
  BY DEF DurableState
<1>3. n # p /\ p \in Node
  BY DEF Peers
<1>. QED  BY <1>1, <1>2, <1>3
          DEF AppendPayload, Message, AppendEntries, Term, Index, Caller, IsRequest

\* What the bookkeeping of the calls says of one message.
Tracked(m) ==
  /\ m \in Message
  /\ m.source # m.dest
  /\ m.task = "election" => election[Caller(m)] # Nil
  /\ m.task = "submit" => submit[Caller(m)] # Nil
  /\ m.type \in {"AppendEntries", "AppendReply"} /\ m.task # "none"
       => m.gen \in 1 .. Len(progress[Caller(m)])

AllTracked == \A m \in net : Tracked(m)

LEMMA TrackedAll == Inv => AllTracked
BY DEF Inv, TypeOK, TypeNet, CallsTracked, NoSelfCall, ElectionAwaits, SubmitAwaits,
       ProgressHeld, AllTracked, Tracked

LEMMA StrayTracked ==
  ASSUME NEW m, Stray(m)
  PROVE  Tracked(m)'
BY DEF Stray, Tracked

\* A message stays tracked while its task waits and the progress dicts are kept.
LEMMA TrackedKept ==
  ASSUME NEW m, Tracked(m), TypeTasks, TypeTasks',
         m.task = "election" => election'[Caller(m)] # Nil,
         m.task = "submit" => submit'[Caller(m)] # Nil,
         m.task # "none" => Len(progress'[Caller(m)]) >= Len(progress[Caller(m)])
  PROVE  Tracked(m)'
<1>1. Caller(m) \in Node
  BY MessageKinds DEF Tracked
<1>2. Len(progress'[Caller(m)]) \in Nat /\ Len(progress[Caller(m)]) \in Nat
  BY <1>1, LenProperties DEF TypeTasks
<1>. QED  BY <1>2 DEF Tracked

LEMMA AbandonKeeps ==
  ASSUME Inv, NEW calls \in SUBSET net, Abandon(calls), \A m \in net \ calls : Tracked(m)'
  PROVE  AllTracked' /\ OneSubmitCall'
<1>1. \A m \in net' : m \in net \ calls \/ Stray(m)
  BY AbandonStray DEF Inv, TypeOK, CallsTracked
<1>2. AllTracked'
  BY <1>1, StrayTracked DEF AllTracked
<1>3. OneSubmitCall'
  BY <1>1 DEF Inv, CallsTracked, OneSubmitCall, Stray
<1>. QED  BY <1>2, <1>3

\* The request m is replaced by a message of the same task and caller.
LEMMA ReplaceKeeps ==
  ASSUME Inv, NEW m \in net, NEW next, Tracked(next)',
         next.task = m.task, Caller(next) = Caller(m),
         net' = (net \ {m}) \cup {next},
         \A k \in net \ {m} : Tracked(k)'
  PROVE  AllTracked' /\ OneSubmitCall'
<1>1. AllTracked'
  BY DEF AllTracked
<1>2. OneSubmitCall'
  BY DEF Inv, CallsTracked, OneSubmitCall
<1>. QED  BY <1>1, <1>2

LEMMA AnswerKeeps ==
  ASSUME Inv, NEW m \in net, NEW reply,
         IsRequest(m), ~IsRequest(reply),
         m.task # "none" => reply \in Message,
         reply.task = m.task, reply.source = m.dest, reply.dest = m.source,
         reply.type = "AppendReply" => m.type = "AppendEntries" /\ reply.gen = m.gen,
         net' = Answer(m, reply), UNCHANGED <<election, submit, progress>>
  PROVE  AllTracked' /\ OneSubmitCall'
<1>1. Tracked(m) /\ \A k \in net \ {m} : Tracked(k)'
  BY TrackedAll DEF AllTracked, Tracked
<1>2. Caller(reply) = Caller(m)
  BY DEF Caller
<1>3. CASE m.task = "none"
  <2>1. net' = net \ {m}
    BY <1>3 DEF Answer
  <2>. QED  BY <1>1, <2>1 DEF AllTracked, Inv, CallsTracked, OneSubmitCall
<1>4. CASE m.task # "none"
  <2>1. net' = (net \ {m}) \cup {reply}
    BY <1>4 DEF Answer
  <2>2. Tracked(reply)'
    BY <1>1, <1>2, <1>4 DEF Tracked, IsRequest
  <2>. QED  BY <1>1, <1>2, <2>1, <2>2, ReplaceKeeps
<1>. QED  BY <1>3, <1>4

-----------------------------------------------------------------------------
LEMMA InitInv == Init => Inv
<1>. SUFFICES ASSUME Init PROVE Inv
  OBVIOUS
<1>1. InitialState \in DurableState
  BY DEF InitialState, DurableState
<1>2. TypeCore
  BY <1>1, EmptySeq DEF Init, TypeCore, Role
<1>3. TypeTasks
  BY EmptySeq DEF Init, TypeTasks
<1>4. TypeNet /\ TypeHistory
  BY BoundAssumption DEF Init, TypeNet, TypeHistory
<1>5. CallsTracked
  BY DEF Init, CallsTracked, NoSelfCall, ElectionAwaits, SubmitAwaits, OneSubmitCall,
         ProgressHeld, ReplicatorsTrack, PeersOnly
<1>. QED  BY <1>2, <1>3, <1>4, <1>5 DEF Inv, TypeOK

-----------------------------------------------------------------------------
(* Elections.                                                              *)

LEMMA CampaigningType ==
  ASSUME TypeCore, NEW n \in Node
  PROVE  /\ Campaigning(n) \in DurableState
         /\ Campaigning(n).currentTerm = state[n].currentTerm + 1
         /\ Campaigning(n).votedFor = n
<1>. DEFINE st == state[n]
<1>1. st \in DurableState
  BY DEF TypeCore
<1>2. Campaigning(n) = [st EXCEPT !.currentTerm = st.currentTerm + 1, !.votedFor = n]
  BY DEF Campaigning
<1>. HIDE DEF st
<1>3. Campaigning(n) \in DurableState
  <2>1. st.currentTerm + 1 \in Nat /\ n \in Node \cup {Nil}
    BY <1>1 DEF DurableState
  <2>. QED  BY <1>1, <1>2, <2>1, Zenon DEF DurableState
<1>4. Campaigning(n).currentTerm = st.currentTerm + 1 /\ Campaigning(n).votedFor = n
  BY <1>1, <1>2 DEF DurableState
<1>. QED  BY <1>3, <1>4 DEF st

\* A win leaves a typed role, leader and history and one more progress dict.
LEMMA BecomeLeaderType ==
  ASSUME TypeCore, TypeTasks, TypeHistory, NEW n \in Node, NEW t \in Nat, BecomeLeader(n, t)
  PROVE  /\ role' \in [Node -> Role]
         /\ leaderId' \in [Node -> Node \cup {Nil}]
         /\ DOMAIN progress' = Node
         /\ \A k \in Node : progress'[k] \in Seq([Peers(k) -> Progress])
         /\ \A k \in Node : Len(progress'[k]) >= Len(progress[k])
         /\ progress'[n] # <<>>
         /\ \A k \in Node \ {n} : progress'[k] = progress[k] /\ role'[k] = role[k]
         /\ wins' \subseteq E!Win
<1>. DEFINE fresh == [p \in Peers(n) |-> [nextIndex |-> Len(log[n]) + 1, matchIndex |-> 0]]
<1>1. fresh \in [Peers(n) -> Progress]
  <2>1. Len(log[n]) + 1 \in Nat \ {0}
    BY LenProperties DEF TypeCore
  <2>. QED  BY <2>1 DEF Progress
<1>2. progress[n] \in Seq([Peers(n) -> Progress])
  BY DEF TypeTasks
<1>3. /\ Append(progress[n], fresh) \in Seq([Peers(n) -> Progress])
      /\ Append(progress[n], fresh) # <<>>
      /\ Len(Append(progress[n], fresh)) = Len(progress[n]) + 1
  <2>. HIDE DEF fresh
  <2>. QED  BY <1>1, <1>2, AppendProperties
<1>4. progress' = [progress EXCEPT ![n] = Append(progress[n], fresh)]
  BY DEF BecomeLeader
<1>. HIDE DEF fresh
<1>5. \A k \in Node : Len(progress[k]) \in Nat
  BY LenProperties DEF TypeTasks
<1>6. /\ progress'[n] = Append(progress[n], fresh)
      /\ \A k \in Node \ {n} : progress'[k] = progress[k]
      /\ DOMAIN progress' = Node
  BY <1>4 DEF TypeTasks
<1>7. /\ role' \in [Node -> Role] /\ leaderId' \in [Node -> Node \cup {Nil}]
      /\ \A k \in Node \ {n} : role'[k] = role[k]
  BY DEF BecomeLeader, TypeCore, Role
<1>8. wins' \subseteq E!Win
  BY DEF BecomeLeader, TypeHistory, E!Win
<1>9. \A k \in Node : Len(progress'[k]) >= Len(progress[k])
  BY <1>3, <1>5, <1>6
<1>10. \A k \in Node : progress'[k] \in Seq([Peers(k) -> Progress])
  BY <1>3, <1>6 DEF TypeTasks
<1>. QED  BY <1>3, <1>6, <1>7, <1>8, <1>9, <1>10

\* An answer without a verdict leaves the campaign waiting, or ends it as the last.
LEMMA AwaitVotesType ==
  ASSUME TypeTasks, NEW n \in Node, election[n] \in Campaign, NEW votes \in SUBSET Node,
         NEW m, AwaitVotes(n, votes, m)
  PROVE  /\ election' \in [Node -> {Nil} \cup Campaign]
         /\ \A k \in Node \ {n} : election'[k] = election[k]
         /\ Calls(n, "election") = {m} \/ election'[n] # Nil
         /\ UNCHANGED progress
<1>. DEFINE next == IF Calls(n, "election") = {m} THEN Nil
                    ELSE [election[n] EXCEPT !.votes = votes]
<1>1. election' = [election EXCEPT ![n] = next]
  BY DEF AwaitVotes
<1>2. [election[n] EXCEPT !.votes = votes] \in Campaign
  BY DEF Campaign
<1>3. next \in {Nil} \cup Campaign /\ (Calls(n, "election") = {m} \/ next # Nil)
  BY <1>2, NilIsNoTask
<1>. HIDE DEF next
<1>. QED  BY <1>1, <1>3 DEF TypeTasks, AwaitVotes

LEMMA StartElectionInv ==
  ASSUME Inv, NEW n \in Node, StartElection(n)
  PROVE  Inv'
<1>. USE DEF Inv, TypeOK, CallsTracked
<1>0. /\ Campaigning(n) \in DurableState
      /\ Campaigning(n).currentTerm \in Nat
  BY CampaigningType DEF DurableState
<1>1. /\ state' \in [Node -> DurableState] /\ diskState' \in [Node -> DurableState]
      /\ ballots' \subseteq E!Ballot
  BY <1>0 DEF StartElection, TypeCore, TypeHistory, Ballot, E!Ballot
<1>2. CASE Majority = 1
  <2>1. BecomeLeader(n, Campaigning(n).currentTerm) /\ UNCHANGED <<election, net>>
    BY <1>2 DEF StartElection
  <2>2. TypeCore' /\ TypeTasks' /\ TypeHistory'
    BY <2>1, <1>0, <1>1, BecomeLeaderType DEF StartElection, TypeCore, TypeTasks, TypeHistory
  <2>3. TypeNet' /\ NoSelfCall' /\ ElectionAwaits' /\ SubmitAwaits' /\ OneSubmitCall' /\ PeersOnly'
    BY <2>1 DEF StartElection, TypeNet, NoSelfCall, ElectionAwaits, SubmitAwaits, OneSubmitCall, PeersOnly
  <2>4. ProgressHeld'
    <3>1. \A k \in Node : Len(progress'[k]) >= Len(progress[k])
      BY <2>1, <1>0, BecomeLeaderType
    <3>2. \A k \in Node : Len(progress'[k]) \in Nat /\ Len(progress[k]) \in Nat
      BY <2>2, LenProperties DEF TypeTasks
    <3>3. \A m \in net : Caller(m) \in Node
      BY MessageKinds DEF TypeNet
    <3>. QED  BY <2>1, <3>1, <3>2, <3>3 DEF ProgressHeld
  <2>5. ReplicatorsTrack'
    BY <2>1, <1>0, BecomeLeaderType DEF ReplicatorsTrack, StartElection
  <2>. QED  BY <2>2, <2>3, <2>4, <2>5
<1>3. CASE Majority # 1
  <2>. DEFINE sent == {VoteRequest(n, p, Campaigning(n)) : p \in Peers(n)}
  <2>1. /\ net' = net \cup sent
        /\ role' = [role EXCEPT ![n] = "candidate"]
        /\ leaderId' = [leaderId EXCEPT ![n] = Nil]
        /\ election' = [election EXCEPT ![n] =
             [term |-> Campaigning(n).currentTerm, votes |-> {n}]]
        /\ UNCHANGED <<progress, wins>>
    BY <1>3 DEF StartElection
  <2>2. \A m \in sent : /\ m \in Message /\ m.source # m.dest
                        /\ m.type = "RequestVote" /\ m.task = "election" /\ Caller(m) = n
    <3>1. LastTerm(log[n]) \in Nat /\ Len(log[n]) \in Nat
      BY LastTermType, LenProperties DEF TypeCore
    <3>. QED  BY <3>1, <1>0 DEF VoteRequest, Message, RequestVote, Peers, Term, Index,
                                  Caller, IsRequest
  <2>. HIDE DEF sent
  <2>3. TypeCore'
    BY <1>1, <2>1 DEF StartElection, TypeCore, Role
  <2>4. TypeTasks' /\ election'[n] # Nil
    <3>1. [term |-> Campaigning(n).currentTerm, votes |-> {n}] \in Campaign
      BY <1>0 DEF Campaign
    <3>2. Nil \notin Campaign
      BY NilIsNoTask
    <3>. QED  BY <3>1, <3>2, <2>1 DEF StartElection, TypeTasks
  <2>5. TypeHistory'
    BY <1>1, <2>1 DEF StartElection, TypeHistory
  <2>6. TypeNet' /\ NoSelfCall' /\ OneSubmitCall' /\ ProgressHeld'
    BY <2>1, <2>2 DEF TypeNet, NoSelfCall, OneSubmitCall, ProgressHeld
  <2>7. ElectionAwaits'
    BY <2>1, <2>2, <2>4, MessageKinds DEF TypeNet, ElectionAwaits, TypeTasks
  <2>8. SubmitAwaits' /\ PeersOnly' /\ ReplicatorsTrack'
    BY <2>1, <2>2 DEF StartElection, SubmitAwaits, PeersOnly, ReplicatorsTrack, TypeCore
  <2>. QED  BY <2>3, <2>4, <2>5, <2>6, <2>7, <2>8
<1>. QED  BY <1>2, <1>3

LEMMA HandleRequestVoteInv ==
  ASSUME Inv, NEW n \in Node, NEW m \in net, HandleRequestVote(n, m)
  PROVE  Inv'
<1>. USE DEF Inv, TypeOK, CallsTracked
<1>. DEFINE st == StateAfterVote(state[n], log[n], m)
            granted == Grants(state[n], log[n], m)
            reply == [type |-> "VoteReply", task |-> "election", source |-> n,
                      dest |-> m.source, term |-> st.currentTerm, granted |-> granted]
<1>1. m \in RequestVote /\ m.source \in Node /\ m.term \in Nat /\ m.dest = n
  BY MessageKinds DEF HandleRequestVote, TypeNet, RequestVote, Term
<1>2. st \in DurableState
  BY <1>1, StateAfterVoteType DEF TypeCore
<1>3. TypeCore'
  BY <1>2 DEF HandleRequestVote, TypeCore, Role
<1>4. TypeTasks' /\ UNCHANGED <<election, submit, progress>>
  BY DEF HandleRequestVote, TypeTasks
<1>5. TypeHistory'
  <2>1. Ballot(m.term, n, m.source) \in E!Ballot
    BY <1>1 DEF Ballot, E!Ballot
  <2>2. ballots' \subseteq ballots \cup {Ballot(m.term, n, m.source)}
    BY DEF HandleRequestVote
  <2>. QED  BY <2>1, <2>2 DEF HandleRequestVote, TypeHistory
<1>6. AllTracked' /\ OneSubmitCall'
  <2>1. granted \in BOOLEAN /\ st.currentTerm \in Nat
    BY <1>2 DEF Grants, DurableState
  <2>2. reply \in Message
    BY <1>1, <2>1 DEF VoteReply, Message, Term
  <2>3. CASE m.task = "election"
    <3>. HIDE DEF st, granted
    <3>1. reply.task = m.task /\ reply.source = m.dest /\ reply.dest = m.source
          /\ reply.type = "VoteReply"
      BY <1>1, <2>3
    <3>2. net' = Answer(m, reply)
      BY DEF HandleRequestVote, st, granted
    <3>3. IsRequest(m) /\ ~IsRequest(reply)
      BY <1>1, <3>1 DEF RequestVote, IsRequest
    <3>. HIDE DEF reply
    <3>. QED  BY <1>4, <2>2, <3>1, <3>2, <3>3, AnswerKeeps
  <2>4. CASE m.task = "none"
    <3>1. net' = net \ {m}
      BY <2>4 DEF HandleRequestVote, Answer
    <3>2. AllTracked'
      BY <1>4, <3>1, TrackedAll DEF AllTracked, Tracked
    <3>. QED  BY <3>1, <3>2 DEF OneSubmitCall
  <2>. QED  BY <1>1, <2>3, <2>4 DEF RequestVote
<1>7. ReplicatorsTrack' /\ PeersOnly'
  BY DEF HandleRequestVote, ReplicatorsTrack, PeersOnly, TypeCore
<1>. QED  BY <1>3, <1>4, <1>5, <1>6, <1>7 DEF AllTracked, Tracked, TypeNet, NoSelfCall,
             ElectionAwaits, SubmitAwaits, ProgressHeld

LEMMA HandleVoteReplyInv ==
  ASSUME Inv, NEW n \in Node, NEW m \in net, HandleVoteReply(n, m)
  PROVE  Inv'
<1>. USE DEF Inv, TypeOK, CallsTracked
<1>1. /\ m \in VoteReply /\ m.source \in Node /\ m.term \in Nat /\ m.dest = n
      /\ m.task = "election" /\ Caller(m) = n
  BY MessageKinds DEF HandleVoteReply, TypeNet, VoteReply, Term, Caller, IsRequest
<1>2. election[n] \in Campaign
  BY <1>1 DEF ElectionAwaits, TypeTasks
<1>3. Calls(n, "election") \in SUBSET net /\ \A k \in net : k.task = "election" /\ Caller(k) = n => k \in Calls(n, "election")
  BY DEF Calls
<1>4. \A k \in net : Tracked(k) /\ Caller(k) \in Node
  BY TrackedAll, MessageKinds DEF AllTracked, Tracked
<1>5. CASE LoseElection(n, m)
  <2>1. Observe(state[n], m.term) \in DurableState
    BY <1>1, ObserveType DEF TypeCore
  <2>2. TypeCore' /\ TypeHistory'
    BY <1>5, <2>1 DEF LoseElection, HandleVoteReply, TypeCore, Role, TypeHistory
  <2>3. TypeTasks' /\ UNCHANGED <<progress, submit>>
        /\ \A k \in Node \ {n} : election'[k] = election[k]
    BY <1>5 DEF LoseElection, HandleVoteReply, TypeTasks
  <2>4. \A k \in net \ Calls(n, "election") : Tracked(k)'
    BY <1>3, <1>4, <2>3 DEF Tracked
  <2>5. AllTracked' /\ OneSubmitCall'
    BY <1>3, <1>5, <2>4, AbandonKeeps DEF LoseElection
  <2>6. ReplicatorsTrack' /\ PeersOnly'
    BY <1>5 DEF LoseElection, HandleVoteReply, ReplicatorsTrack, PeersOnly, TypeCore
  <2>. QED  BY <2>2, <2>3, <2>5, <2>6 DEF AllTracked, Tracked, TypeNet, NoSelfCall,
             ElectionAwaits, SubmitAwaits, ProgressHeld
<1>6. CASE WinElection(n, m)
  <2>1. BecomeLeader(n, election[n].term) /\ election[n].term \in Nat
    BY <1>2, <1>6 DEF WinElection, Campaign
  <2>2. TypeCore' /\ TypeHistory'
    BY <1>6, <2>1, BecomeLeaderType DEF WinElection, HandleVoteReply, TypeCore, TypeHistory
  <2>3. TypeTasks' /\ UNCHANGED submit
        /\ \A k \in Node \ {n} : election'[k] = election[k]
    BY <1>6, <2>1, BecomeLeaderType DEF WinElection, HandleVoteReply, TypeTasks
  <2>4. \A k \in net \ Calls(n, "election") : Tracked(k)'
    BY <1>3, <1>4, <2>1, <2>3, BecomeLeaderType, TrackedKept DEF Tracked
  <2>5. AllTracked' /\ OneSubmitCall'
    BY <1>3, <1>6, <2>4, AbandonKeeps DEF WinElection
  <2>6. ReplicatorsTrack' /\ PeersOnly'
    BY <1>6, <2>1, BecomeLeaderType
    DEF WinElection, HandleVoteReply, ReplicatorsTrack, PeersOnly
  <2>. QED  BY <2>2, <2>3, <2>5, <2>6 DEF AllTracked, Tracked, TypeNet, NoSelfCall,
             ElectionAwaits, SubmitAwaits, ProgressHeld
<1>7. CASE CountVote(n, m)
  <2>1. Votes(n, m) \in SUBSET Node
    BY <1>1, <1>2 DEF Votes, Campaign
  <2>2. TypeCore' /\ TypeHistory' /\ net' = net \ {m}
    BY <1>7 DEF CountVote, AwaitVotes, HandleVoteReply, TypeCore, TypeHistory
  <2>3. /\ TypeTasks' /\ UNCHANGED <<progress, submit>>
        /\ \A k \in Node \ {n} : election'[k] = election[k]
        /\ Calls(n, "election") = {m} \/ election'[n] # Nil
    BY <1>2, <1>7, <2>1, AwaitVotesType DEF CountVote, HandleVoteReply, TypeTasks
  <2>4. AllTracked'
    <3>. SUFFICES ASSUME NEW k \in net \ {m}
                  PROVE  Tracked(k)'
      BY <2>2 DEF AllTracked
    <3>1. k \in net /\ Tracked(k) /\ Caller(k) \in Node /\ k # m
      BY <1>4
    <3>2. ASSUME k.task = "election", Caller(k) = n
         PROVE  election'[n] # Nil
      BY <3>1, <3>2, <1>3, <2>3
    <3>3. ASSUME k.task = "election", Caller(k) # n
         PROVE  election'[Caller(k)] # Nil
      BY <3>1, <3>3, <2>3 DEF Tracked
    <3>4. k.task = "election" => election'[Caller(k)] # Nil
      BY <3>2, <3>3
    <3>. QED  BY <3>1, <3>4, <2>3 DEF Tracked
  <2>5. OneSubmitCall'
    BY <2>2 DEF OneSubmitCall
  <2>6. ReplicatorsTrack' /\ PeersOnly'
    BY <1>7 DEF CountVote, AwaitVotes, HandleVoteReply, ReplicatorsTrack, PeersOnly
  <2>. QED  BY <2>2, <2>3, <2>4, <2>5, <2>6 DEF AllTracked, Tracked, TypeNet, NoSelfCall,
             ElectionAwaits, SubmitAwaits, ProgressHeld
<1>. QED  BY <1>5, <1>6, <1>7 DEF HandleVoteReply

LEMMA VoteCallFailsInv ==
  ASSUME Inv, NEW n \in Node, NEW m \in net, VoteCallFails(n, m)
  PROVE  Inv'
<1>. USE DEF Inv, TypeOK, CallsTracked
<1>1. m.task = "election" /\ Caller(m) = n
  BY DEF VoteCallFails, Calls
<1>2. election[n] \in Campaign
  BY <1>1 DEF ElectionAwaits, TypeTasks
<1>3. \A k \in net : k.task = "election" /\ Caller(k) = n => k \in Calls(n, "election")
  BY DEF Calls
<1>4. \A k \in net : Tracked(k) /\ Caller(k) \in Node
  BY TrackedAll, MessageKinds DEF AllTracked, Tracked
<1>5. TypeCore' /\ TypeHistory'
  BY DEF VoteCallFails, AwaitVotes, TypeCore, TypeHistory
<1>6. /\ TypeTasks' /\ UNCHANGED <<progress, submit>>
      /\ \A k \in Node \ {n} : election'[k] = election[k]
      /\ Calls(n, "election") = {m} \/ election'[n] # Nil
  <2>1. election[n].votes \in SUBSET Node
    BY <1>2 DEF Campaign
  <2>. QED  BY <1>2, <2>1, AwaitVotesType DEF VoteCallFails, TypeTasks
<1>7. \A k \in net \ {m} : Tracked(k)'
  <2>. SUFFICES ASSUME NEW k \in net \ {m}
                PROVE  Tracked(k)'
    OBVIOUS
  <2>1. k \in net /\ Tracked(k) /\ Caller(k) \in Node /\ k # m
    BY <1>4
  <2>2. ASSUME k.task = "election", Caller(k) = n
       PROVE  election'[n] # Nil
    BY <2>1, <2>2, <1>3, <1>6
  <2>3. ASSUME k.task = "election", Caller(k) # n
       PROVE  election'[Caller(k)] # Nil
    BY <2>1, <2>3, <1>6 DEF Tracked
  <2>4. k.task = "election" => election'[Caller(k)] # Nil
    BY <2>2, <2>3
  <2>. QED  BY <2>1, <2>4, <1>6 DEF Tracked
<1>8. AllTracked' /\ OneSubmitCall'
  BY <1>7, AbandonKeeps DEF VoteCallFails
<1>9. ReplicatorsTrack' /\ PeersOnly'
  BY DEF VoteCallFails, AwaitVotes, ReplicatorsTrack, PeersOnly
<1>. QED  BY <1>5, <1>6, <1>8, <1>9 DEF AllTracked, Tracked, TypeNet, NoSelfCall,
             ElectionAwaits, SubmitAwaits, ProgressHeld

-----------------------------------------------------------------------------
(* Appending.                                                              *)

LEMMA HandleAppendEntriesInv ==
  ASSUME Inv, NEW n \in Node, NEW m \in net, HandleAppendEntries(n, m)
  PROVE  Inv'
<1>. USE DEF Inv, TypeOK, CallsTracked
<1>. DEFINE l == LogAfterAppend(state[n], log[n], m)
            st == StateAfterAppend(state[n], log[n], m)
            applies == Accepted(state[n], log[n], m)
            raises == applies /\ ApplyRaises(store[n], st, l)
            end == IF applies THEN StateAfterApply(store[n], st, l) ELSE st
            docs == StoreAfterApply(store[n], st, l)
            reply == IF raises THEN Failure(n, m) ELSE AppendAnswer(n, m, l, end)
<1>1. /\ m \in AppendEntries /\ Payload(m) /\ m.source \in Node /\ m.dest = n
      /\ IsRequest(m)
  BY MessageKinds DEF HandleAppendEntries, TypeNet, AppendEntries, Payload, Term, Index,
                      IsRequest
<1>2. l \in Seq(Entry) /\ st \in DurableState
  BY <1>1, LogAfterAppendType, StateAfterAppendType DEF TypeCore
<1>3. end \in DurableState /\ docs \in Seq(Command)
  <2>. HIDE DEF l, st
  <2>. QED  BY <1>2, StateAfterApplyType, StoreAfterApplyType DEF TypeCore
<1>4. /\ log' = [log EXCEPT ![n] = l] /\ diskLog' = [diskLog EXCEPT ![n] = l]
      /\ state' = [state EXCEPT ![n] = end]
      /\ store' = store \/ store' = [store EXCEPT ![n] = docs]
      /\ diskState' = diskState \/ diskState' = [diskState EXCEPT ![n] = end]
      /\ net' = Answer(m, reply)
  BY DEF HandleAppendEntries
<1>5. /\ applies \in BOOLEAN
      /\ ~raises => reply = AppendAnswer(n, m, l, end)
      /\ raises => reply = Failure(n, m)
  BY DEF Accepted
<1>6. AppendAnswer(n, m, l, end) =
        [type |-> "AppendReply", task |-> m.task, gen |-> m.gen, source |-> n, dest |-> m.source,
         term |-> end.currentTerm, success |-> applies, matchIndex |-> Len(l)]
  BY DEF AppendAnswer
<1>. HIDE DEF l, st, applies, raises, end, docs, reply
<1>7. TypeCore'
  <2>1. /\ log' \in [Node -> Seq(Entry)] /\ diskLog' \in [Node -> Seq(Entry)]
        /\ state' \in [Node -> DurableState] /\ diskState' \in [Node -> DurableState]
        /\ store' \in [Node -> Seq(Command)]
    BY <1>2, <1>3, <1>4 DEF TypeCore
  <2>2. role' \in [Node -> Role] /\ leaderId' \in [Node -> Node \cup {Nil}]
    BY <1>1 DEF HandleAppendEntries, TypeCore, Role
  <2>. QED  BY <2>1, <2>2 DEF TypeCore
<1>8. /\ TypeTasks' /\ TypeHistory'
      /\ UNCHANGED <<election, submit, progress, beats>>
  BY DEF HandleAppendEntries, TypeTasks, TypeHistory, tasks, history
<1>9. AllTracked' /\ OneSubmitCall'
  <2>1. end.currentTerm \in Nat /\ Len(l) \in Nat
    BY <1>2, <1>3, LenProperties DEF DurableState
  <2>2. CASE raises
    <3>1. /\ reply.task = m.task /\ reply.source = m.dest /\ reply.dest = m.source
          /\ reply.type = "ServerError"
          /\ m.task # "none" => reply \in ServerError
      BY <1>1, <1>5, <2>2 DEF Failure, ServerError, AppendEntries
    <3>2. m.task # "none" => reply \in Message
      BY <3>1 DEF Message
    <3>3. ~IsRequest(reply)
      BY <3>1 DEF IsRequest
    <3>. QED  BY <1>1, <1>4, <1>8, <3>1, <3>2, <3>3, AnswerKeeps
  <2>3. CASE ~raises
    <3>1. /\ reply.task = m.task /\ reply.source = m.dest /\ reply.dest = m.source
          /\ reply.type = "AppendReply" /\ reply.gen = m.gen
          /\ m.task # "none" => reply \in AppendReply
      BY <1>1, <1>5, <1>6, <2>1, <2>3 DEF AppendReply, AppendEntries, Term, Index
    <3>2. m.task # "none" => reply \in Message
      BY <3>1 DEF Message
    <3>3. ~IsRequest(reply) /\ m.type = "AppendEntries"
      BY <3>1, <1>1 DEF IsRequest, AppendEntries
    <3>. QED  BY <1>1, <1>4, <1>8, <3>1, <3>2, <3>3, AnswerKeeps
  <2>. QED  BY <2>2, <2>3
<1>10. ReplicatorsTrack' /\ PeersOnly'
  BY <1>8 DEF HandleAppendEntries, ReplicatorsTrack, PeersOnly, TypeCore
<1>. QED  BY <1>7, <1>8, <1>9, <1>10 DEF AllTracked, Tracked, TypeNet, NoSelfCall,
             ElectionAwaits, SubmitAwaits, ProgressHeld

-----------------------------------------------------------------------------
(* Replication.                                                            *)

\* An answer leaves every progress dict a dict of positions of the peers.
LEMMA ProgressAfterType ==
  ASSUME TypeTasks, NEW n \in Node, NEW m, m.gen \in 1 .. Len(progress[n]),
         m.source \in Peers(n), m.matchIndex \in Nat
  PROVE  /\ DOMAIN ProgressAfter(n, m) = Node
         /\ \A k \in Node : ProgressAfter(n, m)[k] \in Seq([Peers(k) -> Progress])
         /\ \A k \in Node : Len(ProgressAfter(n, m)[k]) = Len(progress[k])
<1>. DEFINE dicts == progress[n]
            dict == dicts[m.gen]
            p == dict[m.source]
            position == IF m.success
                        THEN [nextIndex |-> m.matchIndex + 1, matchIndex |-> m.matchIndex]
                        ELSE [p EXCEPT !.nextIndex = Larger(1, p.nextIndex - 1)]
            next == [dict EXCEPT ![m.source] = position]
<1>1. dicts \in Seq([Peers(n) -> Progress])
  BY DEF TypeTasks
<1>2. dict \in [Peers(n) -> Progress]
  BY <1>1, ElementOfSeq
<1>3. p \in Progress
  BY <1>2
<1>4. position \in Progress
  <2>1. p.nextIndex - 1 \in Int
    BY <1>3 DEF Progress
  <2>2. Larger(1, p.nextIndex - 1) \in Nat \ {0}
    BY <2>1 DEF Larger
  <2>. HIDE DEF p
  <2>. QED  BY <1>3, <2>2 DEF Progress
<1>5. ProgressAfter(n, m) = [progress EXCEPT ![n] = [dicts EXCEPT ![m.gen] = next]]
  BY DEF ProgressAfter
<1>. HIDE DEF position, dict
<1>6. next \in [Peers(n) -> Progress]
  BY <1>2, <1>4
<1>. HIDE DEF next, dicts
<1>7. /\ [dicts EXCEPT ![m.gen] = next] \in Seq([Peers(n) -> Progress])
      /\ Len([dicts EXCEPT ![m.gen] = next]) = Len(dicts)
  BY <1>1, <1>6, ExceptSeq DEF dicts
<1>. QED  BY <1>5, <1>7 DEF TypeTasks, dicts

LEMMA PositionType ==
  ASSUME NEW n \in Node, NEW dicts \in Seq([Peers(n) -> Progress]),
         NEW g \in 1 .. Len(dicts), NEW p \in Peers(n)
  PROVE  g \in Nat /\ dicts[g][p].nextIndex \in Nat \ {0} /\ dicts[g][p].matchIndex \in Nat
<1>1. dicts[g] \in [Peers(n) -> Progress] /\ g \in Nat
  BY ElementOfSeq, LenProperties
<1>. QED  BY <1>1 DEF Progress

LEMMA LastOfNonEmpty ==
  ASSUME NEW S, NEW q \in Seq(S), q # <<>>
  PROVE  Len(q) \in 1 .. Len(q)
BY LenProperties, EmptySeq

\* What the answer to a replication call says.
LEMMA ReplyKind ==
  ASSUME Inv, NEW n \in Node, NEW m \in net, m.type = "AppendReply", m.dest = n
  PROVE  /\ m \in AppendReply /\ Caller(m) = n /\ m.task # "none"
         /\ m.source \in Peers(n) /\ m.term \in Nat /\ m.matchIndex \in Nat
         /\ m.gen \in 1 .. Len(progress[n])
         /\ m.task \in {"heartbeat", "submit"} /\ m.success \in BOOLEAN
<1>1. m \in AppendReply /\ m.source # m.dest /\ Tracked(m)
  BY MessageKinds, TrackedAll DEF Inv, TypeOK, TypeNet, AllTracked, Tracked
<1>2. Caller(m) = n /\ m.task # "none"
  BY <1>1 DEF Caller, IsRequest, AppendReply
<1>. QED  BY <1>1, <1>2 DEF AppendReply, Tracked, Peers, Term, Index

\* The progress dicts may change as long as their number does not.
LEMMA AnsweredTracked ==
  ASSUME Inv, NEW n \in Node, NEW m \in net, m.type = "AppendReply", m.dest = n,
         progress' = ProgressAfter(n, m), UNCHANGED <<election, beats>>,
         submit' \in [Node -> {Nil} \cup Submission]
  PROVE  /\ TypeTasks'
         /\ \A k \in Node : Len(progress'[k]) = Len(progress[k])
         /\ \A k \in net :
              (k.task = "submit" => submit'[Caller(k)] # Nil) => Tracked(k)'
<1>1. /\ DOMAIN progress' = Node
      /\ \A k \in Node : progress'[k] \in Seq([Peers(k) -> Progress])
      /\ \A k \in Node : Len(progress'[k]) = Len(progress[k])
  BY ReplyKind, ProgressAfterType DEF Inv, TypeOK
<1>2. TypeTasks'
  BY <1>1 DEF Inv, TypeOK, TypeTasks
<1>3. \A k \in net : Tracked(k) /\ Caller(k) \in Node
  BY TrackedAll, MessageKinds DEF AllTracked, Tracked
<1>. QED  BY <1>1, <1>2, <1>3 DEF Tracked

LEMMA RetryInv ==
  ASSUME Inv, NEW n \in Node, NEW m \in net, m.type = "AppendReply", m.dest = n,
         Retry(n, m), UNCHANGED <<log, election, beats, diskLog, crashes, ballots, wins>>
  PROVE  Inv'
<1>0. PICK next : next = RetryPayload(n, m)
  OBVIOUS
<1>1. /\ progress' = ProgressAfter(n, m)
      /\ net' = (net \ {m}) \cup {next}
      /\ UNCHANGED <<state, role, leaderId, submit, diskState, store, acked>>
  BY <1>0 DEF Retry
<1>2. /\ TypeTasks'
      /\ \A k \in Node : Len(progress'[k]) = Len(progress[k])
      /\ \A k \in net : Tracked(k)'
  BY <1>1, AnsweredTracked, TrackedAll DEF Inv, TypeOK, TypeTasks, AllTracked, Tracked
<1>3. /\ m.gen \in Nat
      /\ m.gen \in 1 .. Len(progress'[n])
      /\ progress'[n][m.gen][m.source].nextIndex \in Nat \ {0}
  <2>1. m.gen \in 1 .. Len(progress'[n])
    BY <1>2, ReplyKind
  <2>. QED  BY <1>2, <2>1, ReplyKind, PositionType DEF TypeTasks
<1>4. /\ next \in Message
      /\ next.source # next.dest
      /\ next.type = "AppendEntries"
      /\ next.task = m.task
      /\ next.gen = m.gen
      /\ Caller(next) = n
  <2>1. next = AppendPayload(n, m.source, m.task, m.gen,
                 progress'[n][m.gen][m.source].nextIndex, state[n], log[n])
    BY <1>0, <1>1 DEF RetryPayload
  <2>2. state[n] \in DurableState /\ log[n] \in Seq(Entry)
    BY DEF Inv, TypeOK, TypeCore
  <2>3. PICK peer \in Peers(n), task \in {"heartbeat", "submit"}, gen \in Nat,
             position \in Nat \ {0} :
          /\ peer = m.source /\ task = m.task /\ gen = m.gen
          /\ position = progress'[n][m.gen][m.source].nextIndex
    BY <1>3, ReplyKind
  <2>4. next = AppendPayload(n, peer, task, gen, position, state[n], log[n])
    BY <2>1, <2>3
  <2>5. /\ next \in Message /\ next.source # next.dest /\ next.type = "AppendEntries"
        /\ next.task = task /\ next.gen = gen /\ Caller(next) = n
    BY ONLY n \in Node, <2>2, <2>4, PayloadKind
  <2>. QED  BY <2>3, <2>5
<1>5. Tracked(next)'
  BY <1>1, <1>3, <1>4, TrackedAll, ReplyKind DEF Tracked, AllTracked
<1>6. AllTracked' /\ OneSubmitCall'
  BY <1>1, <1>2, <1>4, <1>5, ReplyKind, ReplaceKeeps
<1>7. TypeCore' /\ TypeHistory'
  BY <1>1 DEF Inv, TypeOK, TypeCore, TypeHistory
<1>8. ReplicatorsTrack' /\ PeersOnly'
  <2>1. \A k \in Node : progress[k] # <<>> => progress'[k] # <<>>
    BY <1>2, EmptySeq DEF Inv, TypeOK, TypeTasks
  <2>. QED  BY <1>1, <2>1 DEF Inv, CallsTracked, ReplicatorsTrack, PeersOnly
<1>. QED  BY <1>2, <1>6, <1>7, <1>8 DEF Inv, TypeOK, CallsTracked, AllTracked, Tracked, TypeNet,
             NoSelfCall, ElectionAwaits, SubmitAwaits, ProgressHeld

LEMMA HeartbeatInv ==
  ASSUME Inv, NEW n \in Node, Heartbeat(n)
  PROVE  Inv'
<1>. USE DEF Inv, TypeOK, CallsTracked
<1>1. TypeCore' /\ TypeHistory' /\ TypeTasks'
  BY DEF Heartbeat, TypeCore, TypeHistory, TypeTasks, Peers, core, disk, history
<1>2. /\ TypeNet' /\ NoSelfCall' /\ ElectionAwaits' /\ SubmitAwaits'
      /\ OneSubmitCall' /\ ProgressHeld'
  BY DEF Heartbeat, TypeNet, NoSelfCall, ElectionAwaits, SubmitAwaits, OneSubmitCall,
         ProgressHeld
<1>3. ReplicatorsTrack' /\ PeersOnly'
  BY DEF Heartbeat, ReplicatorsTrack, PeersOnly, core, TypeTasks
<1>. QED  BY <1>1, <1>2, <1>3

LEMMA SendHeartbeatInv ==
  ASSUME Inv, NEW n \in Node, NEW p \in Peers(n), SendHeartbeat(n, p)
  PROVE  Inv'
<1>. USE DEF Inv, TypeOK, CallsTracked
<1>0. PICK next : next = AppendPayload(n, p, "heartbeat", Current(n),
                           progress[n][Current(n)][p].nextIndex, state[n], log[n])
  OBVIOUS
<1>1. net' = net \cup {next} /\ UNCHANGED <<progress, election, submit>>
  BY <1>0 DEF SendHeartbeat
<1>2. Current(n) \in 1 .. Len(progress[n])
  BY LastOfNonEmpty DEF SendHeartbeat, ReplicatorsTrack, Current, TypeTasks
<1>3. /\ next \in Message
      /\ next.source # next.dest
      /\ next.type = "AppendEntries"
      /\ next.task = "heartbeat"
      /\ next.gen = Current(n)
      /\ Caller(next) = n
  <2>1. Current(n) \in Nat /\ progress[n][Current(n)][p].nextIndex \in Nat \ {0}
    BY <1>2, PositionType DEF TypeTasks
  <2>. DEFINE position == progress[n][Current(n)][p].nextIndex
  <2>2. state[n] \in DurableState /\ log[n] \in Seq(Entry)
    BY DEF TypeCore
  <2>3. next = AppendPayload(n, p, "heartbeat", Current(n), position, state[n], log[n])
    BY <1>0
  <2>. HIDE DEF position
  <2>4. position \in Nat \ {0}
    BY <2>1 DEF position
  <2>. QED  BY ONLY <2>1, <2>2, <2>3, <2>4, PayloadKind, n \in Node, p \in Peers(n)
<1>4. Tracked(next)' /\ \A k \in net : Tracked(k)'
  BY <1>1, <1>2, <1>3, TrackedAll DEF Tracked, AllTracked
<1>5. AllTracked' /\ OneSubmitCall'
  BY <1>1, <1>3, <1>4 DEF AllTracked, OneSubmitCall
<1>6. TypeCore' /\ TypeHistory' /\ TypeTasks'
  BY DEF SendHeartbeat, TypeCore, TypeHistory, TypeTasks, core, disk, history
<1>7. ReplicatorsTrack' /\ PeersOnly'
  BY DEF SendHeartbeat, ReplicatorsTrack, PeersOnly, core, TypeTasks
<1>. QED  BY <1>5, <1>6, <1>7 DEF AllTracked, Tracked, TypeNet, NoSelfCall,
             ElectionAwaits, SubmitAwaits, ProgressHeld

LEMMA HeartbeatCallFailsInv ==
  ASSUME Inv, NEW n \in Node, NEW m \in net, HeartbeatCallFails(n, m)
  PROVE  Inv'
<1>. USE DEF Inv, TypeOK, CallsTracked
<1>1. TypeCore' /\ TypeHistory' /\ TypeTasks' /\ UNCHANGED <<progress, election, submit>>
  BY DEF HeartbeatCallFails, TypeCore, TypeHistory, TypeTasks, core, disk, history, tasks
<1>2. AllTracked' /\ OneSubmitCall'
  BY <1>1, TrackedAll, AbandonKeeps DEF HeartbeatCallFails, Tracked, AllTracked
<1>3. ReplicatorsTrack' /\ PeersOnly'
  BY DEF HeartbeatCallFails, ReplicatorsTrack, PeersOnly, core, tasks
<1>. QED  BY <1>1, <1>2, <1>3 DEF AllTracked, Tracked, TypeNet, NoSelfCall,
             ElectionAwaits, SubmitAwaits, ProgressHeld

LEMMA HandleHeartbeatReplyInv ==
  ASSUME Inv, NEW n \in Node, NEW m \in net, HandleHeartbeatReply(n, m)
  PROVE  Inv'
<1>. USE DEF Inv, TypeOK, CallsTracked
<1>0. m.type = "AppendReply" /\ m.dest = n /\ m.task = "heartbeat"
      /\ UNCHANGED <<log, election, beats, diskLog, crashes, ballots, wins>>
  BY DEF HandleHeartbeatReply
<1>1. CASE EndHeartbeat(n, m)
  <2>1. TypeCore' /\ TypeHistory'
    BY <1>0, <1>1 DEF EndHeartbeat, TypeCore, TypeHistory
  <2>2. /\ TypeTasks'
        /\ \A k \in Node : Len(progress'[k]) = Len(progress[k])
        /\ \A k \in net : Tracked(k)'
    BY <1>0, <1>1, AnsweredTracked, TrackedAll DEF EndHeartbeat, TypeTasks, AllTracked, Tracked
  <2>3. AllTracked' /\ OneSubmitCall'
    BY <1>1, <2>2 DEF EndHeartbeat, AllTracked, OneSubmitCall
  <2>4. ReplicatorsTrack' /\ PeersOnly'
    <3>1. \A k \in Node : progress[k] # <<>> => progress'[k] # <<>>
      BY <2>2, EmptySeq DEF TypeTasks
    <3>. QED  BY <1>0, <1>1, <3>1 DEF EndHeartbeat, ReplicatorsTrack, PeersOnly
  <2>. QED  BY <2>1, <2>2, <2>3, <2>4 DEF AllTracked, Tracked, TypeNet, NoSelfCall,
             ElectionAwaits, SubmitAwaits, ProgressHeld
<1>2. CASE DeposedByHeartbeat(n, m)
  <2>1. Observe(state[n], m.term) \in DurableState
    BY <1>0, ReplyKind, ObserveType DEF TypeCore
  <2>2. TypeCore' /\ TypeHistory' /\ TypeTasks'
    BY <1>0, <1>2, <2>1 DEF DeposedByHeartbeat, StepDown, TypeCore, TypeHistory, TypeTasks, Role
  <2>3. AllTracked' /\ OneSubmitCall'
    BY <1>0, <1>2, TrackedAll DEF DeposedByHeartbeat, AllTracked, Tracked, OneSubmitCall
  <2>4. ReplicatorsTrack' /\ PeersOnly'
    BY <1>0, <1>2 DEF DeposedByHeartbeat, StepDown, ReplicatorsTrack, PeersOnly, TypeCore
  <2>. QED  BY <2>2, <2>3, <2>4 DEF AllTracked, Tracked, TypeNet, NoSelfCall,
             ElectionAwaits, SubmitAwaits, ProgressHeld
<1>3. CASE Retry(n, m)
  BY <1>0, <1>3, RetryInv
<1>. QED  BY <1>1, <1>2, <1>3 DEF HandleHeartbeatReply

-----------------------------------------------------------------------------
(* Submitting.                                                             *)

\* The progress dicts of a next state that still belong to the peers.
DictsOK(prog) ==
  /\ DOMAIN prog = Node
  /\ \A k \in Node : prog[k] \in Seq([Peers(k) -> Progress])
  /\ \A k \in Node : Len(prog[k]) >= Len(progress[k])

LEMMA CallNextPeerType ==
  ASSUME TypeTasks, NEW n \in Node, NEW s \in Submission, s.todo \subseteq Peers(n),
         NEW l \in Seq(Entry), NEW st \in DurableState, NEW prog, DictsOK(prog), progress[n] # <<>>,
         NEW base, CallNextPeer(n, s, l, st, prog, base)
  PROVE  /\ submit' \in [Node -> {Nil} \cup Submission]
         /\ submit'[n] # Nil
         /\ submit'[n].todo \subseteq Peers(n)
         /\ \A k \in Node \ {n} : submit'[k] = submit[k]
         /\ UNCHANGED <<store, acked>>
         /\ \E c : /\ net' = base \cup {c}
                  /\ c \in Message
                  /\ c.source # c.dest
                  /\ c.task = "submit"
                  /\ Caller(c) = n
                  /\ c.gen \in 1 .. Len(prog[n])
<1>1. PICK p \in s.todo :
        /\ submit' = [submit EXCEPT ![n] = [s EXCEPT !.todo = s.todo \ {p}]]
        /\ net' = base \cup {AppendPayload(n, p, "submit", Current(n),
                               prog[n][Current(n)][p].nextIndex, st, l)}
        /\ UNCHANGED <<store, acked>>
  BY DEF CallNextPeer
<1>2. p \in Peers(n)
  BY <1>1
<1>3. /\ [s EXCEPT !.todo = s.todo \ {p}] \in Submission
      /\ [s EXCEPT !.todo = s.todo \ {p}].todo = s.todo \ {p}
  BY DEF Submission
<1>4. /\ submit' \in [Node -> {Nil} \cup Submission]
      /\ submit'[n] = [s EXCEPT !.todo = s.todo \ {p}]
      /\ \A k \in Node \ {n} : submit'[k] = submit[k]
  BY <1>1, <1>3 DEF TypeTasks
<1>5. submit'[n] # Nil /\ submit'[n].todo \subseteq Peers(n)
  BY <1>3, <1>4, NilIsNoTask
<1>6. Current(n) \in Nat /\ Current(n) \in 1 .. Len(prog[n])
  <2>1. Len(progress[n]) \in 1 .. Len(progress[n]) /\ Len(progress[n]) \in Nat
    BY LastOfNonEmpty, LenProperties DEF TypeTasks
  <2>2. Len(prog[n]) \in Nat /\ Len(prog[n]) >= Len(progress[n])
    BY LenProperties DEF DictsOK
  <2>. QED  BY <2>1, <2>2 DEF Current
<1>7. PICK position \in Nat \ {0} : position = prog[n][Current(n)][p].nextIndex
  BY <1>2, <1>6, PositionType DEF DictsOK
<1>8. PICK c : c = AppendPayload(n, p, "submit", Current(n), position, st, l)
  OBVIOUS
<1>9. /\ c \in Message
      /\ c.source # c.dest
      /\ c.task = "submit"
      /\ c.gen = Current(n)
      /\ Caller(c) = n
  BY <1>2, <1>6, <1>8, PayloadKind
<1>10. net' = base \cup {c}
  BY <1>1, <1>7, <1>8
<1>. QED  BY <1>1, <1>4, <1>5, <1>6, <1>9, <1>10

\* The end of a submission leaves typed states, whatever applying does.
LEMMA EndSubmitType ==
  ASSUME TypeCore, TypeTasks, TypeHistory, NEW n \in Node, NEW s \in Submission,
         NEW l \in Seq(Entry), NEW st \in DurableState, NEW ds \in DurableState,
         EndSubmit(n, s, l, st, ds)
  PROVE  /\ state' \in [Node -> DurableState]
         /\ diskState' \in [Node -> DurableState]
         /\ store' \in [Node -> Seq(Command)]
         /\ submit' \in [Node -> {Nil} \cup Submission]
         /\ submit'[n] = Nil
         /\ \A k \in Node \ {n} : submit'[k] = submit[k]
         /\ \A e \in acked' : e \in SubmittedEntry
<1>. DEFINE committed == [st EXCEPT !.commitIndex = s.entry.index]
            end == StateAfterApply(store[n], committed, l)
            docs == StoreAfterApply(store[n], committed, l)
<1>1. s.entry \in SubmittedEntry /\ s.entry.index \in Nat
  BY DEF Submission, SubmittedEntry
<1>2. committed \in DurableState
  BY <1>1 DEF DurableState
<1>3. end \in DurableState /\ docs \in Seq(Command)
  <2>. HIDE DEF committed
  <2>. QED  BY <1>2, StateAfterApplyType, StoreAfterApplyType DEF TypeCore
<1>4. /\ submit' = [submit EXCEPT ![n] = Nil]
      /\ state' \in {[state EXCEPT ![n] = st], [state EXCEPT ![n] = end]}
      /\ diskState' \in {[diskState EXCEPT ![n] = ds], [diskState EXCEPT ![n] = end]}
      /\ store' \in {store, [store EXCEPT ![n] = docs]}
      /\ acked' \subseteq acked \cup {s.entry}
  BY DEF EndSubmit
<1>. HIDE DEF committed, end, docs
<1>5. state' \in [Node -> DurableState] /\ diskState' \in [Node -> DurableState]
  <2>1. state' \in [Node -> DurableState]
    <3>1. state' = [state EXCEPT ![n] = st] \/ state' = [state EXCEPT ![n] = end]
      BY <1>4
    <3>. QED  BY <1>3, <3>1 DEF TypeCore
  <2>2. diskState' \in [Node -> DurableState]
    <3>1. diskState' = [diskState EXCEPT ![n] = ds] \/ diskState' = [diskState EXCEPT ![n] = end]
      BY <1>4
    <3>. QED  BY <1>3, <3>1 DEF TypeCore
  <2>. QED  BY <2>1, <2>2
<1>6. store' \in [Node -> Seq(Command)]
  BY <1>3, <1>4 DEF TypeCore
<1>7. /\ submit' \in [Node -> {Nil} \cup Submission]
      /\ submit'[n] = Nil
      /\ \A k \in Node \ {n} : submit'[k] = submit[k]
  BY <1>4 DEF TypeTasks
<1>8. \A e \in acked' : e \in SubmittedEntry
  BY <1>1, <1>4 DEF TypeHistory
<1>. QED  BY <1>5, <1>6, <1>7, <1>8

LEMMA SubmitCall ==
  ASSUME Inv, NEW n \in Node, NEW m \in net, m.task = "submit", Caller(m) = n
  PROVE  /\ submit[n] \in Submission
         /\ submit[n].todo \subseteq Peers(n)
         /\ submit[n].replicated \in SUBSET Node
         /\ progress[n] # <<>>
         /\ \A k \in net \ {m} : k.task = "submit" => Caller(k) # n
<1>1. submit[n] # Nil
  BY TrackedAll DEF AllTracked, Tracked
<1>2. submit[n] \in Submission
  BY <1>1 DEF Inv, TypeOK, TypeTasks
<1>. QED  BY <1>1, <1>2 DEF Inv, CallsTracked, PeersOnly, ReplicatorsTrack, OneSubmitCall, Submission

\* However a call of the submission returned, the loop goes on or ends.
LEMMA ResumeInv ==
  ASSUME Inv, NEW n \in Node, NEW m \in net, m.task = "submit", Caller(m) = n,
         NEW replicated \in SUBSET Node, NEW st \in DurableState, NEW ds \in DurableState,
         NEW prog, DictsOK(prog), progress' = prog,
         NEW base, \A k \in base : k \in net \ {m} \/ Stray(k),
         Resume(n, replicated, st, ds, prog, base),
         role' \in [Node -> Role], leaderId' \in [Node -> Node \cup {Nil}],
         \A k \in Node : role'[k] = "leader" => role[k] = "leader",
         UNCHANGED <<log, election, beats, diskLog, crashes, ballots, wins>>
  PROVE  Inv'
<1>. DEFINE s == [submit[n] EXCEPT !.replicated = replicated]
<1>1. /\ s \in Submission
      /\ s.todo \subseteq Peers(n)
  BY SubmitCall DEF Submission
<1>. HIDE DEF s
<1>2. log[n] \in Seq(Entry)
  BY DEF Inv, TypeOK, TypeCore
<1>3. \A k \in Node : progress[k] # <<>> => progress'[k] # <<>>
  <2>. SUFFICES ASSUME NEW k \in Node, progress[k] # <<>>, progress'[k] = <<>>
                PROVE  FALSE
    OBVIOUS
  <2>1. Len(progress[k]) \in 1 .. Len(progress[k])
    BY LastOfNonEmpty DEF Inv, TypeOK, TypeTasks
  <2>2. Len(progress'[k]) = 0
    BY EmptySeq
  <2>. QED  BY <2>1, <2>2 DEF DictsOK
<1>4. \/ /\ CallNextPeer(n, s, log[n], st, prog, base)
         /\ state' = [state EXCEPT ![n] = st]
         /\ diskState' = [diskState EXCEPT ![n] = ds]
      \/ /\ EndSubmit(n, s, log[n], st, ds)
         /\ net' = base
  BY DEF Resume, s
<1>5. /\ TypeCore' /\ TypeHistory'
      /\ submit' \in [Node -> {Nil} \cup Submission]
      /\ submit'[n] = Nil \/ submit'[n].todo \subseteq Peers(n)
      /\ \A k \in Node \ {n} : submit'[k] = submit[k]
  <2>1. CASE CallNextPeer(n, s, log[n], st, prog, base)
             /\ state' = [state EXCEPT ![n] = st]
             /\ diskState' = [diskState EXCEPT ![n] = ds]
    <3>1. /\ submit' \in [Node -> {Nil} \cup Submission]
          /\ submit'[n].todo \subseteq Peers(n)
          /\ \A k \in Node \ {n} : submit'[k] = submit[k]
          /\ UNCHANGED <<store, acked>>
      BY <1>1, <1>2, <2>1, SubmitCall, CallNextPeerType DEF Inv, TypeOK
    <3>2. TypeCore' /\ TypeHistory'
      BY <2>1, <3>1 DEF Inv, TypeOK, TypeCore, TypeHistory
    <3>. QED  BY <3>1, <3>2
  <2>2. CASE EndSubmit(n, s, log[n], st, ds)
    BY <1>1, <1>2, <2>2, EndSubmitType DEF Inv, TypeOK, TypeCore, TypeHistory
  <2>. QED  BY <1>4, <2>1, <2>2
<1>6. TypeTasks'
  BY <1>5 DEF Inv, TypeOK, TypeTasks, DictsOK
<1>7. \A k \in base : Tracked(k)' /\ (k.task = "submit" => Caller(k) # n)
  <2>. SUFFICES ASSUME NEW k \in base
                PROVE  Tracked(k)' /\ (k.task = "submit" => Caller(k) # n)
    OBVIOUS
  <2>1. CASE Stray(k)
    BY <2>1, StrayTracked DEF Stray
  <2>2. CASE k \in net \ {m}
    <3>1. Tracked(k) /\ Caller(k) \in Node
      BY <2>2, TrackedAll, MessageKinds DEF AllTracked, Tracked
    <3>2. k.task = "submit" => Caller(k) # n
      BY <2>2, SubmitCall
    <3>3. k.task = "submit" => submit'[Caller(k)] # Nil
      BY <1>5, <3>1, <3>2 DEF Tracked
    <3>4. k.task = "election" => election'[Caller(k)] # Nil
      BY <3>1 DEF Tracked
    <3>5. Len(progress'[Caller(k)]) >= Len(progress[Caller(k)])
      BY <3>1 DEF DictsOK
    <3>. QED  BY <1>6, <3>1, <3>2, <3>3, <3>4, <3>5, TrackedKept DEF Inv, TypeOK
  <2>. QED  BY <2>1, <2>2
<1>8. AllTracked' /\ OneSubmitCall'
  <2>1. \A a, b \in base : a.task = "submit" /\ b.task = "submit" /\ Caller(a) = Caller(b) => a = b
    BY DEF Inv, CallsTracked, OneSubmitCall, Stray
  <2>2. CASE CallNextPeer(n, s, log[n], st, prog, base)
    <3>1. /\ submit'[n] # Nil
          /\ \E c : /\ net' = base \cup {c}
                   /\ c \in Message
                   /\ c.source # c.dest
                   /\ c.task = "submit"
                   /\ Caller(c) = n
                   /\ c.gen \in 1 .. Len(prog[n])
      BY <1>1, <1>2, <2>2, SubmitCall, CallNextPeerType DEF Inv, TypeOK
    <3>2. PICK c : /\ net' = base \cup {c}
                   /\ c \in Message
                   /\ c.source # c.dest
                   /\ c.task = "submit"
                   /\ Caller(c) = n
                   /\ c.gen \in 1 .. Len(prog[n])
      BY <3>1
    <3>3. Tracked(c)'
      BY <3>1, <3>2 DEF Tracked
    <3>. QED  BY <1>7, <2>1, <3>2, <3>3 DEF AllTracked, OneSubmitCall
  <2>3. CASE net' = base
    BY <1>7, <2>1, <2>3 DEF AllTracked, OneSubmitCall
  <2>. QED  BY <1>4, <2>2, <2>3
<1>9. PeersOnly' /\ ReplicatorsTrack'
  <2>1. PeersOnly'
    BY <1>5 DEF Inv, CallsTracked, PeersOnly
  <2>2. progress[n] # <<>>
    BY SubmitCall
  <2>. QED  BY <1>3, <1>5, <2>1, <2>2 DEF Inv, CallsTracked, ReplicatorsTrack
<1>. QED  BY <1>5, <1>6, <1>8, <1>9 DEF Inv, TypeOK, CallsTracked, AllTracked, Tracked, TypeNet,
             NoSelfCall, ElectionAwaits, SubmitAwaits, ProgressHeld

LEMMA HandleSubmitReplyInv ==
  ASSUME Inv, NEW n \in Node, NEW m \in net, HandleSubmitReply(n, m)
  PROVE  Inv'
<1>0. /\ m.type = "AppendReply" /\ m.dest = n /\ m.task = "submit" /\ Caller(m) = n
      /\ UNCHANGED <<log, election, beats, diskLog, crashes, ballots, wins>>
  BY ReplyKind DEF HandleSubmitReply
<1>1. \A k \in net \ {m} : k \in net \ {m} \/ Stray(k)
  OBVIOUS
<1>2. state[n] \in DurableState /\ diskState[n] \in DurableState
  BY DEF Inv, TypeOK, TypeCore
<1>3. CASE Replicate(n, m)
  <2>1. PICK prog : prog = ProgressAfter(n, m)
    OBVIOUS
  <2>2. DictsOK(prog)
    <3>1. \A k \in Node : Len(progress[k]) \in Nat
      BY LenProperties DEF Inv, TypeOK, TypeTasks
    <3>. QED  BY <1>0, <2>1, <3>1, ReplyKind, ProgressAfterType DEF DictsOK, Inv, TypeOK
  <2>3. PICK counted \in SUBSET Node : counted = Replicated(n, m)
    <3>1. submit[n].replicated \in SUBSET Node /\ m.source \in Node
      BY <1>0, SubmitCall, ReplyKind DEF Peers
    <3>2. submit[n].replicated \cup {m.source} \in SUBSET Node
      BY <3>1
    <3>3. Replicated(n, m) \in {submit[n].replicated, submit[n].replicated \cup {m.source}}
      BY DEF Replicated
    <3>. QED  BY <3>1, <3>2, <3>3
  <2>4. Resume(n, counted, state[n], diskState[n], prog, net \ {m})
        /\ progress' = prog /\ UNCHANGED <<role, leaderId>>
    BY <1>3, <2>1, <2>3 DEF Replicate
  <2>5. role' \in [Node -> Role] /\ leaderId' \in [Node -> Node \cup {Nil}]
    BY <2>4 DEF Inv, TypeOK, TypeCore
  <2>. QED  BY <1>0, <1>1, <1>2, <2>2, <2>4, <2>5, ResumeInv
<1>4. CASE DeposedBySubmit(n, m)
  <2>1. PICK st \in DurableState : st = Observe(state[n], m.term)
    BY <1>0, <1>2, ReplyKind, ObserveType
  <2>2. DictsOK(progress)
    BY LenProperties DEF DictsOK, Inv, TypeOK, TypeTasks
  <2>3. /\ Resume(n, submit[n].replicated, st, st, progress, net \ {m})
        /\ StepDown(n) /\ progress' = progress
    BY <1>4, <2>1 DEF DeposedBySubmit
  <2>4. /\ role' \in [Node -> Role] /\ leaderId' \in [Node -> Node \cup {Nil}]
        /\ \A k \in Node : role'[k] = "leader" => role[k] = "leader"
    BY <2>3 DEF StepDown, Inv, TypeOK, TypeCore, Role
  <2>5. submit[n].replicated \in SUBSET Node
    BY <1>0, SubmitCall
  <2>. QED  BY <1>0, <1>1, <2>2, <2>3, <2>4, <2>5, ResumeInv
<1>5. CASE Retry(n, m)
  BY <1>0, <1>5, RetryInv
<1>. QED  BY <1>3, <1>4, <1>5 DEF HandleSubmitReply

LEMMA SubmitCallFailsInv ==
  ASSUME Inv, NEW n \in Node, NEW m \in net, SubmitCallFails(n, m)
  PROVE  Inv'
<1>1. m.task = "submit" /\ Caller(m) = n
  BY DEF SubmitCallFails, Calls
<1>2. PICK left \in Leftovers({m}) :
        Resume(n, submit[n].replicated, state[n], diskState[n], progress, (net \ {m}) \cup left)
  BY DEF SubmitCallFails
<1>3. \A k \in (net \ {m}) \cup left : k \in net \ {m} \/ Stray(k)
  BY LeftoversStray DEF Inv, TypeOK, CallsTracked
<1>4. DictsOK(progress)
  BY LenProperties DEF DictsOK, Inv, TypeOK, TypeTasks
<1>5. /\ state[n] \in DurableState /\ diskState[n] \in DurableState
      /\ role' \in [Node -> Role] /\ leaderId' \in [Node -> Node \cup {Nil}]
      /\ \A k \in Node : role'[k] = "leader" => role[k] = "leader"
      /\ progress' = progress
      /\ UNCHANGED <<log, election, beats, diskLog, crashes, ballots, wins>>
  BY DEF SubmitCallFails, Inv, TypeOK, TypeCore
<1>6. submit[n].replicated \in SUBSET Node
  BY <1>1, SubmitCall
<1>. QED  BY <1>1, <1>2, <1>3, <1>4, <1>5, <1>6, ResumeInv

LEMMA NewSubmissionType ==
  ASSUME TypeCore, NEW n \in Node, NEW c \in Command, NEW term \in Nat
  PROVE  /\ NewSubmission(n, c, term) \in Submission
         /\ NewSubmission(n, c, term).todo = Peers(n)
         /\ Append(log[n], [term |-> term, command |-> c]) \in Seq(Entry)
<1>1. Len(log[n]) + 1 \in Nat /\ log[n] \in Seq(Entry)
  BY LenProperties DEF TypeCore
<1>2. [term |-> term, command |-> c] \in Entry
  BY DEF Entry
<1>. QED  BY <1>1, <1>2, AppendProperties DEF NewSubmission, Submission, SubmittedEntry, Peers

\* While a node's lock is free no submission of its own has a call.
LEMMA NoSubmitCall ==
  ASSUME Inv, NEW n \in Node, LockFree(n), NEW k \in net, k.task = "submit"
  PROVE  Caller(k) # n
BY DEF LockFree, Inv, CallsTracked, SubmitAwaits

LEMMA SubmitCommandInv ==
  ASSUME Inv, NEW n \in Node, NEW c \in Command, SubmitCommand(n, c)
  PROVE  Inv'
<1>1. /\ LockFree(n) /\ role[n] = "leader"
      /\ UNCHANGED <<role, leaderId, progress, election, beats, crashes, ballots, wins>>
  BY DEF SubmitCommand
<1>2. state[n] \in DurableState /\ diskState[n] \in DurableState /\ state[n].currentTerm \in Nat
  BY DEF Inv, TypeOK, TypeCore, DurableState
<1>3. PICK s, l : /\ s = NewSubmission(n, c, state[n].currentTerm)
                  /\ l = Append(log[n], [term |-> state[n].currentTerm, command |-> c])
  OBVIOUS
<1>4. s \in Submission /\ s.todo \subseteq Peers(n) /\ l \in Seq(Entry)
  BY <1>2, <1>3, NewSubmissionType DEF Inv, TypeOK
<1>5. /\ log' = [log EXCEPT ![n] = l]
      /\ diskLog' = [diskLog EXCEPT ![n] = l]
      /\ \/ /\ CallNextPeer(n, s, l, state[n], progress, net)
            /\ UNCHANGED <<state, diskState>>
         \/ /\ EndSubmit(n, s, l, state[n], diskState[n])
            /\ UNCHANGED net
  BY <1>3 DEF SubmitCommand
<1>6. progress[n] # <<>> /\ DictsOK(progress)
  BY <1>1, LenProperties DEF Inv, CallsTracked, ReplicatorsTrack, DictsOK, TypeOK, TypeTasks
<1>7. \A k \in net : Tracked(k) /\ Caller(k) \in Node /\ (k.task = "submit" => Caller(k) # n)
  BY <1>1, TrackedAll, MessageKinds, NoSubmitCall DEF AllTracked, Tracked
<1>8. CASE CallNextPeer(n, s, l, state[n], progress, net) /\ UNCHANGED <<state, diskState>>
  <2>1. /\ submit' \in [Node -> {Nil} \cup Submission]
        /\ submit'[n] # Nil
        /\ submit'[n].todo \subseteq Peers(n)
        /\ \A k \in Node \ {n} : submit'[k] = submit[k]
        /\ UNCHANGED <<store, acked>>
        /\ \E k : /\ net' = net \cup {k}
                  /\ k \in Message
                  /\ k.source # k.dest
                  /\ k.task = "submit"
                  /\ Caller(k) = n
                  /\ k.gen \in 1 .. Len(progress[n])
    BY <1>2, <1>4, <1>6, <1>8, CallNextPeerType DEF Inv, TypeOK
  <2>2. PICK call : /\ net' = net \cup {call}
                    /\ call \in Message
                    /\ call.source # call.dest
                    /\ call.task = "submit"
                    /\ Caller(call) = n
                    /\ call.gen \in 1 .. Len(progress[n])
    BY <2>1
  <2>3. TypeCore' /\ TypeTasks' /\ TypeHistory'
    BY <1>1, <1>4, <1>5, <1>8, <2>1 DEF Inv, TypeOK, TypeCore, TypeTasks, TypeHistory
  <2>4. Tracked(call)'
    BY <1>1, <2>1, <2>2 DEF Tracked
  <2>5. \A k \in net : Tracked(k)'
    BY <1>1, <1>7, <2>1 DEF Tracked
  <2>6. AllTracked' /\ OneSubmitCall'
    BY <1>7, <2>2, <2>4, <2>5 DEF AllTracked, OneSubmitCall, Inv, CallsTracked
  <2>7. ReplicatorsTrack' /\ PeersOnly'
    BY <1>1, <1>6, <2>1 DEF ReplicatorsTrack, PeersOnly, Inv, CallsTracked
  <2>. QED  BY <2>3, <2>6, <2>7 DEF Inv, TypeOK, CallsTracked, AllTracked, Tracked, TypeNet,
             NoSelfCall, ElectionAwaits, SubmitAwaits, ProgressHeld
<1>9. CASE EndSubmit(n, s, l, state[n], diskState[n]) /\ UNCHANGED net
  <2>1. /\ state' \in [Node -> DurableState]
        /\ diskState' \in [Node -> DurableState]
        /\ store' \in [Node -> Seq(Command)]
        /\ submit' \in [Node -> {Nil} \cup Submission]
        /\ submit'[n] = Nil
        /\ \A k \in Node \ {n} : submit'[k] = submit[k]
        /\ \A e \in acked' : e \in SubmittedEntry
    BY <1>2, <1>4, <1>9, EndSubmitType DEF Inv, TypeOK
  <2>2. TypeCore' /\ TypeTasks' /\ TypeHistory'
    BY <1>1, <1>4, <1>5, <2>1 DEF Inv, TypeOK, TypeCore, TypeTasks, TypeHistory
  <2>3. \A k \in net : Tracked(k)'
    BY <1>1, <1>7, <2>1 DEF Tracked
  <2>4. AllTracked' /\ OneSubmitCall'
    BY <1>9, <2>3 DEF AllTracked, OneSubmitCall, Inv, CallsTracked
  <2>5. ReplicatorsTrack' /\ PeersOnly'
    BY <1>1, <2>1 DEF ReplicatorsTrack, PeersOnly, Inv, CallsTracked
  <2>. QED  BY <2>2, <2>4, <2>5 DEF Inv, TypeOK, CallsTracked, AllTracked, Tracked, TypeNet,
             NoSelfCall, ElectionAwaits, SubmitAwaits, ProgressHeld
<1>. QED  BY <1>5, <1>8, <1>9

LEMMA SubmitToSoleVoterInv ==
  ASSUME Inv, NEW n \in Node, NEW c \in Command, SubmitToSoleVoter(n, c)
  PROVE  Inv'
<1>1. PICK st, s, l : /\ st = Campaigning(n)
                      /\ s = NewSubmission(n, c, st.currentTerm)
                      /\ l = Append(log[n], [term |-> st.currentTerm, command |-> c])
  OBVIOUS
<1>2. /\ BecomeLeader(n, st.currentTerm)
      /\ ballots' = ballots \cup {Ballot(st.currentTerm, n, n)}
      /\ log' = [log EXCEPT ![n] = l]
      /\ diskLog' = [diskLog EXCEPT ![n] = l]
      /\ EndSubmit(n, s, l, st, st)
      /\ LockFree(n)
      /\ UNCHANGED <<election, beats, net, crashes>>
  BY <1>1 DEF SubmitToSoleVoter
<1>3. st \in DurableState /\ st.currentTerm \in Nat
  BY <1>1, CampaigningType DEF Inv, TypeOK, DurableState
<1>4. s \in Submission /\ l \in Seq(Entry)
  BY <1>1, <1>3, NewSubmissionType DEF Inv, TypeOK
<1>5. /\ state' \in [Node -> DurableState]
      /\ diskState' \in [Node -> DurableState]
      /\ store' \in [Node -> Seq(Command)]
      /\ submit' \in [Node -> {Nil} \cup Submission]
      /\ submit'[n] = Nil
      /\ \A k \in Node \ {n} : submit'[k] = submit[k]
      /\ \A e \in acked' : e \in SubmittedEntry
  BY <1>2, <1>3, <1>4, EndSubmitType DEF Inv, TypeOK
<1>6. /\ role' \in [Node -> Role]
      /\ leaderId' \in [Node -> Node \cup {Nil}]
      /\ DOMAIN progress' = Node
      /\ \A k \in Node : progress'[k] \in Seq([Peers(k) -> Progress])
      /\ \A k \in Node : Len(progress'[k]) >= Len(progress[k])
      /\ progress'[n] # <<>>
      /\ \A k \in Node \ {n} : progress'[k] = progress[k] /\ role'[k] = role[k]
      /\ wins' \subseteq E!Win
  BY <1>2, <1>3, BecomeLeaderType DEF Inv, TypeOK
<1>7. TypeCore' /\ TypeTasks'
  BY <1>2, <1>4, <1>5, <1>6 DEF Inv, TypeOK, TypeCore, TypeTasks
<1>8. TypeHistory'
  BY <1>2, <1>3, <1>5, <1>6 DEF Inv, TypeOK, TypeHistory, Ballot, E!Ballot
<1>9. \A k \in net : Tracked(k)'
  <2>. SUFFICES ASSUME NEW k \in net PROVE Tracked(k)'
    OBVIOUS
  <2>1. Tracked(k) /\ Caller(k) \in Node /\ (k.task = "submit" => Caller(k) # n)
    BY <1>2, TrackedAll, MessageKinds, NoSubmitCall DEF AllTracked, Tracked
  <2>2. k.task = "submit" => submit'[Caller(k)] # Nil
    BY <1>5, <2>1 DEF Tracked
  <2>3. k.task = "election" => election'[Caller(k)] # Nil
    BY <1>2, <2>1 DEF Tracked
  <2>. QED  BY <1>6, <1>7, <2>1, <2>2, <2>3, TrackedKept DEF Inv, TypeOK
<1>10. AllTracked' /\ OneSubmitCall'
  BY <1>2, <1>9 DEF AllTracked, OneSubmitCall, Inv, CallsTracked
<1>11. ReplicatorsTrack' /\ PeersOnly'
  BY <1>2, <1>5, <1>6 DEF ReplicatorsTrack, PeersOnly, Inv, CallsTracked
<1>. QED  BY <1>7, <1>8, <1>10, <1>11 DEF Inv, TypeOK, CallsTracked, AllTracked, Tracked, TypeNet,
             NoSelfCall, ElectionAwaits, SubmitAwaits, ProgressHeld

-----------------------------------------------------------------------------
(* Crashes.                                                                *)

\* A restarted process has no task, and no call of its own is waited for.
LEMMA ReloadInv ==
  ASSUME Inv, NEW n \in Node, NEW ds \in DurableState, NEW l \in Seq(Entry),
         NEW docs \in Seq(Command), Reload(n, ds, l, docs),
         AllTracked', OneSubmitCall'
  PROVE  Inv'
<1>1. TypeCore'
  BY DEF Reload, Inv, TypeOK, TypeCore, Role
<1>2. TypeTasks' /\ progress'[n] = <<>>
  BY EmptySeq DEF Reload, Inv, TypeOK, TypeTasks
<1>3. TypeHistory'
  BY BoundAssumption DEF Reload, Inv, TypeOK, TypeHistory, history
<1>4. ReplicatorsTrack' /\ PeersOnly'
  BY DEF Reload, Inv, TypeOK, TypeCore, TypeTasks, CallsTracked, ReplicatorsTrack, PeersOnly
<1>. QED  BY <1>1, <1>2, <1>3, <1>4 DEF Inv, TypeOK, CallsTracked, AllTracked, Tracked, TypeNet,
             NoSelfCall, ElectionAwaits, SubmitAwaits, ProgressHeld

\* The other nodes' calls are as they were.
LEMMA ReloadKeeps ==
  ASSUME Inv, NEW n \in Node, NEW ds, NEW l, NEW docs, Reload(n, ds, l, docs),
         NEW k \in net \ OwnCalls(n)
  PROVE  Tracked(k)' /\ (k.task = "none" \/ Caller(k) # n)
<1>1. Tracked(k) /\ Caller(k) \in Node
  BY TrackedAll, MessageKinds DEF AllTracked, Tracked
<1>2. k.task \in {"election", "heartbeat", "submit", "none"}
  BY <1>1 DEF Tracked, Message, RequestVote, VoteReply, AppendEntries, AppendReply, ServerError
<1>3. k.task = "none" \/ Caller(k) # n
  BY <1>2 DEF OwnCalls, Calls
<1>4. \A j \in Node \ {n} : /\ election'[j] = election[j]
                            /\ submit'[j] = submit[j]
                            /\ progress'[j] = progress[j]
  BY DEF Reload, Inv, TypeOK, TypeTasks
<1>. QED  BY <1>1, <1>3, <1>4 DEF Tracked

LEMMA OwnCallsOfNet == \A n : OwnCalls(n) \in SUBSET net
BY DEF OwnCalls, Calls

LEMMA RestartInv ==
  ASSUME Inv, NEW n \in Node, Restart(n)
  PROVE  Inv'
<1>1. Reload(n, diskState[n], diskLog[n], store[n]) /\ Abandon(OwnCalls(n))
  BY DEF Restart
<1>2. /\ diskState[n] \in DurableState /\ diskLog[n] \in Seq(Entry)
      /\ store[n] \in Seq(Command)
  BY DEF Inv, TypeOK, TypeCore
<1>3. AllTracked' /\ OneSubmitCall'
  BY <1>1, ReloadKeeps, AbandonKeeps, OwnCallsOfNet
<1>. QED  BY <1>1, <1>2, <1>3, ReloadInv

LEMMA CrashInSoleSubmitInv ==
  ASSUME Inv, NEW n \in Node, NEW c \in Command, CrashInSoleSubmit(n, c)
  PROVE  Inv'
<1>1. /\ diskState[n] \in DurableState /\ state[n] \in DurableState
      /\ log[n] \in Seq(Entry) /\ store[n] \in Seq(Command)
  BY DEF Inv, TypeOK, TypeCore
<1>2. PICK l \in Seq(Entry) :
        /\ l = Append(log[n], [term |-> state[n].currentTerm, command |-> c])
        /\ Len(l) \in Nat
  <2>1. state[n].currentTerm \in Nat
    BY <1>1 DEF DurableState
  <2>2. [term |-> state[n].currentTerm, command |-> c] \in Entry
    BY <2>1 DEF Entry
  <2>3. Append(log[n], [term |-> state[n].currentTerm, command |-> c]) \in Seq(Entry)
    BY <1>1, <2>2, AppendProperties
  <2>. QED  BY <2>3, LenProperties
<1>3. PICK batch \in Seq(Command) :
        batch = Unapplied([state[n] EXCEPT !.commitIndex = Len(l)], l)
  <2>1. [state[n] EXCEPT !.commitIndex = Len(l)] \in DurableState
    BY <1>1, <1>2 DEF DurableState
  <2>. QED  BY <1>2, <2>1, UnappliedType
<1>4. PICK k \in 0 .. AppliedCount(store[n], batch) :
        Reload(n, diskState[n], l, store[n] \o SubSeq(batch, 1, k))
  BY <1>2, <1>3 DEF CrashInSoleSubmit
<1>5. PICK docs \in Seq(Command) : docs = store[n] \o SubSeq(batch, 1, k)
  <2>1. AppliedCount(store[n], batch) \in 0 .. Len(batch) /\ Len(batch) \in Nat
    BY <1>1, <1>3, AppliedCountType, LenProperties
  <2>2. SubSeq(batch, 1, k) \in Seq(Command)
    BY <1>3, <2>1, SubSeqProperties
  <2>. QED  BY <1>1, <2>2, ConcatProperties
<1>6. Abandon(OwnCalls(n))
  BY DEF CrashInSoleSubmit
<1>7. AllTracked' /\ OneSubmitCall'
  BY <1>4, <1>6, ReloadKeeps, AbandonKeeps, OwnCallsOfNet
<1>. QED  BY <1>1, <1>2, <1>4, <1>5, <1>7, ReloadInv

LEMMA CrashInSubmitInv ==
  ASSUME Inv, NEW n \in Node, NEW m \in net, CrashInSubmit(n, m)
  PROVE  Inv'
<1>1. m.task = "submit" /\ Caller(m) = n /\ Abandon(OwnCalls(n))
  BY DEF CrashInSubmit, Calls
<1>2. submit[n] \in Submission
  BY <1>1, SubmitCall
<1>3. /\ state[n] \in DurableState /\ diskState[n] \in DurableState
      /\ log[n] \in Seq(Entry) /\ diskLog[n] \in Seq(Entry) /\ store[n] \in Seq(Command)
  BY DEF Inv, TypeOK, TypeCore
<1>4. PICK answered \in {m.type = "AppendReply", FALSE} :
        LET deposed == answered /\ Deposes(n, m)
            st == IF deposed THEN Observe(state[n], m.term) ELSE state[n]
            batch == Unapplied([st EXCEPT !.commitIndex = submit[n].entry.index], log[n])
        IN  \E k \in 1 .. AppliedCount(store[n], batch) :
              Reload(n, IF deposed THEN st ELSE diskState[n], diskLog[n],
                     store[n] \o SubSeq(batch, 1, k))
  BY DEF CrashInSubmit
<1>. DEFINE deposed == answered /\ Deposes(n, m)
            st == IF deposed THEN Observe(state[n], m.term) ELSE state[n]
            committed == [st EXCEPT !.commitIndex = submit[n].entry.index]
            batch == Unapplied(committed, log[n])
<1>5. st \in DurableState
  <2>1. CASE deposed
    <3>1. m \in AppendReply /\ m.term \in Nat
      BY <2>1, MessageKinds DEF Inv, TypeOK, TypeNet, AppendReply, Term
    <3>. QED  BY <1>3, <2>1, <3>1, ObserveType
  <2>2. CASE ~deposed
    BY <1>3, <2>2
  <2>. QED  BY <2>1, <2>2
<1>6. batch \in Seq(Command)
  <2>. HIDE DEF st
  <2>1. submit[n].entry.index \in Nat
    BY <1>2 DEF Submission, SubmittedEntry
  <2>2. committed \in DurableState
    BY <1>5, <2>1 DEF DurableState
  <2>. HIDE DEF committed
  <2>. QED  BY <1>3, <2>2, UnappliedType
<1>7. PICK k \in 1 .. AppliedCount(store[n], batch) :
        Reload(n, IF deposed THEN st ELSE diskState[n], diskLog[n],
               store[n] \o SubSeq(batch, 1, k))
  BY <1>4
<1>8. PICK ds \in DurableState : ds = IF deposed THEN st ELSE diskState[n]
  BY <1>3, <1>5
<1>9. PICK docs \in Seq(Command) : docs = store[n] \o SubSeq(batch, 1, k)
  <2>. HIDE DEF batch
  <2>1. k \in 0 .. Len(batch)
    BY <1>6, AppliedCountType, LenProperties
  <2>. QED  BY <1>3, <1>6, <2>1, WritesType
<1>10. Reload(n, ds, diskLog[n], docs)
  BY <1>7, <1>8, <1>9
<1>11. AllTracked' /\ OneSubmitCall'
  BY <1>1, <1>10, ReloadKeeps, AbandonKeeps, OwnCallsOfNet
<1>. QED  BY <1>3, <1>10, <1>11, ReloadInv

LEMMA CrashInAppendInv ==
  ASSUME Inv, NEW n \in Node, NEW m \in net, CrashInAppend(n, m)
  PROVE  Inv'
<1>. DEFINE l == LogAfterAppend(state[n], log[n], m)
            st == StateAfterAppend(state[n], log[n], m)
            batch == Unapplied(st, l)
            reply == Failure(n, m)
<1>1. /\ m \in AppendEntries /\ Payload(m) /\ m.source \in Peers(n) /\ m.dest = n
      /\ IsRequest(m) /\ Caller(m) = m.source /\ Caller(m) # n
  <2>1. m \in AppendEntries /\ m.dest = n /\ m.source # m.dest /\ m.source \in Node
    BY MessageKinds DEF CrashInAppend, Inv, TypeOK, TypeNet, CallsTracked, NoSelfCall
  <2>. QED  BY <2>1 DEF AppendEntries, Payload, Term, Index, IsRequest, Caller, Peers
<1>2. /\ state[n] \in DurableState /\ diskState[n] \in DurableState
      /\ log[n] \in Seq(Entry) /\ store[n] \in Seq(Command)
  BY DEF Inv, TypeOK, TypeCore
<1>3. l \in Seq(Entry) /\ st \in DurableState
  BY <1>1, <1>2, LogAfterAppendType, StateAfterAppendType
<1>4. PICK k \in 0 .. AppliedCount(store[n], batch) :
        Reload(n, diskState[n], l, store[n] \o SubSeq(batch, 1, k))
  BY DEF CrashInAppend
<1>5. PICK left \in Leftovers(OwnCalls(n)) :
        net' = (Answer(m, reply) \ OwnCalls(n)) \cup left
  BY DEF CrashInAppend
<1>6. PICK docs \in Seq(Command) : docs = store[n] \o SubSeq(batch, 1, k)
  <2>. HIDE DEF l, st
  <2>1. batch \in Seq(Command)
    BY <1>3, UnappliedType
  <2>. HIDE DEF batch
  <2>2. k \in 0 .. Len(batch)
    BY <2>1, AppliedCountType, LenProperties
  <2>. QED  BY <1>2, <2>1, <2>2, WritesType
<1>7. Reload(n, diskState[n], l, docs)
  BY <1>4, <1>6
<1>. HIDE DEF l, st, batch
<1>8. \A k1 \in left : Stray(k1)
  BY OwnCallsOfNet, LeftoversStray DEF Inv, TypeOK, CallsTracked
<1>9. m \in net \ OwnCalls(n)
  BY <1>1 DEF OwnCalls, Calls
<1>10. /\ reply.type = "ServerError" /\ reply.task = m.task
       /\ reply.source = n /\ reply.dest = m.source
       /\ Caller(reply) = Caller(m) /\ Caller(reply) # n
       /\ m.task # "none" => reply \in Message
  BY <1>1 DEF Failure, Message, ServerError, AppendEntries, Caller, IsRequest, Peers
<1>. HIDE DEF reply
<1>11. m.task # "none" => Tracked(reply)'
  <2>1. Tracked(m)'
    BY <1>7, <1>9, ReloadKeeps
  <2>. QED  BY <1>1, <1>10, <2>1 DEF Tracked, Peers
<1>12. \A k1 \in net' : \/ k1 \in net \ OwnCalls(n) /\ k1 # m
                        \/ Stray(k1)
                        \/ k1 = reply /\ m.task # "none"
  BY <1>5, <1>8 DEF Answer
<1>13. AllTracked'
  BY <1>7, <1>11, <1>12, ReloadKeeps, StrayTracked DEF AllTracked
<1>14. OneSubmitCall'
  BY <1>9, <1>10, <1>12 DEF OneSubmitCall, Stray, Inv, CallsTracked
<1>. QED  BY <1>2, <1>3, <1>7, <1>13, <1>14, ReloadInv

-----------------------------------------------------------------------------
LEMMA StutterInv ==
  ASSUME Inv, UNCHANGED vars
  PROVE  Inv'
<1>. USE DEF vars
<1>1. TypeOK'
  BY DEF Inv, TypeOK, TypeCore, TypeTasks, TypeNet, TypeHistory
<1>2. CallsTracked'
  BY DEF Inv, CallsTracked, NoSelfCall, ElectionAwaits, SubmitAwaits, OneSubmitCall,
         ProgressHeld, ReplicatorsTrack, PeersOnly
<1>. QED  BY <1>1, <1>2 DEF Inv

LEMMA StepInv == Inv /\ [Next]_vars => Inv'
<1>. SUFFICES ASSUME Inv, [Next]_vars PROVE Inv'
  OBVIOUS
<1>1. ASSUME NEW n \in Node, ElectionStep(n)
      PROVE  Inv'
  BY <1>1, StartElectionInv, HandleRequestVoteInv, HandleVoteReplyInv, VoteCallFailsInv
  DEF ElectionStep
<1>2. ASSUME NEW n \in Node, HeartbeatStep(n)
      PROVE  Inv'
  BY <1>2, HeartbeatInv, SendHeartbeatInv, HandleHeartbeatReplyInv, HeartbeatCallFailsInv
  DEF HeartbeatStep
<1>3. ASSUME NEW n \in Node, SubmitStep(n)
      PROVE  Inv'
  BY <1>3, SubmitCommandInv, SubmitToSoleVoterInv, HandleSubmitReplyInv, SubmitCallFailsInv
  DEF SubmitStep
<1>4. ASSUME NEW n \in Node, CrashStep(n)
      PROVE  Inv'
  BY <1>4, RestartInv, CrashInAppendInv, CrashInSubmitInv, CrashInSoleSubmitInv DEF CrashStep
<1>. QED  BY <1>1, <1>2, <1>3, <1>4, StutterInv, HandleAppendEntriesInv DEF Next, AppendStep

\* The inductive invariant holds of every behaviour.
LEMMA AlwaysInv == Spec => []Inv
<1>1. Init => Inv
  BY InitInv
<1>2. Inv /\ [Next]_vars => Inv'
  BY StepInv
<1>. QED  BY <1>1, <1>2, PTL DEF Spec

\* Every variable keeps its type, for any voters, commands and bounds.
THEOREM TypeCorrect == Spec => []TypeOK
<1>1. Inv => TypeOK
  BY DEF Inv
<1>. QED  BY <1>1, AlwaysInv, PTL

\* No answer reaches a task of raft_runtime.py that has ended: an election's,
\* a heartbeat's or a submission's call is on the network only while its caller
\* holds the locals and the progress object that the answer will be used with.
THEOREM CallsAlwaysTracked == Spec => []CallsTracked
<1>1. Inv => CallsTracked
  BY DEF Inv
<1>. QED  BY <1>1, AlwaysInv, PTL

-----------------------------------------------------------------------------
(* The rebuild lock protects the entry being submitted.                    *)

\* The log file holds the log, as save_log follows every change.
LogSaved == \A n \in Node : diskLog[n] = log[n]

\* The entry a node submits is the last one of its log.
EntryLast(n) ==
  submit[n] # Nil =>
    /\ Len(log[n]) = submit[n].entry.index
    /\ log[n][submit[n].entry.index]
         = [term |-> submit[n].entry.term, command |-> submit[n].entry.command]

SubmissionInv == LogSaved /\ \A n \in Node : EntryLast(n)

LEMMA InitSubmissionInv == Init => SubmissionInv
BY DEF Init, SubmissionInv, LogSaved, EntryLast

\* The submission of a node has ended or goes on with the same entry.
SameSubmission(n) ==
  submit'[n] = Nil \/ (submit[n] # Nil /\ submit'[n].entry = submit[n].entry)

LEMMA LogKept ==
  ASSUME SubmissionInv, UNCHANGED <<log, diskLog>>,
         \A n \in Node : submit'[n] = submit[n] \/ SameSubmission(n)
  PROVE  SubmissionInv'
BY DEF SubmissionInv, LogSaved, EntryLast, SameSubmission

\* A log that changes, in memory and on disk, is not one a submission is under way on.
LEMMA LogReplaced ==
  ASSUME Inv, SubmissionInv, NEW n \in Node, NEW l,
         log' = [log EXCEPT ![n] = l], diskLog' = [diskLog EXCEPT ![n] = l],
         submit'[n] = Nil, \A k \in Node \ {n} : submit'[k] = submit[k]
  PROVE  SubmissionInv'
<1>1. /\ log'[n] = l /\ diskLog'[n] = l
      /\ \A k \in Node \ {n} : log'[k] = log[k] /\ diskLog'[k] = diskLog[k]
  BY DEF Inv, TypeOK, TypeCore
<1>. QED  BY <1>1 DEF SubmissionInv, LogSaved, EntryLast

LEMMA EndSubmitFrees ==
  ASSUME Inv, NEW n \in Node, NEW s, NEW l, NEW st, NEW ds, EndSubmit(n, s, l, st, ds)
  PROVE  submit'[n] = Nil /\ \A k \in Node \ {n} : submit'[k] = submit[k]
BY DEF EndSubmit, Inv, TypeOK, TypeTasks

LEMMA CallNextPeerEntry ==
  ASSUME Inv, NEW n \in Node, NEW s \in Submission, NEW l, NEW st, NEW prog, NEW base,
         CallNextPeer(n, s, l, st, prog, base)
  PROVE  submit'[n].entry = s.entry /\ \A k \in Node \ {n} : submit'[k] = submit[k]
<1>1. PICK p \in s.todo : submit' = [submit EXCEPT ![n] = [s EXCEPT !.todo = s.todo \ {p}]]
  BY DEF CallNextPeer
<1>2. [s EXCEPT !.todo = s.todo \ {p}].entry = s.entry
  BY DEF Submission
<1>. QED  BY <1>1, <1>2 DEF Inv, TypeOK, TypeTasks

LEMMA ResumeSubmission ==
  ASSUME Inv, SubmissionInv, NEW n \in Node, NEW m \in net, m.task = "submit", Caller(m) = n,
         NEW replicated \in SUBSET Node, NEW st, NEW ds, NEW prog, NEW base,
         Resume(n, replicated, st, ds, prog, base), UNCHANGED <<log, diskLog>>
  PROVE  SubmissionInv'
<1>1. PICK s \in Submission :
        s = [submit[n] EXCEPT !.replicated = replicated] /\ s.entry = submit[n].entry
  <2>. DEFINE s == [submit[n] EXCEPT !.replicated = replicated]
  <2>1. submit[n] \in Submission
    BY SubmitCall
  <2>2. s \in Submission /\ s.entry = submit[n].entry
    BY <2>1 DEF Submission
  <2>. QED  BY <2>2
<1>2. submit[n] # Nil
  BY SubmitCall, NilIsNoTask
<1>3. CASE CallNextPeer(n, s, log[n], st, prog, base)
  BY <1>1, <1>2, <1>3, CallNextPeerEntry, LogKept DEF SameSubmission
<1>4. CASE EndSubmit(n, s, log[n], st, ds)
  BY <1>4, EndSubmitFrees, LogKept DEF SameSubmission
<1>. QED  BY <1>1, <1>3, <1>4 DEF Resume

LEMMA SubmitReplies ==
  ASSUME Inv, SubmissionInv, NEW n \in Node, NEW m \in net,
         HandleSubmitReply(n, m) \/ SubmitCallFails(n, m)
  PROVE  SubmissionInv'
<1>1. m.task = "submit" /\ Caller(m) = n /\ UNCHANGED <<log, diskLog>>
  BY ReplyKind DEF HandleSubmitReply, SubmitCallFails, Calls
<1>2. submit[n].replicated \in SUBSET Node
  BY <1>1, SubmitCall
<1>3. CASE HandleSubmitReply(n, m) /\ Replicate(n, m)
  <2>1. PICK counted \in SUBSET Node : counted = Replicated(n, m)
    <3>1. m.source \in Node
      BY <1>3, ReplyKind DEF HandleSubmitReply, Peers
    <3>. QED  BY <1>2, <3>1 DEF Replicated
  <2>. QED  BY <1>1, <1>3, <2>1, ResumeSubmission DEF Replicate
<1>4. CASE HandleSubmitReply(n, m) /\ DeposedBySubmit(n, m)
  <2>1. PICK st : st = Observe(state[n], m.term)
    OBVIOUS
  <2>2. Resume(n, submit[n].replicated, st, st, progress, net \ {m})
    BY <1>4, <2>1 DEF DeposedBySubmit
  <2>. QED  BY <1>1, <1>2, <2>2, ResumeSubmission
<1>5. CASE HandleSubmitReply(n, m) /\ Retry(n, m)
  BY <1>1, <1>5, LogKept DEF Retry
<1>6. CASE SubmitCallFails(n, m)
  <2>1. PICK base : Resume(n, submit[n].replicated, state[n], diskState[n], progress, base)
    BY <1>6 DEF SubmitCallFails
  <2>. QED  BY <1>1, <1>2, <2>1, ResumeSubmission
<1>. QED  BY <1>3, <1>4, <1>5, <1>6 DEF HandleSubmitReply

LEMMA SubmitCommands ==
  ASSUME Inv, SubmissionInv, NEW n \in Node, NEW c \in Command, SubmitCommand(n, c)
  PROVE  SubmissionInv'
<1>1. state[n].currentTerm \in Nat /\ log[n] \in Seq(Entry)
  BY DEF Inv, TypeOK, TypeCore, DurableState
<1>2. PICK s, l : /\ s = NewSubmission(n, c, state[n].currentTerm)
                  /\ l = Append(log[n], [term |-> state[n].currentTerm, command |-> c])
  OBVIOUS
<1>3. /\ s \in Submission
      /\ Len(l) = s.entry.index
      /\ l[s.entry.index] = [term |-> s.entry.term, command |-> s.entry.command]
  <2>1. s \in Submission
    BY <1>1, <1>2, NewSubmissionType DEF Inv, TypeOK
  <2>2. [term |-> state[n].currentTerm, command |-> c] \in Entry
    BY <1>1 DEF Entry
  <2>3. /\ Len(l) = Len(log[n]) + 1
        /\ l[Len(log[n]) + 1] = [term |-> state[n].currentTerm, command |-> c]
    BY <1>1, <1>2, <2>2, AppendProperties
  <2>. QED  BY <1>2, <2>1, <2>3 DEF NewSubmission
<1>4. log' = [log EXCEPT ![n] = l] /\ diskLog' = [diskLog EXCEPT ![n] = l]
  BY <1>2 DEF SubmitCommand
<1>5. CASE CallNextPeer(n, s, l, state[n], progress, net)
  <2>1. /\ log'[n] = l /\ diskLog'[n] = l
        /\ \A k \in Node \ {n} : log'[k] = log[k] /\ diskLog'[k] = diskLog[k]
    BY <1>4 DEF Inv, TypeOK, TypeCore
  <2>2. submit'[n].entry = s.entry /\ \A k \in Node \ {n} : submit'[k] = submit[k]
    BY <1>3, <1>5, CallNextPeerEntry
  <2>3. \A k \in Node : EntryLast(k)'
    BY <1>3, <2>1, <2>2 DEF SubmissionInv, EntryLast
  <2>. QED  BY <2>1, <2>3 DEF SubmissionInv, LogSaved
<1>6. CASE EndSubmit(n, s, l, state[n], diskState[n])
  BY <1>4, <1>6, EndSubmitFrees, LogReplaced
<1>. QED  BY <1>2, <1>5, <1>6 DEF SubmitCommand

LEMMA Appends ==
  ASSUME Inv, SubmissionInv, NEW n \in Node, NEW m \in net, HandleAppendEntries(n, m)
  PROVE  SubmissionInv'
<1>1. PICK l : log' = [log EXCEPT ![n] = l] /\ diskLog' = [diskLog EXCEPT ![n] = l]
  BY DEF HandleAppendEntries
<1>2. submit'[n] = Nil /\ UNCHANGED submit
  BY DEF HandleAppendEntries, LockFree, tasks
<1>. QED  BY <1>1, <1>2, LogReplaced

LEMMA Crashes ==
  ASSUME Inv, SubmissionInv, NEW n \in Node, CrashStep(n)
  PROVE  SubmissionInv'
<1>1. PICK ds, l, docs : Reload(n, ds, l, docs)
  BY DEF CrashStep, Restart, CrashInAppend, CrashInSubmit, CrashInSoleSubmit
<1>2. submit'[n] = Nil /\ \A k \in Node \ {n} : submit'[k] = submit[k]
  BY <1>1 DEF Reload, Inv, TypeOK, TypeTasks
<1>. QED  BY <1>1, <1>2, LogReplaced DEF Reload

LEMMA StepSubmissionInv ==
  ASSUME Inv, SubmissionInv, [Next]_vars
  PROVE  SubmissionInv'
<1>1. ASSUME NEW n \in Node, ElectionStep(n) \/ HeartbeatStep(n)
      PROVE  SubmissionInv'
  <2>1. UNCHANGED <<log, diskLog, submit>>
    BY <1>1 DEF ElectionStep, StartElection, HandleRequestVote, HandleVoteReply, VoteCallFails,
       HeartbeatStep, Heartbeat, SendHeartbeat, HeartbeatCallFails, HandleHeartbeatReply,
       EndHeartbeat, DeposedByHeartbeat, Retry, core, disk, tasks
  <2>. QED  BY <2>1, LogKept
<1>2. ASSUME NEW n \in Node, NEW c \in Command, SubmitToSoleVoter(n, c)
      PROVE  SubmissionInv'
  <2>1. PICK s, l, st, ds : EndSubmit(n, s, l, st, ds) /\ log' = [log EXCEPT ![n] = l]
                                                      /\ diskLog' = [diskLog EXCEPT ![n] = l]
    BY <1>2 DEF SubmitToSoleVoter
  <2>. QED  BY <2>1, EndSubmitFrees, LogReplaced
<1>3. CASE UNCHANGED vars
  BY <1>3, LogKept DEF vars
<1>. QED  BY <1>1, <1>2, <1>3, SubmitReplies, SubmitCommands, Appends, Crashes
          DEF Next, SubmitStep, AppendStep

\* While raft_runtime.py submits an entry under the rebuild lock, no message,
\* election or other submission moves it from the end of the log.
THEOREM SubmittedEntryAlwaysStays == Spec => []SubmittedEntryStays
<1>1. SubmissionInv => SubmittedEntryStays
  BY DEF SubmissionInv, LogSaved, EntryLast, SubmittedEntryStays
<1>2. Inv /\ SubmissionInv /\ [Next]_vars => SubmissionInv'
  BY StepSubmissionInv
<1>. QED  BY <1>1, <1>2, InitSubmissionInv, AlwaysInv, PTL DEF Spec
=============================================================================
