------------------------ MODULE RaftElectionsProofs -------------------------
(* The elections the runtimes hold are the abstract ones, and so are safe, *)
(* for any number of voters, any commands and any bounds.                  *)
EXTENDS RaftRuntimeProofs

P == INSTANCE ElectionsProofs

-----------------------------------------------------------------------------
(* How a durable record moves.                                             *)

SameVote(a, b) == a.currentTerm = b.currentTerm /\ a.votedFor = b.votedFor

\* A higher term, or nothing new.
Rises(a, b) == b.currentTerm > a.currentTerm \/ SameVote(a, b)

\* A higher term, or a vote where there was none.
Follows(a, b) ==
  \/ b.currentTerm > a.currentTerm
  \/ /\ b.currentTerm = a.currentTerm
     /\ a.votedFor \in {Nil, b.votedFor}

\* The record remembers the ballot.
Remembers(st, b) ==
  \/ st.currentTerm > b.term
  \/ st.currentTerm = b.term /\ st.votedFor = b.candidate

LEMMA RisesFollows ==
  ASSUME NEW a \in DurableState, NEW b \in DurableState, Rises(a, b)
  PROVE  Follows(a, b)
BY DEF Rises, Follows, SameVote

LEMMA FollowsTransitive ==
  ASSUME NEW a \in DurableState, NEW b \in DurableState, NEW c \in DurableState,
         Follows(a, b), Follows(b, c)
  PROVE  Follows(a, c)
BY DEF Follows, DurableState

LEMMA RisesTransitive ==
  ASSUME NEW a \in DurableState, NEW b \in DurableState, NEW c \in DurableState,
         Rises(a, b), Rises(b, c)
  PROVE  Rises(a, c)
BY DEF Rises, SameVote, DurableState

LEMMA RemembersOn ==
  ASSUME NEW a \in DurableState, NEW b \in DurableState, Follows(a, b),
         NEW c, c.term \in Nat, c.candidate # Nil, Remembers(a, c)
  PROVE  Remembers(b, c)
BY DEF Follows, Remembers, DurableState

LEMMA ObserveRises ==
  ASSUME NEW st \in DurableState, NEW term \in Nat
  PROVE  Rises(st, Observe(st, term))
<1>1. PICK seen \in DurableState :
        /\ seen = Observe(st, term)
        /\ seen.currentTerm >= st.currentTerm
        /\ seen.currentTerm = st.currentTerm => seen = st
  BY ObserveType
<1>2. Rises(st, seen)
  BY <1>1 DEF Rises, SameVote, DurableState
<1>. QED  BY <1>1, <1>2

\* What granting a vote needs and leaves behind.
LEMMA GrantLeaves ==
  ASSUME NEW st \in DurableState, NEW l, NEW m, m.term \in Nat, m.source \in Node
  PROVE  /\ Follows(st, StateAfterVote(st, l, m))
         /\ Grants(st, l, m) =>
              /\ StateAfterVote(st, l, m).currentTerm = m.term
              /\ StateAfterVote(st, l, m).votedFor = m.source
              /\ m.term >= st.currentTerm
              /\ m.term = st.currentTerm => st.votedFor \in {Nil, m.source}
<1>. DEFINE seen == Observe(st, m.term)
<1>1. /\ seen \in DurableState
      /\ seen.currentTerm >= st.currentTerm /\ seen.currentTerm >= m.term
      /\ seen.currentTerm = st.currentTerm => seen = st
      /\ Follows(st, seen)
  BY ObserveType, ObserveRises, RisesFollows
<1>2. m.term >= st.currentTerm => seen.currentTerm = m.term
  BY <1>1 DEF Observe, DurableState
<1>. HIDE DEF seen
<1>3. CASE Grants(st, l, m)
  <2>1. StateAfterVote(st, l, m) = [seen EXCEPT !.votedFor = m.source]
    BY <1>3 DEF StateAfterVote, seen
  <2>2. m.term >= st.currentTerm /\ seen.votedFor \in {Nil, m.source}
    BY <1>3 DEF Grants, seen
  <2>3. /\ StateAfterVote(st, l, m).currentTerm = seen.currentTerm
        /\ StateAfterVote(st, l, m).votedFor = m.source
    BY <1>1, <2>1 DEF DurableState
  <2>. QED  BY <1>1, <1>2, <2>2, <2>3 DEF Follows, DurableState
<1>4. CASE ~Grants(st, l, m)
  <2>1. StateAfterVote(st, l, m) = seen
    BY <1>4 DEF StateAfterVote, seen
  <2>. QED  BY <1>1, <1>4, <2>1
<1>. QED  BY <1>3, <1>4

-----------------------------------------------------------------------------
(* The inductive invariant.                                                *)

\* The state file lags behind the record in memory, if at all, by a term.
DiskBehind == \A n \in Node : Rises(diskState[n], state[n])

\* Every ballot is remembered by its voter's state file.
BallotsRemembered == \A b \in ballots : Remembers(diskState[b.voter], b)

\* The calls of a campaign are of its term, and the votes they bring were cast.
CampaignCall(m) ==
  m.task = "election" =>
    /\ m.type = "RequestVote" => m.term = election[m.source].term
    /\ m.type = "VoteReply" /\ m.granted =>
         /\ m.term = election[m.dest].term
         /\ Ballot(m.term, m.source, m.dest) \in ballots

CampaignCalls == \A m \in net : CampaignCall(m)

\* The votes a candidate counted were cast.
CountedVotesCast ==
  \A n \in Node : election[n] # Nil =>
    \A v \in election[n].votes : Ballot(election[n].term, v, n) \in ballots

Durable(m) ==
  m.type \in {"VoteReply", "AppendReply"} =>
    /\ diskState[m.source].currentTerm >= m.term
    /\ m.type = "VoteReply" /\ m.granted
         => \/ diskState[m.source].currentTerm > m.term
            \/ diskState[m.source].votedFor = m.dest

ElectionInv ==
  /\ DiskBehind
  /\ BallotsRemembered
  /\ CampaignCalls
  /\ CountedVotesCast
  /\ AnswersDurable

DiskForward == \A k \in Node : Follows(diskState[k], diskState'[k])

\* What every step does: the invariant is kept, the state files go forward,
\* and the abstract elections take a step or none.
GoodStep == ElectionInv' /\ DiskForward /\ [E!Next]_(E!evars)

\* How a step may change the two records of node n.
Moves(n) ==
  /\ \A k \in Node \ {n} : state'[k] = state[k] /\ diskState'[k] = diskState[k]
  /\ \/ SameVote(state'[n], diskState'[n]) /\ Follows(diskState[n], diskState'[n])
     \/ Rises(state[n], state'[n]) /\ SameVote(diskState'[n], diskState[n])

LEMMA InitElectionInv == Init => ElectionInv
BY DEF Init, ElectionInv, DiskBehind, Rises, SameVote, BallotsRemembered, CampaignCalls,
       CountedVotesCast, AnswersDurable

LEMMA RecordsMove ==
  ASSUME Inv, Inv', DiskBehind, NEW n \in Node, Moves(n)
  PROVE  DiskBehind' /\ DiskForward
<1>1. \A k \in Node : /\ state[k] \in DurableState /\ diskState[k] \in DurableState
                      /\ state'[k] \in DurableState /\ diskState'[k] \in DurableState
  BY DEF Inv, TypeOK, TypeCore
<1>2. ASSUME NEW k \in Node
      PROVE  Rises(diskState'[k], state'[k]) /\ Follows(diskState[k], diskState'[k])
  <2>1. CASE k # n
    BY <2>1 DEF Moves, DiskBehind, Follows
  <2>2. CASE k = n /\ SameVote(state'[n], diskState'[n]) /\ Follows(diskState[n], diskState'[n])
    BY <2>2 DEF Rises, SameVote
  <2>3. CASE k = n /\ Rises(state[n], state'[n]) /\ SameVote(diskState'[n], diskState[n])
    <3>1. Rises(diskState[n], state'[n])
      BY <1>1, <2>3, RisesTransitive DEF DiskBehind
    <3>. QED  BY <2>3, <3>1 DEF Rises, Follows, SameVote
  <2>. QED  BY <2>1, <2>2, <2>3 DEF Moves
<1>. QED  BY <1>2 DEF DiskBehind, DiskForward

\* What was remembered and answered stays remembered.
LEMMA RememberedOn ==
  ASSUME Inv, Inv', ElectionInv, DiskForward
  PROVE  /\ \A b \in ballots : Remembers(diskState'[b.voter], b)
         /\ \A m \in net : Durable(m)'
<1>1. \A k \in Node : diskState[k] \in DurableState /\ diskState'[k] \in DurableState
  BY DEF Inv, TypeOK, TypeCore
<1>2. ASSUME NEW b \in ballots
      PROVE  Remembers(diskState'[b.voter], b)
  <2>1. b.voter \in Node /\ b.candidate \in Node /\ b.term \in Nat /\ b.candidate # Nil
    BY NilAssumption DEF Inv, TypeOK, TypeHistory, E!Ballot
  <2>. QED  BY <1>1, <2>1, RemembersOn DEF ElectionInv, BallotsRemembered, DiskForward
<1>3. ASSUME NEW m \in net, m.type \in {"VoteReply", "AppendReply"}
      PROVE  Durable(m)'
  <2>1. /\ m.source \in Node /\ m.dest \in Node /\ m.term \in Nat
    BY <1>3, MessageKinds DEF Inv, TypeOK, TypeNet, VoteReply, AppendReply, Term
  <2>2. Follows(diskState[m.source], diskState'[m.source]) /\ m.dest # Nil
    BY <2>1, NilAssumption DEF DiskForward
  <2>3. /\ diskState[m.source] \in DurableState /\ diskState'[m.source] \in DurableState
        /\ Durable(m)
    BY <1>1, <2>1 DEF ElectionInv, AnswersDurable, Durable
  <2>. QED  BY <1>3, <2>1, <2>2, <2>3 DEF Durable, Follows, DurableState
<1>. QED  BY <1>2, <1>3 DEF Durable

\* A step that neither votes nor wins nor calls for votes is none of the elections.
LEMMA QuietStep ==
  ASSUME Inv, Inv', ElectionInv, UNCHANGED <<ballots, wins>>, NEW n \in Node, Moves(n),
         \A k \in Node : election'[k] = Nil \/ election'[k] = election[k],
         \A m \in net' :
           \/ m \in net
           \/ /\ m.task # "election" /\ m.type # "VoteReply"
              /\ m.type = "AppendReply" => m.source = n /\ m.term <= diskState'[n].currentTerm
  PROVE  GoodStep
<1>1. DiskBehind' /\ DiskForward
  BY RecordsMove DEF ElectionInv
<1>2. BallotsRemembered'
  BY <1>1, RememberedOn DEF BallotsRemembered
<1>3. CountedVotesCast'
  BY DEF ElectionInv, CountedVotesCast
<1>4. CampaignCalls'
  <2>. SUFFICES ASSUME NEW m \in net', m.task = "election"
                PROVE  CampaignCall(m)'
    BY DEF CampaignCalls, CampaignCall
  <2>1. m \in net /\ CampaignCall(m)
    BY DEF ElectionInv, CampaignCalls
  <2>2. /\ m.type = "RequestVote" => Caller(m) = m.source
        /\ m.type = "VoteReply" => Caller(m) = m.dest
        /\ Caller(m) \in Node
    BY <2>1, MessageKinds DEF Caller, IsRequest, Inv, TypeOK, TypeNet
  <2>3. election'[Caller(m)] # Nil
    BY DEF Inv, CallsTracked, ElectionAwaits
  <2>4. election'[Caller(m)] = election[Caller(m)]
    BY <2>2, <2>3
  <2>. QED  BY <2>1, <2>2, <2>4 DEF CampaignCall
<1>5. AnswersDurable'
  <2>. SUFFICES ASSUME NEW m \in net'
                PROVE  Durable(m)'
    BY DEF AnswersDurable, Durable
  <2>1. CASE m \in net
    BY <2>1, <1>1, RememberedOn
  <2>2. CASE m \notin net
    <3>1. ASSUME m.type = "AppendReply"
          PROVE  m.source = n /\ m.term \in Nat /\ diskState'[n].currentTerm \in Nat
      BY <2>2, <3>1, MessageKinds DEF Inv, TypeOK, TypeNet, AppendReply, Term, TypeCore, DurableState
    <3>. QED  BY <2>2, <3>1 DEF Durable
  <2>. QED  BY <2>1, <2>2
<1>6. [E!Next]_(E!evars)
  BY DEF E!evars
<1>. QED  BY <1>1, <1>2, <1>3, <1>4, <1>5, <1>6 DEF GoodStep, ElectionInv

\* An action that leaves records, elections and answers alone.
LEMMA ServedStep ==
  ASSUME Inv, Inv', ElectionInv, UNCHANGED <<state, diskState, ballots, wins>>,
         \A k \in Node : election'[k] = Nil \/ election'[k] = election[k],
         \A m \in net' :
           \/ m \in net
           \/ m.task # "election" /\ m.type \notin {"VoteReply", "AppendReply"}
  PROVE  GoodStep
<1>1. PICK n \in Node : TRUE
  BY NodeAssumption
<1>2. Moves(n)
  BY DEF Moves, SameVote, Rises
<1>. QED  BY <1>2, QuietStep

\* What an abandoned call leaves on the network is neither an answer nor a call
\* that anyone waits for.
LEMMA StrayQuiet ==
  ASSUME NEW m, Stray(m)
  PROVE  m.task # "election" /\ m.type \notin {"VoteReply", "AppendReply"}
BY MessageKinds DEF Stray, IsRequest

LEMMA PayloadQuiet ==
  ASSUME NEW n, NEW p, NEW task \in {"heartbeat", "submit"}, NEW gen, NEW next, NEW st, NEW l,
         NEW m, m = AppendPayload(n, p, task, gen, next, st, l)
  PROVE  m.task # "election" /\ m.type \notin {"VoteReply", "AppendReply"}
BY DEF AppendPayload

\* A saved record that follows the one in memory.
LEMMA VoteSavedMoves ==
  ASSUME Inv, ElectionInv, NEW n \in Node, NEW st \in DurableState,
         \A k \in Node \ {n} : state'[k] = state[k] /\ diskState'[k] = diskState[k],
         Follows(state[n], st), SameVote(state'[n], st), SameVote(diskState'[n], st)
  PROVE  Moves(n)
<1>1. state[n] \in DurableState /\ diskState[n] \in DurableState
  BY DEF Inv, TypeOK, TypeCore
<1>2. Follows(diskState[n], state[n])
  BY <1>1, RisesFollows DEF ElectionInv, DiskBehind
<1>3. Follows(diskState[n], st)
  BY <1>1, <1>2, FollowsTransitive
<1>. QED  BY <1>3 DEF Moves, SameVote, Follows

LEMMA SavedMoves ==
  ASSUME Inv, ElectionInv, NEW n \in Node, NEW st \in DurableState, Follows(state[n], st),
         state' = [state EXCEPT ![n] = st], diskState' = [diskState EXCEPT ![n] = st]
  PROVE  Moves(n)
<1>1. state'[n] = st /\ diskState'[n] = st
      /\ \A k \in Node \ {n} : state'[k] = state[k] /\ diskState'[k] = diskState[k]
  BY DEF Inv, TypeOK, TypeCore
<1>. QED  BY <1>1, VoteSavedMoves DEF SameVote

LEMMA Observed ==
  ASSUME Inv, NEW n \in Node, NEW term \in Nat
  PROVE  \E st \in DurableState : st = Observe(state[n], term) /\ Rises(state[n], st)
                                    /\ Follows(state[n], st)
<1>1. state[n] \in DurableState
  BY DEF Inv, TypeOK, TypeCore
<1>. QED  BY <1>1, ObserveType, ObserveRises, RisesFollows

-----------------------------------------------------------------------------
(* Steps of the elections.                                                 *)

\* A cast vote is a step of the abstract elections if the voter has not voted
\* for another candidate in the term.
LEMMA CastStep ==
  ASSUME Inv, Inv', ElectionInv, NEW b \in E!Ballot, ballots' = ballots \cup {b},
         diskState[b.voter].currentTerm <= b.term,
         b.term = diskState[b.voter].currentTerm
           => diskState[b.voter].votedFor \in {Nil, b.candidate}
  PROVE  E!Cast
<1>1. b.voter \in Node /\ b.term \in Nat
  BY DEF E!Ballot
<1>2. diskState[b.voter].currentTerm \in Nat
  BY <1>1 DEF Inv, TypeOK, TypeCore, DurableState
<1>3. ASSUME NEW c \in ballots, c.voter = b.voter, c.term = b.term
      PROVE  c.candidate = b.candidate
  <2>1. c.candidate # Nil
    BY NilAssumption DEF Inv, TypeOK, TypeHistory, E!Ballot
  <2>2. Remembers(diskState[b.voter], c)
    BY <1>3 DEF ElectionInv, BallotsRemembered
  <2>. QED  BY <1>1, <1>2, <1>3, <2>1, <2>2 DEF Remembers
<1>. QED  BY <1>3 DEF E!Cast, E!MayCast

\* The same of the record in memory, which the state file lags behind.
LEMMA CastInMemory ==
  ASSUME Inv, Inv', ElectionInv, NEW b \in E!Ballot, ballots' = ballots \cup {b},
         state[b.voter].currentTerm <= b.term,
         b.term = state[b.voter].currentTerm
           => state[b.voter].votedFor \in {Nil, b.candidate}
  PROVE  E!Cast
<1>1. b.voter \in Node /\ b.term \in Nat
  BY DEF E!Ballot
<1>2. /\ state[b.voter].currentTerm \in Nat /\ diskState[b.voter].currentTerm \in Nat
      /\ Rises(diskState[b.voter], state[b.voter])
  BY <1>1 DEF Inv, TypeOK, TypeCore, DurableState, ElectionInv, DiskBehind
<1>3. /\ diskState[b.voter].currentTerm <= b.term
      /\ b.term = diskState[b.voter].currentTerm
           => diskState[b.voter].votedFor \in {Nil, b.candidate}
  BY <1>1, <1>2 DEF Rises, SameVote
<1>. QED  BY <1>3, CastStep

\* The abstract elections count as the runtimes do.
LEMMA SameCardinality == ASSUME NEW S PROVE E!Cardinality(S) = Cardinality(S)
BY DEF E!Cardinality, Cardinality, E!IsFiniteSet, IsFiniteSet

LEMMA OtherCardinality == ASSUME NEW S PROVE P!Cardinality(S) = Cardinality(S)
BY DEF P!Cardinality, Cardinality, P!IsFiniteSet, IsFiniteSet

\* The candidate's votes are a majority of the abstract elections' voters.
LEMMA VotesAreMajority ==
  ASSUME NEW votes \in SUBSET Node, Cardinality(votes) >= Majority, NEW cast, NEW w,
         \A v \in votes : Ballot(w.term, v, w.node) \in cast
  PROVE  E!HasMajority(cast, w)
<1>. DEFINE supporters == E!Supporters(cast, w.term, w.node)
<1>1. votes \in SUBSET supporters /\ supporters \in SUBSET Node
  BY DEF E!Supporters, Ballot
<1>. HIDE DEF supporters
<1>2. IsFiniteSet(supporters) /\ IsFiniteSet(votes)
  BY <1>1, NodeAssumption, FS_Subset
<1>3. Cardinality(votes) <= Cardinality(supporters)
  BY <1>1, <1>2, FS_Subset
<1>4. Cardinality(votes) \in Nat /\ Cardinality(supporters) \in Nat /\ Cardinality(Node) \in Nat
  BY <1>2, NodeAssumption, FS_CardinalityType
<1>5. 2 * Cardinality(supporters) > Cardinality(Node)
  BY <1>3, <1>4 DEF Majority
<1>. QED  BY <1>5, SameCardinality DEF E!HasMajority, E!Supporters, supporters

\* A win that its votes back is a step of the abstract elections.
LEMMA WinStep ==
  ASSUME Inv, NEW n \in Node, NEW t \in Nat, BecomeLeader(n, t),
         E!HasMajority(ballots', [term |-> t, node |-> n])
  PROVE  E!Elect
<1>. DEFINE w == [term |-> t, node |-> n]
<1>1. w \in E!Win /\ wins' = wins \cup {w}
  BY DEF BecomeLeader, E!Win
<1>. QED  BY <1>1 DEF E!Elect

\* A sole voter's own vote makes it win.
LEMMA SoleWin ==
  ASSUME Inv, Majority = 1, NEW n \in Node, NEW t \in Nat, BecomeLeader(n, t),
         Ballot(t, n, n) \in ballots'
  PROVE  E!Elect
<1>1. Cardinality({n}) = 1
  BY FS_Singleton
<1>2. \A v \in {n} : Ballot(t, v, n) \in ballots'
  OBVIOUS
<1>3. E!HasMajority(ballots', [term |-> t, node |-> n])
  BY <1>1, <1>2, VotesAreMajority
<1>. QED  BY <1>3, WinStep

\* Starting a campaign, the candidate votes for itself in a term of its own.
LEMMA CampaignCast ==
  ASSUME Inv, Inv', ElectionInv, NEW n \in Node, NEW st, st = Campaigning(n),
         \A k \in Node \ {n} : state'[k] = state[k] /\ diskState'[k] = diskState[k],
         SameVote(state'[n], st), SameVote(diskState'[n], st),
         ballots' = ballots \cup {Ballot(st.currentTerm, n, n)}
  PROVE  /\ DiskBehind' /\ DiskForward /\ BallotsRemembered'
         /\ \A m \in net : Durable(m)'
         /\ E!Cast
<1>1. /\ st \in DurableState
      /\ st.currentTerm = state[n].currentTerm + 1
      /\ st.votedFor = n
      /\ st.currentTerm \in Nat
  BY CampaigningType DEF Inv, TypeOK, DurableState
<1>2. PICK b \in E!Ballot :
        b = [term |-> st.currentTerm, voter |-> n, candidate |-> n]
  BY <1>1 DEF E!Ballot
<1>3. ballots' = ballots \cup {b}
  BY <1>2 DEF Ballot
<1>4. state[n].currentTerm \in Nat
  BY DEF Inv, TypeOK, TypeCore, DurableState
<1>5. Moves(n)
  <2>1. Follows(state[n], st)
    BY <1>1, <1>4 DEF Follows
  <2>. QED  BY <1>1, <2>1, VoteSavedMoves
<1>6. DiskBehind' /\ DiskForward
  BY <1>5, RecordsMove DEF ElectionInv
<1>7. BallotsRemembered'
  <2>1. Remembers(diskState'[b.voter], b)
    BY <1>1, <1>2 DEF Remembers, SameVote
  <2>. QED  BY <1>3, <1>6, <2>1, RememberedOn DEF BallotsRemembered
<1>8. E!Cast
  <2>1. state[b.voter].currentTerm < b.term
    BY <1>1, <1>2, <1>4
  <2>2. b.term \in Nat /\ b.voter = n
    BY <1>1, <1>2
  <2>. QED  BY <1>3, <1>4, <2>1, <2>2, CastInMemory
<1>. QED  BY <1>6, <1>7, <1>8, RememberedOn

LEMMA StartElectionGood ==
  ASSUME Inv, Inv', ElectionInv, NEW n \in Node, StartElection(n)
  PROVE  GoodStep
<1>1. PICK st \in DurableState : st = Campaigning(n)
  BY CampaigningType DEF Inv, TypeOK
<1>2. st.currentTerm \in Nat
  BY DEF DurableState
<1>3. /\ state' = [state EXCEPT ![n] = st]
      /\ diskState' = [diskState EXCEPT ![n] = st]
      /\ ballots' = ballots \cup {Ballot(st.currentTerm, n, n)}
  BY <1>1 DEF StartElection
<1>4. /\ DiskBehind' /\ DiskForward /\ BallotsRemembered' /\ E!Cast
      /\ \A m \in net : Durable(m)'
  <2>1. /\ \A k \in Node \ {n} : state'[k] = state[k] /\ diskState'[k] = diskState[k]
        /\ state'[n] = st /\ diskState'[n] = st
    BY <1>3 DEF Inv, TypeOK, TypeCore
  <2>. QED  BY <1>1, <1>3, <2>1, CampaignCast DEF SameVote
<1>5. CASE Majority = 1
  <2>1. BecomeLeader(n, st.currentTerm) /\ UNCHANGED <<election, net>>
    BY <1>1, <1>5 DEF StartElection
  <2>2. E!Elect
    BY <1>2, <1>3, <1>5, <2>1, SoleWin
  <2>3. CampaignCalls' /\ CountedVotesCast'
    BY <1>3, <2>1 DEF ElectionInv, CampaignCalls, CampaignCall, CountedVotesCast
  <2>4. AnswersDurable'
    BY <1>4, <2>1 DEF AnswersDurable, Durable
  <2>. QED  BY <1>4, <2>2, <2>3, <2>4 DEF GoodStep, ElectionInv, E!Next
<1>6. CASE Majority # 1
  <2>1. /\ election[n] = Nil
        /\ election' = [election EXCEPT ![n] = [term |-> st.currentTerm, votes |-> {n}]]
        /\ net' = net \cup {VoteRequest(n, p, st) : p \in Peers(n)}
        /\ UNCHANGED wins
    BY <1>1, <1>6 DEF StartElection
  <2>2. /\ election'[n] = [term |-> st.currentTerm, votes |-> {n}]
        /\ \A k \in Node \ {n} : election'[k] = election[k]
    BY <2>1 DEF Inv, TypeOK, TypeTasks
  <2>3. CampaignCalls'
    <3>. SUFFICES ASSUME NEW m \in net', m.task = "election"
                  PROVE  CampaignCall(m)'
      BY DEF CampaignCalls, CampaignCall
    <3>1. CASE m \in net
      <4>1. /\ m.type = "RequestVote" => Caller(m) = m.source
            /\ m.type = "VoteReply" => Caller(m) = m.dest
            /\ Caller(m) \in Node /\ Caller(m) # n /\ CampaignCall(m)
        BY <2>1, <3>1, MessageKinds
        DEF Caller, IsRequest, Inv, TypeOK, TypeNet, CallsTracked, ElectionAwaits,
            ElectionInv, CampaignCalls
      <4>. QED  BY <1>3, <2>2, <4>1 DEF CampaignCall
    <3>2. CASE m \in {VoteRequest(n, p, st) : p \in Peers(n)}
      BY <2>2, <3>2 DEF VoteRequest, CampaignCall
    <3>. QED  BY <2>1, <3>1, <3>2
  <2>4. CountedVotesCast'
    BY <1>3, <2>2 DEF ElectionInv, CountedVotesCast
  <2>5. AnswersDurable'
    <3>1. \A m \in net' : m \in net \/ m.type = "RequestVote"
      BY <2>1 DEF VoteRequest
    <3>. QED  BY <1>4, <3>1 DEF AnswersDurable, Durable
  <2>. QED  BY <1>4, <2>1, <2>3, <2>4, <2>5 DEF GoodStep, ElectionInv, E!Next
<1>. QED  BY <1>5, <1>6

LEMMA HandleRequestVoteGood ==
  ASSUME Inv, Inv', ElectionInv, NEW n \in Node, NEW m \in net, HandleRequestVote(n, m)
  PROVE  GoodStep
<1>1. m \in RequestVote /\ m.source \in Node /\ m.term \in Nat /\ m.dest = n
      /\ m.type = "RequestVote" /\ Caller(m) = m.source
  BY MessageKinds DEF HandleRequestVote, Inv, TypeOK, TypeNet, RequestVote, Term,
                      Caller, IsRequest
<1>2. PICK granted : granted = Grants(state[n], log[n], m)
  OBVIOUS
<1>3. PICK st \in DurableState :
        /\ st = StateAfterVote(state[n], log[n], m)
        /\ Follows(state[n], st)
        /\ granted => /\ st.currentTerm = m.term
                      /\ st.votedFor = m.source
                      /\ m.term >= state[n].currentTerm
                      /\ m.term = state[n].currentTerm => state[n].votedFor \in {Nil, m.source}
  BY <1>1, <1>2, StateAfterVoteType, GrantLeaves DEF Inv, TypeOK, TypeCore
<1>4. PICK reply : reply = [type |-> "VoteReply", task |-> "election", source |-> n,
                            dest |-> m.source, term |-> st.currentTerm, granted |-> granted]
  OBVIOUS
<1>5. PICK b \in E!Ballot : /\ b = [term |-> m.term, voter |-> n, candidate |-> m.source]
                            /\ b = Ballot(m.term, n, m.source)
  BY <1>1 DEF E!Ballot, Ballot
<1>6. /\ state' = [state EXCEPT ![n] = st]
      /\ diskState' = [diskState EXCEPT ![n] = st]
      /\ ballots' = IF granted THEN ballots \cup {b} ELSE ballots
      /\ net' = Answer(m, reply)
      /\ UNCHANGED <<election, wins>>
  BY <1>2, <1>3, <1>4, <1>5 DEF HandleRequestVote
<1>7. DiskBehind' /\ DiskForward
  BY <1>3, <1>6, SavedMoves, RecordsMove DEF ElectionInv
<1>8. diskState'[n] = st /\ st.currentTerm \in Nat
  BY <1>6 DEF Inv, TypeOK, TypeCore, DurableState
<1>9. BallotsRemembered'
  <2>1. granted => Remembers(diskState'[b.voter], b)
    BY <1>3, <1>5, <1>8 DEF Remembers
  <2>. QED  BY <1>6, <1>7, <2>1, RememberedOn DEF BallotsRemembered
<1>10. \A k \in net' : k \in net \/ (k = reply /\ m.task = "election")
  BY <1>1, <1>6 DEF Answer, RequestVote
<1>11. CampaignCalls'
  <2>. SUFFICES ASSUME NEW k \in net', k.task = "election"
                PROVE  CampaignCall(k)'
    BY DEF CampaignCalls, CampaignCall
  <2>1. CASE k \in net
    BY <1>6, <2>1 DEF ElectionInv, CampaignCalls, CampaignCall
  <2>2. CASE k = reply /\ m.task = "election"
    <3>1. m.term = election[m.source].term
      BY <1>1, <2>2 DEF ElectionInv, CampaignCalls, CampaignCall
    <3>2. granted => Ballot(m.term, n, m.source) \in ballots'
      BY <1>5, <1>6
    <3>. QED  BY <1>3, <1>4, <1>6, <2>2, <3>1, <3>2 DEF CampaignCall
  <2>. QED  BY <1>10, <2>1, <2>2
<1>12. CountedVotesCast'
  BY <1>6 DEF ElectionInv, CountedVotesCast
<1>13. AnswersDurable'
  <2>1. Durable(reply)'
    BY <1>3, <1>4, <1>8 DEF Durable
  <2>. QED  BY <1>7, <1>10, <2>1, RememberedOn DEF AnswersDurable, Durable
<1>14. [E!Next]_(E!evars)
  <2>1. CASE granted
    BY <1>3, <1>5, <1>6, <2>1, CastInMemory DEF E!Next
  <2>2. CASE ~granted
    BY <1>6, <2>2 DEF E!evars
  <2>. QED  BY <2>1, <2>2
<1>. QED  BY <1>7, <1>9, <1>11, <1>12, <1>13, <1>14 DEF GoodStep, ElectionInv

LEMMA HandleVoteReplyGood ==
  ASSUME Inv, Inv', ElectionInv, NEW n \in Node, NEW m \in net, HandleVoteReply(n, m)
  PROVE  GoodStep
<1>1. /\ m \in VoteReply /\ m.source \in Node /\ m.term \in Nat /\ m.dest = n
      /\ m.task = "election" /\ Caller(m) = n /\ m.type = "VoteReply"
  BY MessageKinds DEF HandleVoteReply, Inv, TypeOK, TypeNet, VoteReply, Term, Caller, IsRequest
<1>2. election[n] \in Campaign /\ election[n] # Nil
  BY <1>1 DEF Inv, CallsTracked, ElectionAwaits, TypeOK, TypeTasks
<1>3. /\ Votes(n, m) \in SUBSET Node
      /\ \A v \in Votes(n, m) : Ballot(election[n].term, v, n) \in ballots
  <2>1. m.granted => Ballot(election[n].term, m.source, n) \in ballots
    BY <1>1 DEF ElectionInv, CampaignCalls, CampaignCall
  <2>2. \A v \in election[n].votes : Ballot(election[n].term, v, n) \in ballots
    BY <1>2 DEF ElectionInv, CountedVotesCast
  <2>. QED  BY <1>1, <1>2, <2>1, <2>2 DEF Votes, Campaign
<1>4. Calls(n, "election") \in SUBSET net
  BY DEF Calls
<1>5. CASE LoseElection(n, m)
  <2>1. Moves(n)
    <3>1. PICK st \in DurableState : st = Observe(state[n], m.term) /\ Follows(state[n], st)
      BY <1>1, Observed
    <3>. QED  BY <1>5, <3>1, SavedMoves DEF LoseElection
  <2>2. \A k \in Node : election'[k] = Nil \/ election'[k] = election[k]
    BY <1>5 DEF LoseElection, Inv, TypeOK, TypeTasks
  <2>3. \A k \in net' : k \in net \/ Stray(k)
    BY <1>4, <1>5, AbandonStray DEF LoseElection, Inv, TypeOK, CallsTracked
  <2>. QED  BY <1>5, <2>1, <2>2, <2>3, StrayQuiet, QuietStep DEF LoseElection, HandleVoteReply
<1>6. CASE WinElection(n, m)
  <2>1. /\ BecomeLeader(n, election[n].term) /\ election[n].term \in Nat
        /\ UNCHANGED <<state, diskState, ballots>>
        /\ election' = [election EXCEPT ![n] = Nil]
    BY <1>2, <1>6 DEF WinElection, Campaign
  <2>2. \A k \in net' : k \in net \/ Stray(k)
    BY <1>4, <1>6, AbandonStray DEF WinElection, Inv, TypeOK, CallsTracked
  <2>3. E!Elect
    <3>1. Cardinality(Votes(n, m)) >= Majority
      BY <1>6 DEF WinElection
    <3>2. E!HasMajority(ballots', [term |-> election[n].term, node |-> n])
      BY <1>3, <2>1, <3>1, VotesAreMajority
    <3>. QED  BY <2>1, <3>2, WinStep
  <2>4. DiskBehind' /\ DiskForward /\ BallotsRemembered'
    BY <2>1 DEF ElectionInv, DiskBehind, DiskForward, Follows, BallotsRemembered
  <2>5. election'[n] = Nil /\ \A k \in Node \ {n} : election'[k] = election[k]
    BY <2>1 DEF Inv, TypeOK, TypeTasks
  <2>6. CountedVotesCast'
    BY <2>1, <2>5 DEF ElectionInv, CountedVotesCast
  <2>7. CampaignCalls'
    <3>. SUFFICES ASSUME NEW k \in net', k.task = "election"
                  PROVE  CampaignCall(k)'
      BY DEF CampaignCalls, CampaignCall
    <3>1. k \in net /\ CampaignCall(k) /\ election'[Caller(k)] # Nil
      BY <2>2, StrayQuiet DEF ElectionInv, CampaignCalls, Inv, CallsTracked, ElectionAwaits
    <3>2. /\ k.type = "RequestVote" => Caller(k) = k.source
          /\ k.type = "VoteReply" => Caller(k) = k.dest
          /\ Caller(k) \in Node
      BY <3>1, MessageKinds DEF Caller, IsRequest, Inv, TypeOK, TypeNet
    <3>. QED  BY <2>1, <2>5, <3>1, <3>2 DEF CampaignCall
  <2>8. AnswersDurable'
    BY <2>1, <2>2, StrayQuiet DEF ElectionInv, AnswersDurable
  <2>. QED  BY <2>1, <2>3, <2>4, <2>6, <2>7, <2>8 DEF GoodStep, ElectionInv, E!Next
<1>7. CASE CountVote(n, m)
  <2>1. /\ UNCHANGED <<state, diskState, ballots, wins>> /\ net' = net \ {m}
        /\ \A k \in Node \ {n} : election'[k] = election[k]
        /\ election'[n] \in {Nil, [election[n] EXCEPT !.votes = Votes(n, m)]}
    BY <1>7 DEF CountVote, AwaitVotes, Inv, TypeOK, TypeTasks
  <2>2. election'[n] # Nil =>
          election'[n].term = election[n].term /\ election'[n].votes = Votes(n, m)
    BY <1>2, <2>1 DEF Campaign
  <2>3. DiskBehind' /\ DiskForward /\ BallotsRemembered' /\ AnswersDurable'
    BY <2>1 DEF ElectionInv, DiskBehind, DiskForward, Follows, BallotsRemembered, AnswersDurable
  <2>4. CountedVotesCast'
    BY <1>3, <2>1, <2>2 DEF ElectionInv, CountedVotesCast
  <2>5. CampaignCalls'
    <3>. SUFFICES ASSUME NEW k \in net', k.task = "election"
                  PROVE  CampaignCall(k)'
      BY DEF CampaignCalls, CampaignCall
    <3>1. k \in net /\ CampaignCall(k) /\ election'[Caller(k)] # Nil
      BY <2>1 DEF ElectionInv, CampaignCalls, Inv, CallsTracked, ElectionAwaits
    <3>2. /\ k.type = "RequestVote" => Caller(k) = k.source
          /\ k.type = "VoteReply" => Caller(k) = k.dest
          /\ Caller(k) \in Node
      BY <3>1, MessageKinds DEF Caller, IsRequest, Inv, TypeOK, TypeNet
    <3>3. election'[Caller(k)].term = election[Caller(k)].term
      BY <2>1, <2>2, <3>1, <3>2
    <3>. QED  BY <2>1, <3>1, <3>2, <3>3 DEF CampaignCall
  <2>. QED  BY <2>1, <2>3, <2>4, <2>5 DEF GoodStep, ElectionInv, E!evars
<1>. QED  BY <1>5, <1>6, <1>7 DEF HandleVoteReply

LEMMA VoteCallFailsGood ==
  ASSUME Inv, Inv', ElectionInv, NEW n \in Node, NEW m \in net, VoteCallFails(n, m)
  PROVE  GoodStep
<1>1. election[n] \in Campaign
  BY DEF VoteCallFails, Calls, Inv, CallsTracked, ElectionAwaits, TypeOK, TypeTasks
<1>2. [election[n] EXCEPT !.votes = election[n].votes] = election[n]
  BY <1>1 DEF Campaign
<1>3. \A k \in Node : election'[k] = Nil \/ election'[k] = election[k]
  BY <1>2 DEF VoteCallFails, AwaitVotes, Inv, TypeOK, TypeTasks
<1>4. \A k \in net' : k \in net \/ Stray(k)
  BY AbandonStray DEF VoteCallFails, Inv, TypeOK, CallsTracked
<1>. QED  BY <1>3, <1>4, StrayQuiet, ServedStep DEF VoteCallFails, AwaitVotes

-----------------------------------------------------------------------------
(* Steps of the replication.                                               *)

LEMMA HandleAppendEntriesGood ==
  ASSUME Inv, Inv', ElectionInv, NEW n \in Node, NEW m \in net, HandleAppendEntries(n, m)
  PROVE  GoodStep
<1>1. /\ m \in AppendEntries /\ Payload(m) /\ m.source \in Node /\ m.dest = n
  BY MessageKinds DEF HandleAppendEntries, Inv, TypeOK, TypeNet, AppendEntries, Payload,
                      Term, Index
<1>2. PICK l : l = LogAfterAppend(state[n], log[n], m)
  OBVIOUS
<1>3. l \in Seq(Entry) /\ state[n] \in DurableState
  BY <1>1, <1>2, LogAfterAppendType DEF Inv, TypeOK, TypeCore
<1>4. PICK st \in DurableState :
        /\ st = StateAfterAppend(state[n], log[n], m)
        /\ Rises(state[n], st)
  <2>1. PICK seen \in DurableState : seen = Observe(state[n], m.term) /\ Rises(state[n], seen)
    BY <1>1, Observed DEF Payload
  <2>2. log[n] \in Seq(Entry)
    BY DEF Inv, TypeOK, TypeCore
  <2>3. /\ StateAfterAppend(state[n], log[n], m) \in DurableState
        /\ SameVote(seen, StateAfterAppend(state[n], log[n], m))
    BY <1>1, <1>3, <2>1, <2>2, StateAfterAppendType DEF SameVote
  <2>. QED  BY <2>1, <2>3 DEF Rises, SameVote
<1>5. PICK applies \in BOOLEAN : applies = Accepted(state[n], log[n], m)
  BY DEF Accepted
<1>6. PICK raises \in BOOLEAN : raises = (applies /\ ApplyRaises(store[n], st, l))
  OBVIOUS
<1>7. PICK end \in DurableState :
        /\ end = IF applies THEN StateAfterApply(store[n], st, l) ELSE st
        /\ Rises(state[n], end)
  BY <1>3, <1>4, StateAfterApplyType DEF Rises, SameVote
<1>8. PICK reply : reply = IF raises THEN Failure(n, m) ELSE AppendAnswer(n, m, l, end)
  OBVIOUS
<1>9. /\ state' = [state EXCEPT ![n] = end]
      /\ diskState' = IF raises THEN diskState ELSE [diskState EXCEPT ![n] = end]
      /\ net' = Answer(m, reply)
      /\ UNCHANGED <<election, ballots, wins>>
  BY <1>2, <1>4, <1>5, <1>6, <1>7, <1>8 DEF HandleAppendEntries, tasks, history
<1>10. Moves(n)
  <2>1. CASE raises
    BY <1>7, <1>9, <2>1 DEF Moves, SameVote, Inv, TypeOK, TypeCore
  <2>2. CASE ~raises
    BY <1>3, <1>7, <1>9, <2>2, RisesFollows, SavedMoves
  <2>. QED  BY <2>1, <2>2
<1>11. \A k \in net' :
         \/ k \in net
         \/ /\ k.task # "election" /\ k.type # "VoteReply"
            /\ k.type = "AppendReply" => k.source = n /\ k.term <= diskState'[n].currentTerm
  <2>1. m.task # "election"
    BY <1>1 DEF AppendEntries
  <2>2. CASE raises
    BY <1>8, <1>9, <2>1, <2>2 DEF Answer, Failure
  <2>3. CASE ~raises
    <3>1. diskState'[n] = end /\ end.currentTerm \in Nat
      BY <1>9, <2>3 DEF Inv, TypeOK, TypeCore, DurableState
    <3>2. /\ reply.task = m.task /\ reply.type = "AppendReply"
          /\ reply.source = n /\ reply.term = end.currentTerm
      BY <1>8, <2>3 DEF AppendAnswer
    <3>. QED  BY <1>9, <2>1, <3>1, <3>2 DEF Answer
  <2>. QED  BY <2>2, <2>3
<1>12. \A k \in Node : election'[k] = Nil \/ election'[k] = election[k]
  BY <1>9
<1>. QED  BY <1>9, <1>10, <1>11, <1>12, QuietStep

LEMMA HeartbeatStepGood ==
  ASSUME Inv, Inv', ElectionInv, NEW n \in Node,
         Heartbeat(n) \/ (\E p \in Peers(n) : SendHeartbeat(n, p))
           \/ (\E m \in net : HeartbeatCallFails(n, m))
  PROVE  GoodStep
<1>1. UNCHANGED <<state, diskState, ballots, wins, election>>
  BY DEF Heartbeat, SendHeartbeat, HeartbeatCallFails, core, disk, tasks, history
<1>2. \A m \in net' : \/ m \in net
                      \/ m.task # "election" /\ m.type \notin {"VoteReply", "AppendReply"}
  <2>1. CASE Heartbeat(n)
    BY <2>1 DEF Heartbeat
  <2>2. CASE \E p \in Peers(n) : SendHeartbeat(n, p)
    <3>1. PICK p \in Peers(n) : SendHeartbeat(n, p)
      BY <2>2
    <3>2. PICK call : call = AppendPayload(n, p, "heartbeat", Current(n),
                               progress[n][Current(n)][p].nextIndex, state[n], log[n])
      OBVIOUS
    <3>. QED  BY <3>1, <3>2, PayloadQuiet DEF SendHeartbeat
  <2>3. CASE \E m \in net : HeartbeatCallFails(n, m)
    BY <2>3, AbandonStray, StrayQuiet DEF HeartbeatCallFails, Inv, TypeOK, CallsTracked
  <2>. QED  BY <2>1, <2>2, <2>3
<1>. QED  BY <1>1, <1>2, ServedStep

LEMMA RetryGood ==
  ASSUME Inv, Inv', ElectionInv, NEW n \in Node, NEW m \in net,
         m.type = "AppendReply", m.dest = n, Retry(n, m), UNCHANGED <<election, ballots, wins>>
  PROVE  GoodStep
<1>1. UNCHANGED <<state, diskState>>
  BY DEF Retry
<1>2. PICK call : call = RetryPayload(n, m)
  OBVIOUS
<1>3. call.task # "election" /\ call.type \notin {"VoteReply", "AppendReply"}
  BY <1>2, ReplyKind, PayloadQuiet DEF RetryPayload
<1>4. \A k \in net' : k \in net \/ k = call
  BY <1>2 DEF Retry
<1>. QED  BY <1>1, <1>3, <1>4, ServedStep

LEMMA HandleHeartbeatReplyGood ==
  ASSUME Inv, Inv', ElectionInv, NEW n \in Node, NEW m \in net, HandleHeartbeatReply(n, m)
  PROVE  GoodStep
<1>1. m.type = "AppendReply" /\ m.dest = n /\ UNCHANGED <<election, ballots, wins>>
  BY DEF HandleHeartbeatReply
<1>2. CASE EndHeartbeat(n, m)
  BY <1>1, <1>2, ServedStep DEF EndHeartbeat
<1>3. CASE DeposedByHeartbeat(n, m)
  <2>1. PICK st \in DurableState : st = Observe(state[n], m.term) /\ Follows(state[n], st)
    BY <1>1, ReplyKind, Observed
  <2>2. Moves(n)
    BY <1>3, <2>1, SavedMoves DEF DeposedByHeartbeat
  <2>3. \A k \in net' : k \in net
    BY <1>3 DEF DeposedByHeartbeat
  <2>. QED  BY <1>1, <2>2, <2>3, QuietStep
<1>4. CASE Retry(n, m)
  BY <1>1, <1>4, RetryGood
<1>. QED  BY <1>2, <1>3, <1>4 DEF HandleHeartbeatReply

-----------------------------------------------------------------------------
(* Steps of a submission.                                                  *)

\* The end of a submission leaves the term and the vote it was given.
LEMMA EndSubmitVotes ==
  ASSUME Inv, NEW n \in Node, NEW s \in Submission, NEW l \in Seq(Entry),
         NEW st \in DurableState, NEW ds \in DurableState, EndSubmit(n, s, l, st, ds)
  PROVE  /\ \A k \in Node \ {n} : state'[k] = state[k] /\ diskState'[k] = diskState[k]
         /\ SameVote(state'[n], st)
         /\ SameVote(diskState'[n], ds) \/ SameVote(diskState'[n], st)
<1>1. s.entry.index \in Nat
  BY DEF Submission, SubmittedEntry
<1>2. PICK committed \in DurableState :
        /\ committed = [st EXCEPT !.commitIndex = s.entry.index]
        /\ SameVote(committed, st)
  <2>. DEFINE c == [st EXCEPT !.commitIndex = s.entry.index]
  <2>1. c \in DurableState
    BY <1>1 DEF DurableState
  <2>2. SameVote(c, st)
    BY <1>1 DEF DurableState, SameVote
  <2>. QED  BY <2>1, <2>2
<1>3. PICK end \in DurableState :
        /\ end = StateAfterApply(store[n], committed, l)
        /\ SameVote(end, st)
  <2>1. /\ StateAfterApply(store[n], committed, l) \in DurableState
        /\ StateAfterApply(store[n], committed, l).currentTerm = committed.currentTerm
        /\ StateAfterApply(store[n], committed, l).votedFor = committed.votedFor
    BY StateAfterApplyType
  <2>. QED  BY <1>2, <2>1 DEF SameVote
<1>4. /\ state' \in {[state EXCEPT ![n] = st], [state EXCEPT ![n] = end]}
      /\ diskState' \in {[diskState EXCEPT ![n] = ds], [diskState EXCEPT ![n] = end]}
  BY <1>2, <1>3 DEF EndSubmit
<1>. QED  BY <1>3, <1>4 DEF Inv, TypeOK, TypeCore, SameVote

\* The records a submission goes on with are the node's, or a newer term saved.
LEMMA SubmissionMoves ==
  ASSUME Inv, ElectionInv, NEW n \in Node, NEW st \in DurableState, NEW ds \in DurableState,
         (st = state[n] /\ ds = diskState[n]) \/ (st = ds /\ Follows(state[n], st)),
         \A k \in Node \ {n} : state'[k] = state[k] /\ diskState'[k] = diskState[k],
         SameVote(state'[n], st),
         SameVote(diskState'[n], ds) \/ SameVote(diskState'[n], st)
  PROVE  Moves(n)
<1>1. CASE st = ds /\ Follows(state[n], st)
  BY <1>1, VoteSavedMoves
<1>2. CASE st = state[n] /\ SameVote(diskState'[n], st)
  <2>1. Follows(state[n], st)
    BY <1>2 DEF Follows
  <2>. QED  BY <1>2, <2>1, VoteSavedMoves
<1>3. CASE st = state[n] /\ ds = diskState[n] /\ SameVote(diskState'[n], ds)
  BY <1>3 DEF Moves, Rises, SameVote
<1>. QED  BY <1>1, <1>2, <1>3

LEMMA ResumeGood ==
  ASSUME Inv, Inv', ElectionInv, NEW n \in Node, NEW m \in net,
         m.task = "submit", Caller(m) = n,
         NEW replicated \in SUBSET Node, NEW st \in DurableState, NEW ds \in DurableState,
         (st = state[n] /\ ds = diskState[n]) \/ (st = ds /\ Follows(state[n], st)),
         NEW prog, NEW base, \A k \in base : k \in net \/ Stray(k),
         Resume(n, replicated, st, ds, prog, base), UNCHANGED <<election, ballots, wins>>
  PROVE  GoodStep
<1>1. PICK s \in Submission : s = [submit[n] EXCEPT !.replicated = replicated]
  BY SubmitCall DEF Submission
<1>2. log[n] \in Seq(Entry)
  BY DEF Inv, TypeOK, TypeCore
<1>3. \A k \in Node : election'[k] = Nil \/ election'[k] = election[k]
  OBVIOUS
<1>4. CASE /\ CallNextPeer(n, s, log[n], st, prog, base)
           /\ state' = [state EXCEPT ![n] = st]
           /\ diskState' = [diskState EXCEPT ![n] = ds]
  <2>1. Moves(n)
    <3>1. /\ \A k \in Node \ {n} : state'[k] = state[k] /\ diskState'[k] = diskState[k]
          /\ state'[n] = st /\ diskState'[n] = ds
      BY <1>4 DEF Inv, TypeOK, TypeCore
    <3>2. SameVote(state'[n], st) /\ SameVote(diskState'[n], ds)
      BY <3>1 DEF SameVote
    <3>. QED  BY <3>1, <3>2, SubmissionMoves
  <2>2. PICK p \in s.todo :
          net' = base \cup {AppendPayload(n, p, "submit", Current(n),
                              prog[n][Current(n)][p].nextIndex, st, log[n])}
    BY <1>4 DEF CallNextPeer
  <2>3. PICK call : call = AppendPayload(n, p, "submit", Current(n),
                             prog[n][Current(n)][p].nextIndex, st, log[n])
    OBVIOUS
  <2>4. call.task # "election" /\ call.type \notin {"VoteReply", "AppendReply"}
    BY <2>3, PayloadQuiet
  <2>5. \A k \in net' : k \in net \/ Stray(k) \/ k = call
    BY <2>2, <2>3
  <2>. QED  BY <1>3, <2>1, <2>4, <2>5, StrayQuiet, QuietStep
<1>5. CASE EndSubmit(n, s, log[n], st, ds) /\ net' = base
  <2>1. Moves(n)
    BY <1>2, <1>5, EndSubmitVotes, SubmissionMoves
  <2>. QED  BY <1>3, <1>5, <2>1, StrayQuiet, QuietStep
<1>. QED  BY <1>1, <1>4, <1>5 DEF Resume

LEMMA HandleSubmitReplyGood ==
  ASSUME Inv, Inv', ElectionInv, NEW n \in Node, NEW m \in net, HandleSubmitReply(n, m)
  PROVE  GoodStep
<1>1. /\ m.type = "AppendReply" /\ m.dest = n /\ m.task = "submit" /\ Caller(m) = n
      /\ m.term \in Nat /\ UNCHANGED <<election, ballots, wins>>
  BY ReplyKind DEF HandleSubmitReply
<1>2. /\ state[n] \in DurableState /\ diskState[n] \in DurableState
      /\ submit[n].replicated \in SUBSET Node
  BY <1>1, SubmitCall DEF Inv, TypeOK, TypeCore
<1>3. \A k \in net \ {m} : k \in net \/ Stray(k)
  OBVIOUS
<1>4. CASE Replicate(n, m)
  <2>1. PICK counted \in SUBSET Node : counted = Replicated(n, m)
    BY <1>1, <1>2, ReplyKind DEF Replicated, Peers
  <2>. QED  BY <1>1, <1>2, <1>3, <1>4, <2>1, ResumeGood DEF Replicate
<1>5. CASE DeposedBySubmit(n, m)
  <2>1. PICK st \in DurableState : st = Observe(state[n], m.term) /\ Follows(state[n], st)
    BY <1>1, Observed
  <2>2. Resume(n, submit[n].replicated, st, st, progress, net \ {m})
    BY <1>5, <2>1 DEF DeposedBySubmit
  <2>. QED  BY <1>1, <1>2, <1>3, <2>1, <2>2, ResumeGood
<1>6. CASE Retry(n, m)
  BY <1>1, <1>6, RetryGood
<1>. QED  BY <1>4, <1>5, <1>6 DEF HandleSubmitReply

LEMMA SubmitCallFailsGood ==
  ASSUME Inv, Inv', ElectionInv, NEW n \in Node, NEW m \in net, SubmitCallFails(n, m)
  PROVE  GoodStep
<1>1. m.task = "submit" /\ Caller(m) = n
  BY DEF SubmitCallFails, Calls
<1>2. PICK left \in Leftovers({m}) :
        Resume(n, submit[n].replicated, state[n], diskState[n], progress, (net \ {m}) \cup left)
  BY DEF SubmitCallFails
<1>3. \A k \in (net \ {m}) \cup left : k \in net \/ Stray(k)
  BY LeftoversStray DEF Inv, TypeOK, CallsTracked
<1>4. /\ state[n] \in DurableState /\ diskState[n] \in DurableState
      /\ submit[n].replicated \in SUBSET Node
      /\ UNCHANGED <<election, ballots, wins>>
  BY <1>1, SubmitCall DEF SubmitCallFails, Inv, TypeOK, TypeCore
<1>. QED  BY <1>1, <1>2, <1>3, <1>4, ResumeGood

LEMMA SubmitCommandGood ==
  ASSUME Inv, Inv', ElectionInv, NEW n \in Node, NEW c \in Command, SubmitCommand(n, c)
  PROVE  GoodStep
<1>1. state[n] \in DurableState /\ diskState[n] \in DurableState /\ state[n].currentTerm \in Nat
  BY DEF Inv, TypeOK, TypeCore, DurableState
<1>2. PICK s, l : /\ s = NewSubmission(n, c, state[n].currentTerm)
                  /\ l = Append(log[n], [term |-> state[n].currentTerm, command |-> c])
  OBVIOUS
<1>3. s \in Submission /\ l \in Seq(Entry)
  BY <1>1, <1>2, NewSubmissionType DEF Inv, TypeOK
<1>4. UNCHANGED <<election, ballots, wins>>
  BY DEF SubmitCommand
<1>5. \/ CallNextPeer(n, s, l, state[n], progress, net) /\ UNCHANGED <<state, diskState>>
      \/ EndSubmit(n, s, l, state[n], diskState[n]) /\ UNCHANGED net
  BY <1>2 DEF SubmitCommand
<1>6. CASE CallNextPeer(n, s, l, state[n], progress, net) /\ UNCHANGED <<state, diskState>>
  <2>1. PICK p \in s.todo :
          net' = net \cup {AppendPayload(n, p, "submit", Current(n),
                             progress[n][Current(n)][p].nextIndex, state[n], l)}
    BY <1>6 DEF CallNextPeer
  <2>2. PICK call : call = AppendPayload(n, p, "submit", Current(n),
                             progress[n][Current(n)][p].nextIndex, state[n], l)
    OBVIOUS
  <2>3. call.task # "election" /\ call.type \notin {"VoteReply", "AppendReply"}
    BY <2>2, PayloadQuiet
  <2>4. \A k \in net' : k \in net \/ k = call
    BY <2>1, <2>2
  <2>. QED  BY <1>4, <1>6, <2>3, <2>4, ServedStep
<1>7. CASE EndSubmit(n, s, l, state[n], diskState[n]) /\ UNCHANGED net
  <2>1. Moves(n)
    BY <1>1, <1>3, <1>7, EndSubmitVotes, SubmissionMoves
  <2>. QED  BY <1>4, <1>7, <2>1, QuietStep
<1>. QED  BY <1>5, <1>6, <1>7

LEMMA SubmitToSoleVoterGood ==
  ASSUME Inv, Inv', ElectionInv, NEW n \in Node, NEW c \in Command, SubmitToSoleVoter(n, c)
  PROVE  GoodStep
<1>1. PICK st \in DurableState : st = Campaigning(n)
  BY CampaigningType DEF Inv, TypeOK
<1>2. PICK s, l : /\ s = NewSubmission(n, c, st.currentTerm)
                  /\ l = Append(log[n], [term |-> st.currentTerm, command |-> c])
  OBVIOUS
<1>3. st.currentTerm \in Nat /\ s \in Submission /\ l \in Seq(Entry)
  BY <1>1, <1>2, NewSubmissionType DEF Inv, TypeOK, DurableState
<1>4. /\ BecomeLeader(n, st.currentTerm)
      /\ ballots' = ballots \cup {Ballot(st.currentTerm, n, n)}
      /\ EndSubmit(n, s, l, st, st)
      /\ Node = {n}
      /\ UNCHANGED <<election, net>>
  BY <1>1, <1>2 DEF SubmitToSoleVoter
<1>5. /\ DiskBehind' /\ DiskForward /\ BallotsRemembered' /\ E!Cast
      /\ \A m \in net : Durable(m)'
  BY <1>1, <1>3, <1>4, EndSubmitVotes, CampaignCast
<1>6. E!Elect
  <2>1. Majority = 1
    <3>1. Cardinality(Node) = 1
      BY <1>4, FS_Singleton
    <3>. QED  BY <3>1 DEF Majority
  <2>. QED  BY <1>3, <1>4, <2>1, SoleWin
<1>7. CampaignCalls' /\ CountedVotesCast'
  BY <1>4 DEF ElectionInv, CampaignCalls, CampaignCall, CountedVotesCast
<1>8. AnswersDurable'
  BY <1>4, <1>5 DEF AnswersDurable, Durable
<1>. QED  BY <1>5, <1>6, <1>7, <1>8 DEF GoodStep, ElectionInv, E!Next

-----------------------------------------------------------------------------
(* Crashes.                                                                *)

\* A restarted process remembers what its state file does.
LEMMA ReloadMoves ==
  ASSUME Inv, ElectionInv, NEW n \in Node, NEW ds \in DurableState, Follows(diskState[n], ds),
         NEW l, NEW docs, Reload(n, ds, l, docs)
  PROVE  /\ Moves(n)
         /\ \A k \in Node : election'[k] = Nil \/ election'[k] = election[k]
         /\ UNCHANGED <<ballots, wins>>
<1>1. /\ \A k \in Node \ {n} : state'[k] = state[k] /\ diskState'[k] = diskState[k]
      /\ state'[n] = ds /\ diskState'[n] = ds
  BY DEF Reload, Inv, TypeOK, TypeCore
<1>2. \A k \in Node : election'[k] = Nil \/ election'[k] = election[k]
  BY DEF Reload, Inv, TypeOK, TypeTasks
<1>. QED  BY <1>1, <1>2 DEF Moves, SameVote, Reload, history

LEMMA RestartGood ==
  ASSUME Inv, Inv', ElectionInv, NEW n \in Node, Restart(n)
  PROVE  GoodStep
<1>1. diskState[n] \in DurableState /\ Follows(diskState[n], diskState[n])
  BY DEF Inv, TypeOK, TypeCore, Follows
<1>2. Reload(n, diskState[n], diskLog[n], store[n])
  BY DEF Restart
<1>3. /\ Moves(n)
      /\ \A k \in Node : election'[k] = Nil \/ election'[k] = election[k]
      /\ UNCHANGED <<ballots, wins>>
  BY <1>1, <1>2, ReloadMoves
<1>4. \A k \in net' : k \in net \/ Stray(k)
  BY AbandonStray, OwnCallsOfNet DEF Restart, Inv, TypeOK, CallsTracked
<1>. QED  BY <1>3, <1>4, StrayQuiet, QuietStep

LEMMA CrashInAppendGood ==
  ASSUME Inv, Inv', ElectionInv, NEW n \in Node, NEW m \in net, CrashInAppend(n, m)
  PROVE  GoodStep
<1>1. diskState[n] \in DurableState /\ Follows(diskState[n], diskState[n])
  BY DEF Inv, TypeOK, TypeCore, Follows
<1>2. PICK l, docs : Reload(n, diskState[n], l, docs)
  BY DEF CrashInAppend
<1>3. /\ Moves(n)
      /\ \A k \in Node : election'[k] = Nil \/ election'[k] = election[k]
      /\ UNCHANGED <<ballots, wins>>
  BY <1>1, <1>2, ReloadMoves
<1>4. PICK reply : reply = Failure(n, m)
  OBVIOUS
<1>5. PICK left \in Leftovers(OwnCalls(n)) :
        net' = (Answer(m, reply) \ OwnCalls(n)) \cup left
  BY <1>4 DEF CrashInAppend
<1>6. \A k \in left : Stray(k)
  BY OwnCallsOfNet, LeftoversStray DEF Inv, TypeOK, CallsTracked
<1>7. reply.type = "ServerError" /\ reply.task # "election"
  <2>1. m.task # "election"
    BY MessageKinds DEF CrashInAppend, Inv, TypeOK, TypeNet
  <2>. QED  BY <1>4, <2>1 DEF Failure
<1>8. \A k \in net' : k \in net \/ Stray(k) \/ k = reply
  BY <1>5, <1>6 DEF Answer
<1>. QED  BY <1>3, <1>7, <1>8, StrayQuiet, QuietStep

LEMMA CrashInSoleSubmitGood ==
  ASSUME Inv, Inv', ElectionInv, NEW n \in Node, NEW c \in Command, CrashInSoleSubmit(n, c)
  PROVE  GoodStep
<1>1. diskState[n] \in DurableState /\ Follows(diskState[n], diskState[n])
  BY DEF Inv, TypeOK, TypeCore, Follows
<1>2. PICK l, docs : Reload(n, diskState[n], l, docs)
  BY DEF CrashInSoleSubmit
<1>3. /\ Moves(n)
      /\ \A k \in Node : election'[k] = Nil \/ election'[k] = election[k]
      /\ UNCHANGED <<ballots, wins>>
  BY <1>1, <1>2, ReloadMoves
<1>4. \A k \in net' : k \in net \/ Stray(k)
  BY AbandonStray, OwnCallsOfNet DEF CrashInSoleSubmit, Inv, TypeOK, CallsTracked
<1>. QED  BY <1>3, <1>4, StrayQuiet, QuietStep

LEMMA CrashInSubmitGood ==
  ASSUME Inv, Inv', ElectionInv, NEW n \in Node, NEW m \in net, CrashInSubmit(n, m)
  PROVE  GoodStep
<1>1. m.task = "submit" /\ Caller(m) = n /\ Abandon(OwnCalls(n))
  BY DEF CrashInSubmit, Calls
<1>0. PICK answered \in {m.type = "AppendReply", FALSE} :
        \E l, docs :
          Reload(n, IF answered /\ Deposes(n, m) THEN Observe(state[n], m.term)
                    ELSE diskState[n], l, docs)
  BY DEF CrashInSubmit
<1>2. PICK l, docs :
        Reload(n, IF answered /\ Deposes(n, m) THEN Observe(state[n], m.term)
                  ELSE diskState[n], l, docs)
  BY <1>0
<1>3. /\ diskState[n] \in DurableState /\ state[n] \in DurableState
      /\ Follows(diskState[n], diskState[n])
  BY DEF Inv, TypeOK, TypeCore, Follows
<1>4. PICK ds \in DurableState : Reload(n, ds, l, docs) /\ Follows(diskState[n], ds)
  <2>1. CASE answered /\ Deposes(n, m)
    <3>1. m.term \in Nat
      BY <2>1, MessageKinds DEF Inv, TypeOK, TypeNet, AppendReply, Term
    <3>2. PICK st \in DurableState : st = Observe(state[n], m.term) /\ Follows(state[n], st)
      BY <3>1, Observed
    <3>3. Follows(diskState[n], state[n])
      BY <1>3, RisesFollows DEF ElectionInv, DiskBehind
    <3>. QED  BY <1>2, <1>3, <2>1, <3>2, <3>3, FollowsTransitive
  <2>2. CASE ~(answered /\ Deposes(n, m))
    BY <1>2, <1>3, <2>2
  <2>. QED  BY <2>1, <2>2
<1>5. /\ Moves(n)
      /\ \A k \in Node : election'[k] = Nil \/ election'[k] = election[k]
      /\ UNCHANGED <<ballots, wins>>
  BY <1>4, ReloadMoves
<1>6. \A k \in net' : k \in net \/ Stray(k)
  BY <1>1, AbandonStray, OwnCallsOfNet DEF Inv, TypeOK, CallsTracked
<1>. QED  BY <1>5, <1>6, StrayQuiet, QuietStep

-----------------------------------------------------------------------------
LEMMA StepGood ==
  ASSUME Inv, Inv', ElectionInv, [Next]_vars
  PROVE  GoodStep
<1>1. ASSUME NEW n \in Node, ElectionStep(n)
      PROVE  GoodStep
  BY <1>1, StartElectionGood, HandleRequestVoteGood, HandleVoteReplyGood, VoteCallFailsGood
  DEF ElectionStep
<1>2. ASSUME NEW n \in Node, HeartbeatStep(n)
      PROVE  GoodStep
  BY <1>2, HeartbeatStepGood, HandleHeartbeatReplyGood DEF HeartbeatStep
<1>3. ASSUME NEW n \in Node, SubmitStep(n)
      PROVE  GoodStep
  BY <1>3, SubmitCommandGood, SubmitToSoleVoterGood, HandleSubmitReplyGood, SubmitCallFailsGood
  DEF SubmitStep
<1>4. ASSUME NEW n \in Node, CrashStep(n)
      PROVE  GoodStep
  BY <1>4, RestartGood, CrashInAppendGood, CrashInSubmitGood, CrashInSoleSubmitGood DEF CrashStep
<1>5. CASE UNCHANGED vars
  BY <1>5, ServedStep DEF vars
<1>. QED  BY <1>1, <1>2, <1>3, <1>4, <1>5, HandleAppendEntriesGood DEF Next, AppendStep

LEMMA AlwaysElectionInv == Spec => [](Inv /\ ElectionInv)
<1>1. Init => Inv /\ ElectionInv
  BY InitInv, InitElectionInv
<1>2. Inv /\ ElectionInv /\ [Next]_vars => (Inv /\ ElectionInv)'
  BY StepInv, StepGood DEF GoodStep
<1>. QED  BY <1>1, <1>2, PTL DEF Spec

\* The elections of raft_runtime.py, with their unlocked request_vote route,
\* late answers and crashes, are those of the abstract specification.
THEOREM RuntimeImplementsElections == Spec => ImplementsElections
<1>1. Init => E!Init
  BY DEF Init, E!Init
<1>2. Inv /\ ElectionInv /\ [Next]_vars => [E!Next]_(E!evars)
  BY StepInv, StepGood DEF GoodStep
<1>. QED  BY <1>1, <1>2, AlwaysElectionInv, PTL DEF Spec, ImplementsElections, E!Spec

\* The answers of request_vote and append_entries are backed by the state file
\* of the node that gave them.
THEOREM AnswersAlwaysDurable == Spec => []AnswersDurable
<1>1. ElectionInv => AnswersDurable
  BY DEF ElectionInv
<1>. QED  BY <1>1, AlwaysElectionInv, PTL

\* No state.json ever forgets a term or a vote of its term.
THEOREM StateFileForward == Spec => DurableVoteForward
<1>1. Inv /\ ElectionInv /\ [Next]_vars => DiskForward
  BY StepInv, StepGood DEF GoodStep
<1>2. DiskForward <=>
        \A n \in Node :
          \/ diskState'[n].currentTerm > diskState[n].currentTerm
          \/ /\ diskState'[n].currentTerm = diskState[n].currentTerm
             /\ diskState[n].votedFor \in {Nil, diskState'[n].votedFor}
  BY DEF DiskForward, Follows
<1>. QED  BY <1>1, <1>2, AlwaysElectionInv, PTL DEF Spec, DurableVoteForward

\* What the abstract elections promise holds of those the runtimes hold.
LEMMA AbstractElectionsSafe == ImplementsElections => [](VoteOnce /\ CampaignSafety)
<1>1. E!Init => P!Init
  BY DEF E!Init, P!Init
<1>2. [E!Next]_(E!evars) => [P!Next]_(P!evars)
  BY SameCardinality, OtherCardinality
  DEF E!Next, P!Next, E!evars, P!evars, E!Cast, P!Cast, E!MayCast, P!MayCast, E!Ballot, P!Ballot,
      E!Elect, P!Elect, E!Win, P!Win, E!HasMajority, P!HasMajority, E!Supporters, P!Supporters
<1>3. P!Spec => [](P!OneVotePerTerm /\ P!OneWinnerPerTerm)
  BY P!ElectionsSafe, NodeAssumption DEF IsFiniteSet, P!IsFiniteSet
<1>4. P!OneVotePerTerm /\ P!OneWinnerPerTerm => VoteOnce /\ CampaignSafety
  BY DEF P!OneVotePerTerm, P!OneWinnerPerTerm, VoteOnce, CampaignSafety, E!OneVotePerTerm,
         E!OneWinnerPerTerm
<1>. QED  BY <1>1, <1>2, <1>3, <1>4, PTL
          DEF ImplementsElections, E!Spec, P!Spec

\* A node grants one candidate its vote in a term, whatever its own campaigns,
\* its unlocked request_vote route and its crashes do.
THEOREM VotesAlwaysUnique == Spec => []VoteOnce
BY RuntimeImplementsElections, AbstractElectionsSafe, PTL

\* One node wins the campaigns of a term.
THEOREM CampaignsAlwaysSafe == Spec => []CampaignSafety
BY RuntimeImplementsElections, AbstractElectionsSafe, PTL
=============================================================================
