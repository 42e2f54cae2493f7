--------------------------- MODULE ReplicatedLog ----------------------------
(***************************************************************************)
(* The logs of a shard group as the proofs of Raft's safety look at them.  *)
(* A group `g` is a record of what the voters' files and the history of    *)
(* the elections say, and of two pieces of history more:                   *)
(*   made[t]      the log of the leader of term t, as last extended        *)
(*   acks[t][v]   how far voter v's files have held that log               *)
(* The rest of a group is read off RaftRuntime's variables:                *)
(*   terms[v]     the term in v's state file                               *)
(*   logs[v]      v's log                                                  *)
(*   campaigns[v] the term v is waiting for votes in, 0 if it is not       *)
(*   ballots, wins                                                         *)
(***************************************************************************)
EXTENDS RaftCore

Vote(t, v, c) == [term |-> t, voter |-> v, candidate |-> c]
Victory(t, n) == [term |-> t, node |-> n]

GroupType(g) ==
  /\ g.terms \in [Node -> Nat]
  /\ g.logs \in [Node -> Seq(Entry)]
  /\ g.campaigns \in [Node -> Nat]
  /\ g.ballots \subseteq [term : Nat, voter : Node, candidate : Node]
  /\ g.wins \subseteq [term : Nat, node : Node]
  /\ g.made \in [Nat -> Seq(Entry)]
  /\ g.acks \in [Nat -> [Node -> Nat]]

Majorities == {Q \in SUBSET Node : Cardinality(Q) >= Majority}

Won(g, t) == \E w \in g.wins : w.term = t

\* The two logs have the same first k entries.
Agree(l, c, k) == k <= Len(l) /\ k <= Len(c) /\ \A j \in 1 .. k : l[j] = c[j]

\* Entry i of the leader of term t is one it created itself.
Direct(g, t, i) == i \in 1 .. Len(g.made[t]) /\ g.made[t][i].term = t

\* A majority holds the leader's log up to i.
Chosen(g, t, i) == \E Q \in Majorities : \A v \in Q : g.acks[t][v] >= i

\* A majority has gone to later terms without it, so that it is never chosen.
Blocked(g, t, i) == \E Q \in Majorities : \A v \in Q : g.terms[v] > t /\ g.acks[t][v] < i

\* The log l has what may be chosen of the leader's log up to i.
Kept(g, l, t, i) == Agree(l, g.made[t], i) \/ Blocked(g, t, i)

\* Every entry of l, and what precedes it, comes from the leader of its term.
Rooted(g, l) == \A k \in 1 .. Len(l) : Won(g, l[k].term) /\ Agree(l, g.made[l[k].term], k)

\* The first k entries of l are what a leader chose by term t.
Committed(g, l, k, t) ==
  \/ k = 0
  \/ \E s \in 0 .. t : \E i \in k .. Len(g.made[s]) :
       Direct(g, s, i) /\ Chosen(g, s, i) /\ Agree(l, g.made[s], k)

-----------------------------------------------------------------------------
(* The invariant of a group.                                               *)

WinsCounted(g) ==
  \A w \in g.wins :
    w.term > 0 /\ \E Q \in Majorities : \A v \in Q : Vote(w.term, v, w.node) \in g.ballots

BallotsKnown(g) ==
  \A b \in g.ballots : b.term <= g.terms[b.voter] /\ b.term <= g.terms[b.candidate]

MadeByWinners(g) == \A t \in Nat : ~Won(g, t) => g.made[t] = <<>>

MadeRooted(g) ==
  \A t \in Nat :
    Rooted(g, g.made[t]) /\ \A k \in 1 .. Len(g.made[t]) : g.made[t][k].term <= t

LogsRooted(g) == \A v \in Node : Rooted(g, g.logs[v])

AcksMade(g) ==
  \A t \in Nat, v \in Node :
    g.acks[t][v] <= Len(g.made[t]) /\ (g.acks[t][v] > 0 => g.terms[v] >= t)

\* A voter's log has what it acknowledged to term t, unless that is blocked.
AckKept(g, t, v) ==
  \A i \in 1 .. g.acks[t][v] : Direct(g, t, i) => Kept(g, g.logs[v], t, i)

AcksKept(g) == \A t \in Nat, v \in Node : AckKept(g, t, v)

\* The log of term u's leader has what the leader of term t created, unless
\* that is blocked.
LeaderKept(g, t, u) ==
  \A i \in 1 .. Len(g.made[t]) : Direct(g, t, i) => Kept(g, g.made[u], t, i)

LeadersKept(g) == \A t, u \in Nat : t < u /\ Won(g, u) => LeaderKept(g, t, u)

\* Candidate c's log has what v acknowledged before it voted for c.
VoterKept(g, c, v) ==
  \A t \in 0 .. g.campaigns[c] - 1 : \A i \in 1 .. g.acks[t][v] :
    Direct(g, t, i) => Kept(g, g.logs[c], t, i)

VotersKept(g) ==
  \A c, v \in Node :
    g.campaigns[c] > 0 /\ Vote(g.campaigns[c], v, c) \in g.ballots => VoterKept(g, c, v)

CampaignsOpen(g) ==
  \A c \in Node : g.campaigns[c] > 0 => Victory(g.campaigns[c], c) \notin g.wins

\* A crash can take a node back to a term its log is ahead of; what it
\* campaigns for then is lost.
CampaignLost(g, c) ==
  \E Q \in Majorities : \A v \in Q :
    g.terms[v] > g.campaigns[c] /\ Vote(g.campaigns[c], v, c) \notin g.ballots

LateCampaignsLost(g) ==
  \A c \in Node :
    g.campaigns[c] > 0 /\ LastTerm(g.logs[c]) > g.campaigns[c] => CampaignLost(g, c)

GroupInv(g) ==
  /\ GroupType(g)
  /\ WinsCounted(g)
  /\ BallotsKnown(g)
  /\ MadeByWinners(g)
  /\ MadeRooted(g)
  /\ LogsRooted(g)
  /\ AcksMade(g)
  /\ AcksKept(g)
  /\ LeadersKept(g)
  /\ VotersKept(g)
  /\ CampaignsOpen(g)
  /\ LateCampaignsLost(g)

-----------------------------------------------------------------------------
(* The steps of a group, from g to h.                                      *)

TermsForward(g, h) == \A v \in Node : g.terms[v] <= h.terms[v]

CampaignsEnd(g, h) == \A c \in Node : h.campaigns[c] \in {0, g.campaigns[c]}

SameLogs(g, h) == h.logs = g.logs /\ h.made = g.made /\ h.acks = g.acks

\* Terms rise, campaigns are given up.
Advance(g, h) ==
  /\ TermsForward(g, h) /\ CampaignsEnd(g, h)
  /\ SameLogs(g, h) /\ h.ballots = g.ballots /\ h.wins = g.wins

\* Node c starts a campaign with its own vote.
Stand(g, h, c, u) ==
  /\ TermsForward(g, h) /\ g.terms[c] < u /\ u <= h.terms[c]
  /\ h.campaigns = [g.campaigns EXCEPT ![c] = u]
  /\ h.ballots = g.ballots \cup {Vote(u, c, c)}
  /\ SameLogs(g, h) /\ h.wins = g.wins

AtLeast(l, k) == LastTerm(l) > LastTerm(k) \/ (LastTerm(l) = LastTerm(k) /\ Len(l) >= Len(k))

\* Voter v gives its vote of term u to c.
GiveVote(g, h, v, c, u) ==
  /\ TermsForward(g, h) /\ CampaignsEnd(g, h)
  /\ g.terms[v] <= u /\ u <= h.terms[v] /\ u <= h.terms[c]
  /\ u = g.campaigns[c] => AtLeast(g.logs[c], g.logs[v])
  /\ h.ballots = g.ballots \cup {Vote(u, v, c)}
  /\ SameLogs(g, h) /\ h.wins = g.wins

\* Candidate c has its majority; its log becomes the term's.
Win(g, h, c) ==
  /\ g.campaigns[c] > 0
  /\ \E Q \in Majorities : \A v \in Q : Vote(g.campaigns[c], v, c) \in g.ballots
  /\ \A w \in g.wins : w.term = g.campaigns[c] => w.node = c
  /\ h.wins = g.wins \cup {Victory(g.campaigns[c], c)}
  /\ h.made = [g.made EXCEPT ![g.campaigns[c]] = g.logs[c]]
  /\ h.campaigns = [g.campaigns EXCEPT ![c] = 0]
  /\ h.terms = g.terms /\ h.logs = g.logs /\ h.acks = g.acks /\ h.ballots = g.ballots

\* The leader n of term t appends the entry e to its log.
Extend(g, h, n, t, e) ==
  /\ Victory(t, n) \in g.wins /\ g.terms[n] <= t
  /\ g.logs[n] = g.made[t] /\ g.campaigns[n] = 0
  /\ e \in Entry /\ e.term = t
  /\ h.made = [g.made EXCEPT ![t] = Append(g.made[t], e)]
  /\ h.logs = [g.logs EXCEPT ![n] = Append(g.made[t], e)]
  /\ h.acks = [g.acks EXCEPT ![t] = [g.acks[t] EXCEPT ![n] = Len(g.made[t]) + 1]]
  /\ h.terms = g.terms /\ h.campaigns = g.campaigns
  /\ h.ballots = g.ballots /\ h.wins = g.wins

\* Voter v takes over the log of the leader of term u up to k, which ends with
\* all the leader had before it was elected.  Its state file may not say so.
Accept(g, h, v, u, k) ==
  /\ Won(g, u) /\ g.terms[v] <= u
  /\ k \in 0 .. Len(g.made[u])
  /\ \A j \in k + 1 .. Len(g.made[u]) : g.made[u][j].term = u
  /\ TermsForward(g, h)
  /\ h.logs = [g.logs EXCEPT ![v] =
       IF Agree(g.logs[v], g.made[u], k) THEN g.logs[v] ELSE SubSeq(g.made[u], 1, k)]
  /\ \/ h.acks = g.acks
     \/ /\ h.terms[v] >= u
        /\ h.acks = [g.acks EXCEPT ![u] = [g.acks[u] EXCEPT ![v] =
             IF g.acks[u][v] >= k THEN g.acks[u][v] ELSE k]]
  /\ CampaignsEnd(g, h) /\ h.campaigns[v] = 0
  /\ h.made = g.made /\ h.ballots = g.ballots /\ h.wins = g.wins

\* What every step does: nothing is forgotten, a term that has been won is
\* extended by entries of its own, and a voter acknowledges nothing of a term
\* it has left.
Grows(g, h) ==
  /\ TermsForward(g, h)
  /\ g.ballots \subseteq h.ballots /\ g.wins \subseteq h.wins
  /\ \A t \in Nat :
       /\ Agree(h.made[t], g.made[t], Len(g.made[t]))
       /\ Won(g, t) => \A k \in Len(g.made[t]) + 1 .. Len(h.made[t]) : h.made[t][k].term = t
       /\ \A v \in Node :
            /\ g.acks[t][v] <= h.acks[t][v]
            /\ g.acks[t][v] = h.acks[t][v] \/ g.terms[v] <= t
=============================================================================
