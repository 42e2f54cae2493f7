------------------------ MODULE ReplicatedLogProofs -------------------------
(* What the operators of RaftCore return; then that every step of a group    *)
(* keeps its invariant, and nothing chosen is lost.                          *)
EXTENDS ReplicatedLog, FiniteSetTheorems, SequenceTheorems, TLAPS

-----------------------------------------------------------------------------
(* What the operators of RaftCore return, for every log and payload.       *)

\* The part of a message the append operators look at.
Payload(m) ==
  /\ m.term \in Nat /\ m.prevLogIndex \in Nat /\ m.leaderCommit \in Nat
  /\ m.entries \in Seq(Entry)

LEMMA MajorityType == Majority \in Nat /\ Majority >= 1
BY NodeAssumption, FS_CardinalityType DEF Majority

LEMMA ObserveType ==
  ASSUME NEW st \in DurableState, NEW term \in Nat
  PROVE  /\ Observe(st, term) \in DurableState
         /\ Observe(st, term).currentTerm >= st.currentTerm
         /\ Observe(st, term).currentTerm >= term
         /\ Observe(st, term).currentTerm = st.currentTerm => Observe(st, term) = st
<1>1. CASE term > st.currentTerm
  <2>1. Observe(st, term) = [st EXCEPT !.currentTerm = term, !.votedFor = Nil]
    BY <1>1 DEF Observe
  <2>2. /\ Observe(st, term) \in DurableState
        /\ Observe(st, term).currentTerm = term
    BY <2>1 DEF DurableState
  <2>. QED  BY <1>1, <2>2 DEF DurableState
<1>2. CASE ~(term > st.currentTerm)
  BY <1>2 DEF Observe, DurableState
<1>. QED  BY <1>1, <1>2

LEMMA LastTermType ==
  ASSUME NEW l \in Seq(Entry)
  PROVE  LastTerm(l) \in Nat
<1>1. CASE l = <<>>
  BY <1>1 DEF LastTerm
<1>2. CASE l # <<>>
  <2>1. Len(l) \in 1 .. Len(l)
    BY <1>2, EmptySeq
  <2>2. l[Len(l)] \in Entry
    BY <2>1, ElementOfSeq
  <2>. QED  BY <1>2, <2>2 DEF LastTerm, Entry
<1>. QED  BY <1>1, <1>2

LEMMA TermAtType ==
  ASSUME NEW l \in Seq(Entry), NEW i \in Int
  PROVE  TermAt(l, i) \in Nat
<1>1. CASE i \in 1 .. Len(l)
  <2>1. l[i] \in Entry
    BY <1>1, ElementOfSeq
  <2>. QED  BY <1>1, <2>1 DEF TermAt, Entry
<1>2. CASE i \notin 1 .. Len(l)
  BY <1>2 DEF TermAt
<1>. QED  BY <1>1, <1>2

LEMMA EntriesFromType ==
  ASSUME NEW l \in Seq(Entry), NEW i \in Nat \ {0}
  PROVE  EntriesFrom(l, i) \in Seq(Entry)
<1>1. \A j \in i .. Len(l) : l[j] \in Entry
  BY LenProperties, ElementOfSeq
<1>. QED  BY <1>1, LenProperties, SubSeqProperties DEF EntriesFrom

LEMMA StateAfterVoteType ==
  ASSUME NEW st \in DurableState, NEW l, NEW m, m.term \in Nat, m.source \in Node
  PROVE  StateAfterVote(st, l, m) \in DurableState
BY ObserveType DEF StateAfterVote, DurableState

\* What is kept of the log reaches at least to the payload's first entry.
LEMMA KeptPrefixType ==
  ASSUME NEW l \in Seq(Entry), NEW m, Payload(m), m.prevLogIndex <= Len(l)
  PROVE  /\ KeptPrefix(l, m) \in Seq(Entry)
         /\ Len(KeptPrefix(l, m)) \in m.prevLogIndex .. Len(l)
<1>0. Len(l) \in Nat /\ Len(m.entries) \in Nat
  BY LenProperties DEF Payload
<1>1. CASE Conflicts(l, m) = {}
  BY <1>0, <1>1 DEF KeptPrefix, Payload
<1>2. CASE Conflicts(l, m) # {}
  <2>1. PICK k \in 1 .. Len(m.entries) : k \in Conflicts(l, m) /\ m.prevLogIndex + k <= Len(l)
    BY <1>2 DEF Conflicts
  <2>2. Unopposed(l, m) \in SUBSET (1 .. k - 1)
    BY <2>1, <1>0 DEF Unopposed
  <2>0. k - 1 \in Nat
    BY <2>1, <1>0
  <2>a. /\ IsFiniteSet(1 .. k - 1)
        /\ Cardinality(1 .. k - 1) = IF 1 > k - 1 THEN 0 ELSE (k - 1) - 1 + 1
    BY <2>0, FS_Interval
  <2>b. Cardinality(1 .. k - 1) = k - 1
    BY <2>0, <2>a
  <2>3. /\ IsFiniteSet(Unopposed(l, m))
        /\ Cardinality(Unopposed(l, m)) <= Cardinality(1 .. k - 1)
    BY <2>a, <2>2, FS_Subset
  <2>4. Cardinality(Unopposed(l, m)) \in 0 .. k - 1
    BY <2>0, <2>b, <2>3, FS_CardinalityType
  <2>. DEFINE end == m.prevLogIndex + Cardinality(Unopposed(l, m))
  <2>5. end \in Int /\ end >= m.prevLogIndex /\ end <= Len(l)
    BY <2>1, <2>4, <1>0 DEF Payload
  <2>6. \A i \in 1 .. end : l[i] \in Entry
    BY <2>5, <1>0, ElementOfSeq
  <2>7. /\ SubSeq(l, 1, end) \in Seq(Entry)
        /\ Len(SubSeq(l, 1, end)) = IF 1 <= end THEN end - 1 + 1 ELSE 0
    BY <2>5, <2>6, SubSeqProperties
  <2>. QED  BY <1>2, <1>0, <2>5, <2>7 DEF KeptPrefix, Payload
<1>. QED  BY <1>1, <1>2

\* The merged log is a log, and reaches beyond the payload.
LEMMA MergedType ==
  ASSUME NEW l \in Seq(Entry), NEW m, Payload(m), m.prevLogIndex <= Len(l)
  PROVE  Merged(l, m) \in Seq(Entry)
<1>. DEFINE kept == KeptPrefix(l, m)
            start == Len(kept) - m.prevLogIndex + 1
<1>1. kept \in Seq(Entry) /\ Len(kept) \in Nat /\ Len(kept) >= m.prevLogIndex
  BY KeptPrefixType, LenProperties DEF Payload
<1>2. start \in Int /\ start >= 1 /\ Len(m.entries) \in Nat
  BY <1>1, LenProperties DEF Payload
<1>3. \A i \in start .. Len(m.entries) : m.entries[i] \in Entry
  BY <1>2, ElementOfSeq DEF Payload
<1>4. SubSeq(m.entries, start, Len(m.entries)) \in Seq(Entry)
  BY <1>2, <1>3, SubSeqProperties
<1>. QED  BY <1>1, <1>4, ConcatProperties DEF Merged

LEMMA LogAfterAppendType ==
  ASSUME NEW st \in DurableState, NEW l \in Seq(Entry), NEW m, Payload(m)
  PROVE  LogAfterAppend(st, l, m) \in Seq(Entry)
<1>1. CASE Accepted(st, l, m)
  <2>1. m.prevLogIndex <= Len(l)
    BY <1>1, LenProperties DEF Accepted, PrevMatches, Payload
  <2>. QED  BY <1>1, <2>1, MergedType DEF LogAfterAppend
<1>2. CASE ~Accepted(st, l, m)
  BY <1>2 DEF LogAfterAppend
<1>. QED  BY <1>1, <1>2

LEMMA StateAfterAppendType ==
  ASSUME NEW st \in DurableState, NEW l \in Seq(Entry), NEW m, Payload(m)
  PROVE  /\ StateAfterAppend(st, l, m) \in DurableState
         /\ StateAfterAppend(st, l, m).currentTerm = Observe(st, m.term).currentTerm
         /\ StateAfterAppend(st, l, m).votedFor = Observe(st, m.term).votedFor
<1>1. Observe(st, m.term) \in DurableState
  BY ObserveType DEF Payload
<1>2. Accepted(st, l, m) => Len(Merged(l, m)) \in Nat
  BY LogAfterAppendType, LenProperties DEF LogAfterAppend
<1>3. Accepted(st, l, m) => Smaller(m.leaderCommit, Len(Merged(l, m))) \in Nat
  BY <1>2 DEF Smaller, Payload
<1>. QED  BY <1>1, <1>3 DEF StateAfterAppend, DurableState

LEMMA UnappliedType ==
  ASSUME NEW st \in DurableState, NEW l \in Seq(Entry)
  PROVE  Unapplied(st, l) \in Seq(Command)
<1>. DEFINE k == Smaller(st.commitIndex, Len(l)) - st.lastApplied
            count == IF k < 0 THEN 0 ELSE k
            f == [i \in 1 .. count |-> l[st.lastApplied + i].command]
<1>1. /\ k \in Int /\ count \in Nat /\ st.lastApplied \in Nat /\ Len(l) \in Nat
      /\ st.lastApplied + k <= Len(l)
  BY LenProperties DEF DurableState, Smaller
<1>2. 1 .. k = 1 .. count
  BY <1>1
<1>3. \A i \in 1 .. count : l[st.lastApplied + i].command \in Command
  <2>. SUFFICES ASSUME NEW i \in 1 .. count
                PROVE  l[st.lastApplied + i].command \in Command
    OBVIOUS
  <2>1. st.lastApplied + i \in 1 .. Len(l)
    BY <1>1
  <2>. HIDE DEF count
  <2>2. l[st.lastApplied + i] \in Entry
    BY <2>1, ElementOfSeq
  <2>. QED  BY <2>2 DEF Entry
<1>4. f \in [1 .. count -> Command]
  BY <1>3
<1>5. f \in Seq(Command)
  <2>. HIDE DEF f, count
  <2>. QED  BY <1>1, <1>4, SeqDef
<1>. QED  BY <1>2, <1>5 DEF Unapplied

LEMMA AppliedCountType ==
  ASSUME NEW docs, NEW batch \in Seq(Command)
  PROVE  AppliedCount(docs, batch) \in 0 .. Len(batch)
<1>. DEFINE good == {k \in 1 .. Len(batch) :
              \A j \in 1 .. k : Appliable(docs \o SubSeq(batch, 1, j - 1), batch[j])}
<1>1. Len(batch) \in Nat
  BY LenProperties
<1>2. good \in SUBSET (1 .. Len(batch))
  OBVIOUS
<1>3. /\ IsFiniteSet(1 .. Len(batch)) /\ Cardinality(1 .. Len(batch)) = Len(batch)
  BY <1>1, FS_Interval, SMTT(20)
<1>4. Cardinality(good) \in Nat /\ Cardinality(good) <= Len(batch)
  BY <1>2, <1>3, FS_Subset, FS_CardinalityType
<1>. QED  BY <1>1, <1>4 DEF AppliedCount

\* Writing a prefix of the unapplied commands leaves a list of commands.
LEMMA WritesType ==
  ASSUME NEW docs \in Seq(Command), NEW batch \in Seq(Command), NEW k \in 0 .. Len(batch)
  PROVE  docs \o SubSeq(batch, 1, k) \in Seq(Command)
<1>1. \A i \in 1 .. k : batch[i] \in Command
  BY LenProperties, ElementOfSeq
<1>2. SubSeq(batch, 1, k) \in Seq(Command)
  BY <1>1, LenProperties, SubSeqProperties
<1>. QED  BY <1>2, ConcatProperties

LEMMA StoreAfterApplyType ==
  ASSUME NEW docs \in Seq(Command), NEW st \in DurableState, NEW l \in Seq(Entry)
  PROVE  StoreAfterApply(docs, st, l) \in Seq(Command)
BY UnappliedType, AppliedCountType, WritesType DEF StoreAfterApply

LEMMA StateAfterApplyType ==
  ASSUME NEW docs, NEW st \in DurableState, NEW l \in Seq(Entry)
  PROVE  /\ StateAfterApply(docs, st, l) \in DurableState
         /\ StateAfterApply(docs, st, l).currentTerm = st.currentTerm
         /\ StateAfterApply(docs, st, l).votedFor = st.votedFor
<1>1. AppliedCount(docs, Unapplied(st, l)) \in Nat
  BY UnappliedType, AppliedCountType, LenProperties
<1>. QED  BY <1>1 DEF StateAfterApply, DurableState

-----------------------------------------------------------------------------
(* Majorities.                                                             *)

LEMMA MajoritiesShare ==
  ASSUME NEW Q \in Majorities, NEW R \in Majorities
  PROVE  \E v \in Node : v \in Q /\ v \in R
<1>1. /\ IsFiniteSet(Q) /\ IsFiniteSet(R) /\ IsFiniteSet(Q \cup R)
      /\ Cardinality(Q \cup R) <= Cardinality(Node)
  BY NodeAssumption, FS_Subset, Q \cup R \in SUBSET Node DEF Majorities
<1>2. /\ Cardinality(Q) \in Nat /\ Cardinality(R) \in Nat
      /\ Cardinality(Node) \in Nat /\ Cardinality(Q \cup R) \in Nat
  BY <1>1, NodeAssumption, FS_CardinalityType
<1>3. Cardinality(Q \cup R) = Cardinality(Q) + Cardinality(R) - Cardinality(Q \cap R)
  BY <1>1, FS_Union
<1>4. Cardinality(Q) >= Majority /\ Cardinality(R) >= Majority
  BY DEF Majorities
<1>5. Cardinality(Q \cap R) # 0
  BY <1>1, <1>2, <1>3, <1>4 DEF Majority
<1>6. Q \cap R # {}
  BY <1>5, FS_EmptySet
<1>. QED  BY <1>6 DEF Majorities

LEMMA MajorityInhabited ==
  ASSUME NEW Q \in Majorities
  PROVE  \E v \in Node : v \in Q
BY MajoritiesShare

\* A set of voters with a majority among them is one.
LEMMA MajorityAbove ==
  ASSUME NEW Q \in SUBSET Node, NEW R \in SUBSET Q, Cardinality(R) >= Majority
  PROVE  Q \in Majorities
<1>1. IsFiniteSet(Q) /\ IsFiniteSet(R) /\ Cardinality(R) <= Cardinality(Q)
  BY NodeAssumption, FS_Subset
<1>2. Cardinality(R) \in Nat /\ Cardinality(Q) \in Nat
  BY <1>1, FS_CardinalityType
<1>. QED  BY <1>1, <1>2, MajorityType DEF Majorities

-----------------------------------------------------------------------------
(* Logs that agree.                                                        *)

LEMMA AgreeReflexive ==
  ASSUME NEW l \in Seq(Entry), NEW k \in Nat, k <= Len(l)
  PROVE  Agree(l, l, k)
BY DEF Agree

LEMMA AgreeSymmetric ==
  ASSUME NEW l, NEW c, NEW k, Agree(l, c, k)
  PROVE  Agree(c, l, k)
BY DEF Agree

LEMMA AgreeTransitive ==
  ASSUME NEW l, NEW c, NEW d, NEW k \in Nat, NEW i \in Nat, i <= k,
         Agree(l, c, k), Agree(c, d, i),
         Len(l) \in Nat, Len(c) \in Nat, Len(d) \in Nat
  PROVE  Agree(l, d, i)
BY DEF Agree

LEMMA AgreeLess ==
  ASSUME NEW l, NEW c, NEW k \in Nat, NEW i \in Nat, i <= k, Agree(l, c, k),
         Len(l) \in Nat, Len(c) \in Nat
  PROVE  Agree(l, c, i)
BY DEF Agree

LEMMA PrefixAgrees ==
  ASSUME NEW l \in Seq(Entry), NEW k \in 0 .. Len(l)
  PROVE  /\ SubSeq(l, 1, k) \in Seq(Entry)
         /\ Len(SubSeq(l, 1, k)) = k
         /\ Agree(SubSeq(l, 1, k), l, k)
<1>1. Len(l) \in Nat /\ \A i \in 1 .. k : l[i] \in Entry
  BY ElementOfSeq
<1>2. /\ SubSeq(l, 1, k) \in Seq(Entry)
      /\ Len(SubSeq(l, 1, k)) = IF 1 <= k THEN k - 1 + 1 ELSE 0
      /\ \A i \in 1 .. k - 1 + 1 : SubSeq(l, 1, k)[i] = l[1 + i - 1]
  BY <1>1, SubSeqProperties
<1>. QED  BY <1>1, <1>2 DEF Agree

-----------------------------------------------------------------------------
(* A group that keeps its invariant.                                       *)

LEMMA LogShape ==
  ASSUME NEW l \in Seq(Entry)
  PROVE  /\ Len(l) \in Nat
         /\ \A k \in 1 .. Len(l) : l[k] \in Entry /\ l[k].term \in Nat
<1>1. \A k \in 1 .. Len(l) : l[k] \in Entry
  BY ElementOfSeq
<1>. QED  BY <1>1, LenProperties DEF Entry

LEMMA MadeShape ==
  ASSUME NEW g, GroupType(g), NEW t \in Nat
  PROVE  /\ g.made[t] \in Seq(Entry) /\ Len(g.made[t]) \in Nat
         /\ \A k \in 1 .. Len(g.made[t]) : g.made[t][k] \in Entry /\ g.made[t][k].term \in Nat
<1>1. g.made[t] \in Seq(Entry)
  BY DEF GroupType
<1>. QED  BY <1>1, LogShape

LEMMA AckShape ==
  ASSUME NEW g, GroupType(g), NEW t \in Nat, NEW v \in Node
  PROVE  g.acks[t][v] \in Nat
BY DEF GroupType

LEMMA VoterShape ==
  ASSUME NEW g, GroupType(g), NEW v \in Node
  PROVE  /\ g.terms[v] \in Nat /\ g.campaigns[v] \in Nat
         /\ g.logs[v] \in Seq(Entry) /\ Len(g.logs[v]) \in Nat
         /\ \A k \in 1 .. Len(g.logs[v]) : g.logs[v][k] \in Entry /\ g.logs[v][k].term \in Nat
<1>1. g.terms[v] \in Nat /\ g.campaigns[v] \in Nat /\ g.logs[v] \in Seq(Entry)
  BY DEF GroupType
<1>. QED  BY <1>1, LogShape

LEMMA HistoryShape ==
  ASSUME NEW g, GroupType(g)
  PROVE  /\ \A w \in g.wins : w.term \in Nat /\ w.node \in Node
         /\ \A b \in g.ballots : b.term \in Nat /\ b.voter \in Node /\ b.candidate \in Node
BY DEF GroupType

\* What is chosen is not blocked.
LEMMA ChosenKept ==
  ASSUME NEW g, GroupType(g), NEW t \in Nat, NEW i, Chosen(g, t, i), NEW l, Kept(g, l, t, i),
         i \in Nat
  PROVE  Agree(l, g.made[t], i)
<1>. SUFFICES ASSUME Blocked(g, t, i) PROVE FALSE
  BY DEF Kept
<1>1. PICK Q \in Majorities : \A v \in Q : g.acks[t][v] >= i
  BY DEF Chosen
<1>2. PICK R \in Majorities : \A v \in R : g.acks[t][v] < i
  BY DEF Blocked
<1>3. PICK v \in Node : v \in Q /\ v \in R
  BY MajoritiesShare
<1>. QED  BY <1>1, <1>2, <1>3, AckShape

\* The terms of a rooted log do not decrease, and are terms that were won.
LEMMA RootedOrdered ==
  ASSUME NEW g, GroupInv(g), NEW l \in Seq(Entry), Rooted(g, l),
         NEW k \in 1 .. Len(l), NEW j \in 1 .. k
  PROVE  /\ l[j].term <= l[k].term
         /\ l[k].term \in Nat /\ l[k].term > 0 /\ Won(g, l[k].term)
         /\ l[j].term \in Nat
<1>1. Len(l) \in Nat /\ l[k] \in Entry /\ l[j] \in Entry
  BY ElementOfSeq
<1>2. PICK u \in Nat : u = l[k].term
  BY <1>1 DEF Entry
<1>3. Won(g, u) /\ Agree(l, g.made[u], k)
  BY <1>2 DEF Rooted
<1>4. u > 0
  BY <1>3 DEF GroupInv, WinsCounted, Won
<1>5. Len(g.made[u]) \in Nat /\ j \in 1 .. Len(g.made[u]) /\ l[j] = g.made[u][j]
  <2>1. GroupType(g) /\ Len(g.made[u]) \in Nat
    BY MadeShape DEF GroupInv
  <2>. QED  BY <1>1, <1>3, <2>1 DEF Agree
<1>6. g.made[u][j].term <= u
  BY <1>5 DEF GroupInv, MadeRooted
<1>. QED  BY <1>1, <1>2, <1>3, <1>4, <1>5, <1>6 DEF Entry

\* A log is all from the leader of its last term.
LEMMA RootedLast ==
  ASSUME NEW g, GroupInv(g), NEW l \in Seq(Entry), Rooted(g, l), l # <<>>
  PROVE  /\ LastTerm(l) \in Nat /\ LastTerm(l) > 0 /\ Won(g, LastTerm(l))
         /\ Agree(l, g.made[LastTerm(l)], Len(l))
         /\ \A k \in 1 .. Len(l) : l[k].term <= LastTerm(l)
<1>1. Len(l) \in Nat /\ Len(l) \in 1 .. Len(l) /\ LastTerm(l) = l[Len(l)].term
  BY EmptySeq DEF LastTerm
<1>. QED  BY <1>1, RootedOrdered DEF Rooted

-----------------------------------------------------------------------------
(* What a step leaves as it was.                                           *)

LEMMA WonOn ==
  ASSUME NEW g, NEW h, Grows(g, h), NEW t, Won(g, t)
  PROVE  Won(h, t)
BY DEF Grows, Won

LEMMA MadeOn ==
  ASSUME NEW g, NEW h, GroupType(g), GroupType(h), Grows(g, h), NEW t \in Nat
  PROVE  /\ Len(g.made[t]) <= Len(h.made[t])
         /\ \A j \in 1 .. Len(g.made[t]) : h.made[t][j] = g.made[t][j]
         /\ \A i \in 1 .. Len(g.made[t]) : Direct(h, t, i) <=> Direct(g, t, i)
<1>1. /\ Len(g.made[t]) \in Nat /\ Len(h.made[t]) \in Nat
  BY MadeShape
<1>2. Agree(h.made[t], g.made[t], Len(g.made[t]))
  BY DEF Grows
<1>3. /\ Len(g.made[t]) <= Len(h.made[t])
      /\ \A j \in 1 .. Len(g.made[t]) : h.made[t][j] = g.made[t][j]
  BY <1>1, <1>2 DEF Agree
<1>. QED  BY <1>1, <1>3 DEF Direct

LEMMA AgreeOn ==
  ASSUME NEW g, NEW h, GroupType(g), GroupType(h), Grows(g, h), NEW t \in Nat,
         NEW i \in Nat, i <= Len(g.made[t]), NEW l
  PROVE  Agree(l, h.made[t], i) <=> Agree(l, g.made[t], i)
<1>1. PICK a, b : a = g.made[t] /\ b = h.made[t]
  OBVIOUS
<1>2. /\ Len(a) \in Nat /\ Len(b) \in Nat /\ Len(a) <= Len(b) /\ i <= Len(a)
      /\ \A j \in 1 .. Len(a) : b[j] = a[j]
  <2>1. Len(g.made[t]) \in Nat /\ Len(h.made[t]) \in Nat
    BY MadeShape
  <2>2. /\ Len(g.made[t]) <= Len(h.made[t])
        /\ \A j \in 1 .. Len(g.made[t]) : h.made[t][j] = g.made[t][j]
    BY MadeOn
  <2>. QED  BY <1>1, <2>1, <2>2
<1>3. i <= Len(b) /\ \A j \in 1 .. i : b[j] = a[j]
  BY <1>2
<1>4. Agree(l, b, i) <=> Agree(l, a, i)
  BY <1>2, <1>3 DEF Agree
<1>. QED  BY <1>1, <1>4

LEMMA BlockedOn ==
  ASSUME NEW g, NEW h, GroupType(g), GroupType(h), Grows(g, h), NEW t \in Nat, NEW i \in Nat,
         Blocked(g, t, i)
  PROVE  Blocked(h, t, i)
<1>1. PICK Q \in Majorities : \A v \in Q : g.terms[v] > t /\ g.acks[t][v] < i
  BY DEF Blocked
<1>2. ASSUME NEW v \in Q
      PROVE  h.terms[v] > t /\ h.acks[t][v] < i
  <2>1. v \in Node
    BY DEF Majorities
  <2>2. g.terms[v] > t /\ g.acks[t][v] < i
    BY <1>1
  <2>3. g.terms[v] \in Nat /\ h.terms[v] \in Nat /\ g.terms[v] <= h.terms[v]
    BY <2>1, VoterShape DEF Grows, TermsForward
  <2>4. h.acks[t][v] = g.acks[t][v]
    BY <2>1, <2>2, <2>3 DEF Grows
  <2>. QED  BY <2>2, <2>3, <2>4
<1>. QED  BY <1>2 DEF Blocked

LEMMA ChosenOn ==
  ASSUME NEW g, NEW h, GroupType(g), GroupType(h), Grows(g, h), NEW t \in Nat, NEW i \in Nat,
         Chosen(g, t, i)
  PROVE  Chosen(h, t, i)
<1>1. PICK Q \in Majorities : \A v \in Q : g.acks[t][v] >= i
  BY DEF Chosen
<1>2. ASSUME NEW v \in Q
      PROVE  h.acks[t][v] >= i
  <2>1. v \in Node
    BY DEF Majorities
  <2>2. g.acks[t][v] <= h.acks[t][v] /\ g.acks[t][v] \in Nat /\ h.acks[t][v] \in Nat
    BY <2>1, AckShape DEF Grows
  <2>. QED  BY <1>1, <2>2
<1>. QED  BY <1>2 DEF Chosen

LEMMA KeptOn ==
  ASSUME NEW g, NEW h, GroupType(g), GroupType(h), Grows(g, h), NEW t \in Nat,
         NEW i \in 1 .. Len(g.made[t]), NEW l \in Seq(Entry), Kept(g, l, t, i)
  PROVE  Kept(h, l, t, i)
<1>1. i \in Nat /\ i <= Len(g.made[t])
  BY MadeShape
<1>2. Blocked(g, t, i) => Blocked(h, t, i)
  BY <1>1, BlockedOn
<1>3. Agree(l, g.made[t], i) => Agree(l, h.made[t], i)
  BY <1>1, AgreeOn
<1>. QED  BY <1>2, <1>3 DEF Kept

LEMMA RootedOn ==
  ASSUME NEW g, NEW h, GroupInv(g), GroupType(h), Grows(g, h), NEW l \in Seq(Entry), Rooted(g, l)
  PROVE  Rooted(h, l)
<1>. SUFFICES ASSUME NEW k \in 1 .. Len(l)
              PROVE  Won(h, l[k].term) /\ Agree(l, h.made[l[k].term], k)
  BY DEF Rooted
<1>1. Won(g, l[k].term) /\ Agree(l, g.made[l[k].term], k) /\ l[k].term \in Nat
  BY RootedOrdered, k \in 1 .. k DEF Rooted
<1>2. PICK u \in Nat : u = l[k].term
  BY <1>1
<1>3. k \in Nat /\ k <= Len(g.made[u]) /\ GroupType(g)
  BY <1>1, <1>2 DEF Agree, GroupInv
<1>4. Agree(l, h.made[u], k)
  BY <1>1, <1>2, <1>3, AgreeOn
<1>. QED  BY <1>1, <1>2, <1>4, WonOn

\* What is committed stays so, and in later terms.
LEMMA CommittedOn ==
  ASSUME NEW g, NEW h, GroupType(g), GroupType(h), Grows(g, h), NEW l \in Seq(Entry),
         NEW k \in Nat, NEW t \in Nat, NEW u \in Nat, t <= u, Committed(g, l, k, t)
  PROVE  Committed(h, l, k, u)
<1>1. CASE k = 0
  BY <1>1 DEF Committed
<1>2. CASE k # 0
  <2>0. PICK s \in 0 .. t : \E i \in k .. Len(g.made[s]) :
          Direct(g, s, i) /\ Chosen(g, s, i) /\ Agree(l, g.made[s], k)
    BY <1>2 DEF Committed
  <2>1. PICK i \in k .. Len(g.made[s]) :
          Direct(g, s, i) /\ Chosen(g, s, i) /\ Agree(l, g.made[s], k)
    BY <2>0
  <2>2. /\ s \in Nat /\ i \in Nat /\ i \in 1 .. Len(g.made[s])
        /\ Len(g.made[s]) \in Nat /\ Len(h.made[s]) \in Nat
    BY <1>2, <2>1, MadeShape
  <2>6. k <= Len(g.made[s])
    BY <2>1, <2>2
  <2>3. Direct(h, s, i) /\ Agree(l, h.made[s], k) /\ Len(g.made[s]) <= Len(h.made[s])
    BY <2>1, <2>2, <2>6, MadeOn, AgreeOn
  <2>4. Chosen(h, s, i)
    BY <2>1, <2>2, ChosenOn
  <2>5. s \in 0 .. u /\ i \in k .. Len(h.made[s])
    BY <2>1, <2>2, <2>3
  <2>. QED  BY <2>1, <2>3, <2>4, <2>5 DEF Committed
<1>. QED  BY <1>1, <1>2

\* What a voter keeps it keeps, while its log and its acknowledgements stay.
LEMMA AckKeptOn ==
  ASSUME NEW g, NEW h, GroupInv(g), GroupType(h), Grows(g, h), NEW t \in Nat, NEW v \in Node,
         h.acks[t][v] = g.acks[t][v], h.logs[v] = g.logs[v]
  PROVE  AckKept(h, t, v)
<1>. SUFFICES ASSUME NEW i \in 1 .. g.acks[t][v], Direct(h, t, i)
              PROVE  Kept(h, g.logs[v], t, i)
  BY DEF AckKept
<1>1. GroupType(g) /\ g.acks[t][v] \in Nat /\ g.acks[t][v] <= Len(g.made[t])
      /\ Len(g.made[t]) \in Nat /\ g.logs[v] \in Seq(Entry)
  BY AckShape, MadeShape, VoterShape DEF GroupInv, AcksMade
<1>2. i \in 1 .. Len(g.made[t])
  BY <1>1
<1>3. Direct(g, t, i)
  BY <1>1, <1>2, MadeOn
<1>4. Kept(g, g.logs[v], t, i)
  BY <1>3 DEF GroupInv, AcksKept, AckKept
<1>. QED  BY <1>1, <1>2, <1>4, KeptOn

\* A voter acknowledges nothing more of the terms before its vote.
LEMMA VoterKeptOn ==
  ASSUME NEW g, NEW h, GroupInv(g), GroupType(h), Grows(g, h), NEW c \in Node, NEW v \in Node,
         h.logs[c] = g.logs[c], h.campaigns[c] = g.campaigns[c], g.campaigns[c] > 0,
         Vote(g.campaigns[c], v, c) \in g.ballots
  PROVE  VoterKept(h, c, v)
<1>. SUFFICES ASSUME NEW t \in 0 .. g.campaigns[c] - 1, NEW i \in 1 .. h.acks[t][v],
                     Direct(h, t, i)
              PROVE  Kept(h, g.logs[c], t, i)
  BY DEF VoterKept
<1>1. /\ GroupType(g) /\ g.campaigns[c] \in Nat /\ t \in Nat /\ g.terms[v] \in Nat
      /\ g.logs[c] \in Seq(Entry)
  BY VoterShape DEF GroupInv
<1>2. g.terms[v] >= g.campaigns[c]
  BY DEF GroupInv, BallotsKnown, Vote
<1>3. h.acks[t][v] = g.acks[t][v]
  BY <1>1, <1>2 DEF Grows
<1>4. g.acks[t][v] \in Nat /\ g.acks[t][v] <= Len(g.made[t]) /\ Len(g.made[t]) \in Nat
  BY <1>1, AckShape, MadeShape DEF GroupInv, AcksMade
<1>5. i \in 1 .. g.acks[t][v] /\ i \in 1 .. Len(g.made[t])
  BY <1>3, <1>4
<1>6. Direct(g, t, i)
  BY <1>1, <1>5, MadeOn
<1>7. Kept(g, g.logs[c], t, i)
  BY <1>5, <1>6 DEF GroupInv, VotersKept, VoterKept
<1>. QED  BY <1>1, <1>5, <1>7, KeptOn

\* Of what the leader of term t has created by now, the log of term u's keeps its part.
LEMMA LeaderKeptOn ==
  ASSUME NEW g, NEW h, GroupInv(g), GroupType(h), Grows(g, h), NEW t \in Nat, NEW u \in Nat,
         t < u, Won(g, u), NEW i \in 1 .. Len(g.made[t]), Direct(h, t, i)
  PROVE  Kept(h, h.made[u], t, i)
<1>1. GroupType(g) /\ Direct(g, t, i)
  BY MadeOn DEF GroupInv
<1>2. Kept(g, g.made[u], t, i)
  BY <1>1 DEF GroupInv, LeadersKept, LeaderKept
<1>0. /\ Len(g.made[t]) \in Nat /\ Len(g.made[u]) \in Nat /\ Len(h.made[u]) \in Nat
  BY <1>1, MadeShape
<1>6. /\ Len(g.made[u]) <= Len(h.made[u])
      /\ \A j \in 1 .. Len(g.made[u]) : h.made[u][j] = g.made[u][j]
  <2>1. Agree(h.made[u], g.made[u], Len(g.made[u]))
    BY DEF Grows
  <2>. QED  BY <1>0, <2>1 DEF Agree
<1>3. i \in Nat /\ i <= Len(g.made[t])
  BY <1>0
<1>4. CASE Blocked(g, t, i)
  BY <1>1, <1>3, <1>4, BlockedOn DEF Kept
<1>5. CASE Agree(g.made[u], g.made[t], i)
  <2>1. Agree(h.made[u], g.made[t], i)
    BY <1>0, <1>3, <1>5, <1>6 DEF Agree
  <2>. QED  BY <1>1, <1>3, <2>1, AgreeOn DEF Kept
<1>. QED  BY <1>2, <1>4, <1>5 DEF Kept

\* A lost campaign stays lost: who has gone to a later term does not vote in it.
LEMMA CampaignLostOn ==
  ASSUME NEW g, NEW h, GroupInv(g), GroupType(h), Grows(g, h), NEW c \in Node,
         h.campaigns[c] = g.campaigns[c], CampaignLost(g, c),
         \A v \in Node :
           Vote(g.campaigns[c], v, c) \in h.ballots =>
             \/ Vote(g.campaigns[c], v, c) \in g.ballots
             \/ g.terms[v] <= g.campaigns[c]
  PROVE  CampaignLost(h, c)
<1>1. PICK Q \in Majorities : \A v \in Q :
        g.terms[v] > g.campaigns[c] /\ Vote(g.campaigns[c], v, c) \notin g.ballots
  BY DEF CampaignLost
<1>2. ASSUME NEW v \in Q
      PROVE  h.terms[v] > g.campaigns[c] /\ Vote(g.campaigns[c], v, c) \notin h.ballots
  <2>1. v \in Node
    BY DEF Majorities
  <2>2. /\ g.terms[v] \in Nat /\ h.terms[v] \in Nat /\ g.campaigns[c] \in Nat
        /\ g.terms[v] <= h.terms[v]
    BY <2>1, VoterShape DEF GroupInv, Grows, TermsForward
  <2>. QED  BY <1>1, <2>1, <2>2
<1>. QED  BY <1>2 DEF CampaignLost

-----------------------------------------------------------------------------
(* Steps that leave the logs alone.                                        *)

LEMMA QuietKeeps ==
  ASSUME NEW g, NEW h, GroupInv(g), GroupType(h), TermsForward(g, h), SameLogs(g, h),
         g.ballots \subseteq h.ballots, h.wins = g.wins
  PROVE  /\ Grows(g, h)
         /\ WinsCounted(h) /\ MadeByWinners(h) /\ MadeRooted(h) /\ LogsRooted(h)
         /\ AcksMade(h) /\ AcksKept(h) /\ LeadersKept(h)
<1>0. GroupType(g) /\ h.made = g.made /\ h.logs = g.logs /\ h.acks = g.acks
  BY DEF GroupInv, SameLogs
<1>1. Grows(g, h)
  <2>1. ASSUME NEW t \in Nat
        PROVE  /\ Agree(h.made[t], g.made[t], Len(g.made[t]))
               /\ \A k \in Len(g.made[t]) + 1 .. Len(h.made[t]) : h.made[t][k].term = t
               /\ \A v \in Node : g.acks[t][v] <= h.acks[t][v] /\ g.acks[t][v] = h.acks[t][v]
    BY <1>0, MadeShape, AckShape DEF Agree
  <2>. QED  BY <1>0, <2>1 DEF Grows
<1>2. WinsCounted(h)
  BY DEF GroupInv, WinsCounted
<1>3. MadeByWinners(h)
  BY <1>0 DEF GroupInv, MadeByWinners, Won
<1>4. MadeRooted(h)
  BY <1>0, <1>1, MadeShape, RootedOn DEF GroupInv, MadeRooted
<1>5. LogsRooted(h)
  BY <1>0, <1>1, VoterShape, RootedOn DEF GroupInv, LogsRooted
<1>6. AcksMade(h)
  <2>. SUFFICES ASSUME NEW t \in Nat, NEW v \in Node
                PROVE  g.acks[t][v] <= Len(g.made[t]) /\ (g.acks[t][v] > 0 => h.terms[v] >= t)
    BY <1>0 DEF AcksMade
  <2>1. g.acks[t][v] <= Len(g.made[t]) /\ (g.acks[t][v] > 0 => g.terms[v] >= t)
    BY DEF GroupInv, AcksMade
  <2>2. g.terms[v] \in Nat /\ h.terms[v] \in Nat /\ g.terms[v] <= h.terms[v]
    BY <1>0, VoterShape DEF TermsForward
  <2>. QED  BY <2>1, <2>2
<1>7. AcksKept(h)
  BY <1>0, <1>1, AckKeptOn DEF AcksKept
<1>8. LeadersKept(h)
  BY <1>0, <1>1, LeaderKeptOn DEF LeadersKept, LeaderKept, Won
<1>. QED  BY <1>1, <1>2, <1>3, <1>4, <1>5, <1>6, <1>7, <1>8

\* Ballots stay known as terms go forward.
LEMMA BallotKnownOn ==
  ASSUME NEW g, NEW h, GroupInv(g), GroupType(h), TermsForward(g, h), NEW b \in g.ballots
  PROVE  b.term <= h.terms[b.voter] /\ b.term <= h.terms[b.candidate]
<1>1. /\ GroupType(g) /\ b.term \in Nat /\ b.voter \in Node /\ b.candidate \in Node
      /\ b.term <= g.terms[b.voter] /\ b.term <= g.terms[b.candidate]
  BY HistoryShape DEF GroupInv, BallotsKnown
<1>. QED  BY <1>1, VoterShape DEF TermsForward

LEMMA AdvanceKeeps ==
  ASSUME NEW g, NEW h, GroupInv(g), GroupType(h), Advance(g, h)
  PROVE  GroupInv(h) /\ Grows(g, h)
<1>1. /\ TermsForward(g, h) /\ CampaignsEnd(g, h) /\ SameLogs(g, h)
      /\ h.ballots = g.ballots /\ h.wins = g.wins
  BY DEF Advance
<1>2. /\ Grows(g, h) /\ WinsCounted(h) /\ MadeByWinners(h) /\ MadeRooted(h) /\ LogsRooted(h)
      /\ AcksMade(h) /\ AcksKept(h) /\ LeadersKept(h)
  BY <1>1, QuietKeeps
<1>3. BallotsKnown(h)
  BY <1>1, BallotKnownOn DEF BallotsKnown
<1>4. \A c \in Node : h.campaigns[c] > 0 => h.campaigns[c] = g.campaigns[c]
                                             /\ h.logs[c] = g.logs[c]
  BY <1>1 DEF CampaignsEnd, SameLogs
<1>5. VotersKept(h)
  BY <1>1, <1>2, <1>4, VoterKeptOn DEF VotersKept
<1>6. CampaignsOpen(h)
  BY <1>1, <1>4 DEF GroupInv, CampaignsOpen
<1>7. LateCampaignsLost(h)
  BY <1>1, <1>2, <1>4, CampaignLostOn DEF GroupInv, LateCampaignsLost
<1>. QED  BY <1>2, <1>3, <1>5, <1>6, <1>7 DEF GroupInv

\* Whoever stands has not been voted for in the new term.
LEMMA StandKeeps ==
  ASSUME NEW g, NEW h, NEW c \in Node, NEW u \in Nat, GroupInv(g), GroupType(h),
         Stand(g, h, c, u)
  PROVE  GroupInv(h) /\ Grows(g, h)
<1>1. /\ TermsForward(g, h) /\ g.terms[c] < u /\ u <= h.terms[c] /\ SameLogs(g, h)
      /\ h.campaigns = [g.campaigns EXCEPT ![c] = u]
      /\ h.ballots = g.ballots \cup {Vote(u, c, c)} /\ h.wins = g.wins
  BY DEF Stand
<1>2. /\ Grows(g, h) /\ WinsCounted(h) /\ MadeByWinners(h) /\ MadeRooted(h) /\ LogsRooted(h)
      /\ AcksMade(h) /\ AcksKept(h) /\ LeadersKept(h)
  BY <1>1, QuietKeeps
<1>3. /\ GroupType(g) /\ h.campaigns[c] = u /\ g.terms[c] \in Nat /\ h.logs = g.logs
      /\ \A k \in Node \ {c} : h.campaigns[k] = g.campaigns[k]
  BY <1>1, VoterShape DEF GroupInv, GroupType, SameLogs
<1>4. BallotsKnown(h)
  BY <1>1, BallotKnownOn DEF BallotsKnown, Vote
<1>5. \A v \in Node : Vote(u, v, c) \notin g.ballots
  BY <1>1, <1>3 DEF GroupInv, BallotsKnown, Vote
<1>6. VotersKept(h)
  <2>. SUFFICES ASSUME NEW k \in Node, NEW v \in Node, h.campaigns[k] > 0,
                       Vote(h.campaigns[k], v, k) \in h.ballots
                PROVE  VoterKept(h, k, v)
    BY DEF VotersKept
  <2>1. CASE k # c
    <3>1. Vote(h.campaigns[k], v, k) \in g.ballots
      BY <1>1, <2>1 DEF Vote
    <3>. QED  BY <1>2, <1>3, <2>1, <3>1, VoterKeptOn
  <2>2. CASE k = c
    <3>1. v = c
      BY <1>1, <1>3, <1>5, <2>2 DEF Vote
    <3>2. h.acks = g.acks /\ h.logs = g.logs
      BY <1>1 DEF SameLogs
    <3>. QED  BY <1>2, <1>3, <2>2, <3>1, <3>2 DEF AcksKept, AckKept, VoterKept
  <2>. QED  BY <2>1, <2>2
<1>7. CampaignsOpen(h)
  <2>1. Victory(u, c) \notin g.wins
    <3>. SUFFICES ASSUME Victory(u, c) \in g.wins PROVE FALSE
      OBVIOUS
    <3>1. PICK Q \in Majorities : \A v \in Q : Vote(u, v, c) \in g.ballots
      BY DEF GroupInv, WinsCounted, Victory
    <3>. QED  BY <1>5, <3>1, MajorityInhabited
  <2>. QED  BY <1>1, <1>3, <2>1 DEF GroupInv, CampaignsOpen
<1>8. LateCampaignsLost(h)
  <2>. SUFFICES ASSUME NEW k \in Node, h.campaigns[k] > 0,
                       LastTerm(h.logs[k]) > h.campaigns[k]
                PROVE  CampaignLost(h, k)
    BY DEF LateCampaignsLost
  <2>1. CASE k # c
    <3>1. CampaignLost(g, k) /\ h.campaigns[k] = g.campaigns[k]
      BY <1>3, <2>1 DEF GroupInv, LateCampaignsLost
    <3>2. \A v \in Node : Vote(g.campaigns[k], v, k) \in h.ballots
                            => Vote(g.campaigns[k], v, k) \in g.ballots
      BY <1>1, <2>1 DEF Vote
    <3>. QED  BY <1>2, <3>1, <3>2, CampaignLostOn
  <2>2. CASE k = c
    <3>1. g.logs[c] \in Seq(Entry) /\ Rooted(g, g.logs[c]) /\ g.logs[c] # <<>>
      BY <1>3, <2>2, VoterShape DEF GroupInv, LogsRooted, LastTerm
    <3>2. PICK w \in g.wins : w.term = LastTerm(g.logs[c])
      BY <3>1, RootedLast DEF Won
    <3>3. PICK Q \in Majorities : \A v \in Q : Vote(w.term, v, w.node) \in g.ballots
      BY DEF GroupInv, WinsCounted
    <3>4. ASSUME NEW v \in Q
          PROVE  h.terms[v] > u /\ Vote(u, v, c) \notin h.ballots
      <4>1. v \in Node /\ g.terms[v] >= w.term
        BY <3>3 DEF Majorities, GroupInv, BallotsKnown, Vote
      <4>2. w.term > u /\ w.term \in Nat /\ g.terms[v] \in Nat /\ h.terms[v] \in Nat
        BY <1>3, <2>2, <3>2, <4>1, HistoryShape, VoterShape
      <4>3. v # c
        BY <1>1, <1>3, <4>1, <4>2
      <4>. QED  BY <1>1, <1>5, <4>1, <4>2, <4>3 DEF TermsForward, Vote
    <3>. QED  BY <1>3, <2>2, <3>4 DEF CampaignLost
  <2>. QED  BY <2>1, <2>2
<1>. QED  BY <1>2, <1>4, <1>6, <1>7, <1>8 DEF GroupInv

-----------------------------------------------------------------------------
(* A vote given.                                                           *)

\* Of what v acknowledged before it votes for c, c's log has its part: it is at
\* least as good as v's.
LEMMA VoteCarries ==
  ASSUME NEW g, GroupInv(g), NEW c \in Node, NEW v \in Node,
         AtLeast(g.logs[c], g.logs[v]),
         NEW t \in Nat, NEW i \in 1 .. g.acks[t][v], Direct(g, t, i)
  PROVE  Kept(g, g.logs[c], t, i)
<1>. DEFINE l == g.logs[c]
            k == g.logs[v]
<1>1. /\ GroupType(g) /\ l \in Seq(Entry) /\ k \in Seq(Entry) /\ Len(l) \in Nat /\ Len(k) \in Nat
      /\ Rooted(g, l) /\ Rooted(g, k) /\ LastTerm(l) \in Nat /\ LastTerm(k) \in Nat
  BY VoterShape, LastTermType DEF GroupInv, LogsRooted
<1>2. /\ i \in Nat /\ i \in 1 .. Len(g.made[t]) /\ Len(g.made[t]) \in Nat
      /\ g.made[t][i].term = t
  BY <1>1, AckShape, MadeShape DEF Direct
<1>3. CASE Blocked(g, t, i)
  BY <1>3 DEF Kept
<1>4. CASE Agree(k, g.made[t], i)
  <2>1. i \in 1 .. Len(k) /\ k[i] = g.made[t][i]
    BY <1>1, <1>2, <1>4 DEF Agree
  <2>2. k # <<>>
    BY <1>1, <2>1
  <2>3. t <= LastTerm(k)
    BY <1>1, <1>2, <2>1, <2>2, RootedLast
  <2>4. LastTerm(k) > 0
    BY <1>1, <2>2, RootedLast
  <2>0. LastTerm(l) >= LastTerm(k)
    BY <1>1 DEF AtLeast
  <2>a. LastTerm(<<>>) = 0
    BY DEF LastTerm
  <2>5. l # <<>> /\ LastTerm(l) >= LastTerm(k)
    BY <1>1, <2>0, <2>4, <2>a
  <2>. PICK u \in Nat : u = LastTerm(l)
    BY <1>1
  <2>6. Won(g, u) /\ Agree(l, g.made[u], Len(l)) /\ Len(g.made[u]) \in Nat
    BY <1>1, <2>5, RootedLast, MadeShape
  <2>7. CASE u = LastTerm(k)
    <3>1. Agree(k, g.made[u], Len(k)) /\ Len(l) >= Len(k)
      BY <1>1, <2>2, <2>7, RootedLast DEF AtLeast
    <3>4. i <= Len(k)
      BY <1>4 DEF Agree
    <3>5. Agree(l, g.made[u], i) /\ Agree(k, g.made[u], i)
      BY <1>1, <1>2, <2>6, <3>1, <3>4, AgreeLess
    <3>2. Agree(l, g.made[t], i)
      BY <1>4, <3>5 DEF Agree
    <3>. QED  BY <3>2 DEF Kept
  <2>8. CASE u > LastTerm(k)
    <3>1. t < u
      BY <1>1, <2>3, <2>8
    <3>2. Kept(g, g.made[u], t, i)
      BY <1>2, <2>6, <3>1 DEF GroupInv, LeadersKept, LeaderKept
    <3>3. CASE Agree(g.made[u], g.made[t], i)
      <4>1. i <= Len(l)
        <5>. SUFFICES ASSUME i > Len(l) PROVE FALSE
          BY <1>1, <1>2
        <5>1. Len(l) \in 1 .. Len(l) /\ l[Len(l)].term = u
          BY <1>1, <2>5, EmptySeq DEF LastTerm
        <5>5. Len(l) \in 1 .. i
          BY <1>1, <1>2, <5>1
        <5>4. Len(l) \in 1 .. i /\ l[Len(l)] = g.made[u][Len(l)]
          BY <2>6, <5>1, <5>5 DEF Agree
        <5>2. g.made[t][Len(l)] = l[Len(l)] /\ Len(l) \in 1 .. i
          BY <3>3, <5>4 DEF Agree
        <5>3. g.made[t][Len(l)].term <= t
          <6>1. Len(l) \in 1 .. Len(g.made[t])
            BY <1>1, <1>2, <5>2
          <6>. QED  BY <6>1 DEF GroupInv, MadeRooted
        <5>. QED  BY <1>1, <2>6, <3>1, <5>1, <5>2, <5>3
      <4>2. Agree(l, g.made[t], i)
        BY <1>1, <1>2, <2>6, <3>3, <4>1, SMTT(20) DEF Agree
      <4>. QED  BY <4>2 DEF Kept
    <3>. QED  BY <3>2, <3>3 DEF Kept
  <2>. QED  BY <1>1, <2>5, <2>7, <2>8
<1>. QED
  <2>1. Kept(g, k, t, i)
    BY DEF GroupInv, AcksKept, AckKept
  <2>. QED  BY <1>3, <1>4, <2>1 DEF Kept

LEMMA GiveVoteKeeps ==
  ASSUME NEW g, NEW h, NEW v \in Node, NEW c \in Node, NEW u \in Nat, GroupInv(g), GroupType(h),
         GiveVote(g, h, v, c, u)
  PROVE  GroupInv(h) /\ Grows(g, h)
<1>1. /\ TermsForward(g, h) /\ CampaignsEnd(g, h) /\ SameLogs(g, h) /\ h.wins = g.wins
      /\ h.ballots = g.ballots \cup {Vote(u, v, c)}
      /\ g.terms[v] <= u /\ u <= h.terms[v] /\ u <= h.terms[c]
      /\ u = g.campaigns[c] => AtLeast(g.logs[c], g.logs[v])
  BY DEF GiveVote
<1>2. /\ Grows(g, h) /\ WinsCounted(h) /\ MadeByWinners(h) /\ MadeRooted(h) /\ LogsRooted(h)
      /\ AcksMade(h) /\ AcksKept(h) /\ LeadersKept(h)
  BY <1>1, QuietKeeps
<1>3. BallotsKnown(h)
  BY <1>1, BallotKnownOn DEF BallotsKnown, Vote
<1>4. \A k \in Node : h.campaigns[k] > 0 => h.campaigns[k] = g.campaigns[k]
                                             /\ h.logs[k] = g.logs[k]
  BY <1>1 DEF CampaignsEnd, SameLogs
<1>5. VotersKept(h)
  <2>. SUFFICES ASSUME NEW k \in Node, NEW w \in Node, h.campaigns[k] > 0,
                       Vote(h.campaigns[k], w, k) \in h.ballots
                PROVE  VoterKept(h, k, w)
    BY DEF VotersKept
  <2>1. CASE Vote(h.campaigns[k], w, k) \in g.ballots
    BY <1>2, <1>4, <2>1, VoterKeptOn
  <2>2. CASE k = c /\ w = v /\ h.campaigns[k] = u
    <3>1. AtLeast(g.logs[c], g.logs[v]) /\ h.logs[c] = g.logs[c] /\ h.acks = g.acks
          /\ GroupType(g) /\ g.logs[c] \in Seq(Entry)
      BY <1>1, <1>4, <2>2, VoterShape DEF SameLogs, GroupInv
    <3>. SUFFICES ASSUME NEW t \in 0 .. h.campaigns[c] - 1, NEW i \in 1 .. g.acks[t][v],
                         Direct(h, t, i)
                  PROVE  Kept(h, g.logs[c], t, i)
      BY <2>2, <3>1 DEF VoterKept
    <3>2. t \in Nat /\ g.acks[t][v] \in Nat /\ g.acks[t][v] <= Len(g.made[t])
          /\ Len(g.made[t]) \in Nat
      <4>1. t \in Nat
        BY <2>2
      <4>. QED  BY <3>1, <4>1, AckShape, MadeShape DEF GroupInv, AcksMade
    <3>3. i \in 1 .. Len(g.made[t])
      BY <3>2
    <3>4. Direct(g, t, i)
      BY <1>2, <3>1, <3>2, <3>3, MadeOn
    <3>5. Kept(g, g.logs[c], t, i)
      BY <3>1, <3>2, <3>4, VoteCarries
    <3>. QED  BY <1>2, <3>1, <3>2, <3>3, <3>5, KeptOn
  <2>. QED  BY <1>1, <2>1, <2>2 DEF Vote
<1>6. CampaignsOpen(h)
  BY <1>1, <1>4 DEF GroupInv, CampaignsOpen
<1>7. LateCampaignsLost(h)
  <2>. SUFFICES ASSUME NEW k \in Node, h.campaigns[k] > 0,
                       LastTerm(h.logs[k]) > h.campaigns[k]
                PROVE  CampaignLost(h, k)
    BY DEF LateCampaignsLost
  <2>1. CampaignLost(g, k) /\ h.campaigns[k] = g.campaigns[k]
    BY <1>4 DEF GroupInv, LateCampaignsLost
  <2>2. \A w \in Node : Vote(g.campaigns[k], w, k) \in h.ballots =>
          Vote(g.campaigns[k], w, k) \in g.ballots \/ g.terms[w] <= g.campaigns[k]
    BY <1>1 DEF Vote
  <2>. QED  BY <1>2, <2>1, <2>2, CampaignLostOn
<1>. QED  BY <1>2, <1>3, <1>5, <1>6, <1>7 DEF GroupInv

-----------------------------------------------------------------------------
(* A campaign won.                                                         *)

\* The log of a candidate that has its majority is of earlier terms.
LEMMA WinnersLogEarlier ==
  ASSUME NEW g, GroupInv(g), NEW c \in Node, g.campaigns[c] > 0,
         NEW Q \in Majorities, \A v \in Q : Vote(g.campaigns[c], v, c) \in g.ballots,
         \A w \in g.wins : w.term = g.campaigns[c] => w.node = c
  PROVE  /\ ~Won(g, g.campaigns[c])
         /\ \A k \in 1 .. Len(g.logs[c]) : g.logs[c][k].term < g.campaigns[c]
<1>. DEFINE l == g.logs[c]
<1>0. /\ GroupType(g) /\ g.campaigns[c] \in Nat /\ l \in Seq(Entry) /\ Len(l) \in Nat
      /\ Rooted(g, l) /\ LastTerm(l) \in Nat
  BY VoterShape, LastTermType DEF GroupInv, LogsRooted
<1>1. ~Won(g, g.campaigns[c])
  <2>. SUFFICES ASSUME NEW w \in g.wins, w.term = g.campaigns[c]
                PROVE  FALSE
    BY DEF Won
  <2>1. w = Victory(g.campaigns[c], c)
    BY <1>0 DEF GroupType, Victory
  <2>. QED  BY <2>1 DEF GroupInv, CampaignsOpen
<1>2. ASSUME NEW k \in 1 .. Len(l)
      PROVE  l[k].term < g.campaigns[c]
  <2>1. l # <<>>
    BY <1>0
  <2>2. l[k].term <= LastTerm(l) /\ Won(g, LastTerm(l)) /\ l[k].term \in Nat
    BY <1>0, <2>1, RootedLast, RootedOrdered, k \in 1 .. k
  <2>3. LastTerm(l) # g.campaigns[c]
    BY <1>1, <2>2
  <2>4. CASE LastTerm(l) > g.campaigns[c]
    <3>1. PICK R \in Majorities : \A v \in R : Vote(g.campaigns[c], v, c) \notin g.ballots
      BY <2>4 DEF GroupInv, LateCampaignsLost, CampaignLost
    <3>. QED  BY <3>1, MajoritiesShare
  <2>. QED  BY <1>0, <2>2, <2>3, <2>4
<1>. QED  BY <1>1, <1>2

\* The new leader's log has what may have been chosen in earlier terms: some
\* voter of its majority has acknowledged it, or none has and none will.
LEMMA WinnerKeeps ==
  ASSUME NEW g, GroupInv(g), NEW c \in Node, g.campaigns[c] > 0,
         NEW Q \in Majorities, \A v \in Q : Vote(g.campaigns[c], v, c) \in g.ballots,
         NEW t \in Nat, t < g.campaigns[c], NEW i \in Nat, i > 0, Direct(g, t, i)
  PROVE  Kept(g, g.logs[c], t, i)
<1>0. GroupType(g) /\ g.campaigns[c] \in Nat
  BY VoterShape DEF GroupInv
<1>1. CASE \E v \in Q : g.acks[t][v] >= i
  <2>1. PICK v \in Q : g.acks[t][v] >= i
    BY <1>1
  <2>2. v \in Node /\ g.acks[t][v] \in Nat
    BY <1>0, <2>1, AckShape DEF Majorities
  <2>3. VoterKept(g, c, v)
    BY <2>1, <2>2 DEF GroupInv, VotersKept
  <2>4. t \in 0 .. g.campaigns[c] - 1 /\ i \in 1 .. g.acks[t][v]
    BY <1>0, <2>1, <2>2
  <2>. QED  BY <2>3, <2>4 DEF VoterKept
<1>2. CASE \A v \in Q : ~(g.acks[t][v] >= i)
  <2>1. ASSUME NEW v \in Q
        PROVE  g.terms[v] > t /\ g.acks[t][v] < i
    <3>1. v \in Node /\ g.terms[v] >= g.campaigns[c]
      BY DEF Majorities, GroupInv, BallotsKnown, Vote
    <3>2. g.terms[v] \in Nat /\ g.acks[t][v] \in Nat
      BY <1>0, <3>1, VoterShape, AckShape
    <3>. QED  BY <1>0, <1>2, <3>1, <3>2
  <2>. QED  BY <2>1 DEF Kept, Blocked
<1>. QED  BY <1>1, <1>2

LEMMA WinKeeps ==
  ASSUME NEW g, NEW h, NEW c \in Node, GroupInv(g), GroupType(h), Win(g, h, c)
  PROVE  GroupInv(h) /\ Grows(g, h)
<1>. PICK u \in Nat : u = g.campaigns[c]
  BY VoterShape DEF GroupInv
<1>1. /\ u > 0 /\ GroupType(g)
      /\ \A w \in g.wins : w.term = u => w.node = c
      /\ h.wins = g.wins \cup {Victory(u, c)}
      /\ h.made = [g.made EXCEPT ![u] = g.logs[c]]
      /\ h.campaigns = [g.campaigns EXCEPT ![c] = 0]
      /\ h.terms = g.terms /\ h.logs = g.logs /\ h.acks = g.acks /\ h.ballots = g.ballots
  BY DEF Win, GroupInv
<1>2. PICK Q \in Majorities : \A v \in Q : Vote(u, v, c) \in g.ballots
  BY DEF Win
<1>3. ~Won(g, u) /\ \A k \in 1 .. Len(g.logs[c]) : g.logs[c][k].term < u
  BY <1>1, <1>2, WinnersLogEarlier
<1>4. /\ h.made[u] = g.logs[c] /\ g.logs[c] \in Seq(Entry) /\ Len(g.logs[c]) \in Nat
      /\ \A t \in Nat \ {u} : h.made[t] = g.made[t]
      /\ \A k \in Node \ {c} : h.campaigns[k] = g.campaigns[k]
      /\ h.campaigns[c] = 0
  BY <1>1, VoterShape DEF GroupType
<1>5. g.made[u] = <<>>
  BY <1>3 DEF GroupInv, MadeByWinners
<1>6. \A t \in Nat : Won(h, t) <=> Won(g, t) \/ t = u
  <2>1. Victory(u, c).term = u /\ Victory(u, c) \in h.wins
    BY <1>1 DEF Victory
  <2>2. Won(h, u)
    BY <2>1 DEF Won
  <2>3. ASSUME NEW t \in Nat, NEW w \in h.wins, w.term = t, t # u
        PROVE  w \in g.wins
    BY <1>1, <2>1, <2>3
  <2>4. \A w \in g.wins : w \in h.wins
    BY <1>1
  <2>. QED  BY <2>2, <2>3, <2>4 DEF Won
<1>7. Grows(g, h)
  <2>1. ASSUME NEW t \in Nat
        PROVE  /\ Agree(h.made[t], g.made[t], Len(g.made[t]))
               /\ Won(g, t) => \A k \in Len(g.made[t]) + 1 .. Len(h.made[t]) :
                                  h.made[t][k].term = t
    <3>1. CASE t = u
      BY <1>3, <1>4, <1>5, <3>1 DEF Agree
    <3>2. CASE t # u
      <4>1. Len(g.made[t]) \in Nat /\ h.made[t] = g.made[t]
        BY <1>1, <1>4, <3>2, MadeShape
      <4>. QED  BY <4>1 DEF Agree
    <3>. QED  BY <3>1, <3>2
  <2>2. \A t \in Nat, v \in Node : g.acks[t][v] <= h.acks[t][v] /\ g.acks[t][v] = h.acks[t][v]
    BY <1>1, AckShape
  <2>3. \A v \in Node : g.terms[v] <= h.terms[v]
    BY <1>1, VoterShape
  <2>. QED  BY <1>1, <2>1, <2>2, <2>3 DEF Grows, TermsForward
<1>8. WinsCounted(h)
  BY <1>1, <1>2 DEF GroupInv, WinsCounted, Victory
<1>9. BallotsKnown(h)
  BY <1>1 DEF GroupInv, BallotsKnown
<1>10. MadeByWinners(h)
  BY <1>4, <1>6 DEF GroupInv, MadeByWinners
<1>11. MadeRooted(h)
  <2>. SUFFICES ASSUME NEW t \in Nat
                PROVE  /\ Rooted(h, h.made[t])
                       /\ \A k \in 1 .. Len(h.made[t]) : h.made[t][k].term <= t
    BY DEF MadeRooted
  <2>1. CASE t = u
    <3>1. Rooted(h, g.logs[c])
      BY <1>4, <1>7, RootedOn DEF GroupInv, LogsRooted
    <3>2. \A k \in 1 .. Len(g.logs[c]) : g.logs[c][k].term <= u
      BY <1>1, <1>3, VoterShape
    <3>. QED  BY <1>4, <2>1, <3>1, <3>2
  <2>2. CASE t # u
    <3>1. h.made[t] = g.made[t] /\ g.made[t] \in Seq(Entry)
      BY <1>1, <1>4, <2>2, MadeShape
    <3>. QED  BY <1>7, <3>1, RootedOn DEF GroupInv, MadeRooted
  <2>. QED  BY <2>1, <2>2
<1>12. LogsRooted(h)
  BY <1>1, <1>7, VoterShape, RootedOn DEF GroupInv, LogsRooted
<1>13. AcksMade(h)
  <2>. SUFFICES ASSUME NEW t \in Nat, NEW v \in Node
                PROVE  g.acks[t][v] <= Len(h.made[t]) /\ (g.acks[t][v] > 0 => g.terms[v] >= t)
    BY <1>1 DEF AcksMade
  <2>1. g.acks[t][v] <= Len(g.made[t]) /\ (g.acks[t][v] > 0 => g.terms[v] >= t)
    BY DEF GroupInv, AcksMade
  <2>2. Len(g.made[t]) <= Len(h.made[t])
    BY <1>1, <1>7, MadeOn
  <2>3. Len(g.made[t]) \in Nat /\ Len(h.made[t]) \in Nat /\ g.acks[t][v] \in Nat
    BY <1>1, MadeShape, AckShape
  <2>. QED  BY <2>1, <2>2, <2>3
<1>14. AcksKept(h)
  BY <1>1, <1>7, AckKeptOn DEF AcksKept
<1>15. LeadersKept(h)
  <2>. SUFFICES ASSUME NEW t \in Nat, NEW w \in Nat, t < w, Won(h, w),
                       NEW i \in 1 .. Len(h.made[t]), Direct(h, t, i)
                PROVE  Kept(h, h.made[w], t, i)
    BY DEF LeadersKept, LeaderKept
  <2>1. t # u
    <3>. SUFFICES ASSUME t = u PROVE FALSE
      OBVIOUS
    <3>1. h.made[t] = g.logs[c]
      BY <1>4
    <3>2. i \in 1 .. Len(g.logs[c]) /\ g.logs[c][i].term = u
      BY <3>1 DEF Direct
    <3>3. g.logs[c][i].term < u
      BY <1>3, <3>2
    <3>. QED  BY <3>2, <3>3
  <2>2. h.made[t] = g.made[t] /\ Direct(g, t, i) /\ i \in Nat /\ i > 0
        /\ Len(g.made[t]) \in Nat /\ i \in 1 .. Len(g.made[t])
    <3>1. h.made[t] = g.made[t]
      BY <1>4, <2>1
    <3>2. Len(g.made[t]) \in Nat
      BY <1>1, MadeShape
    <3>3. Direct(g, t, i)
      BY <3>1 DEF Direct
    <3>. QED  BY <3>1, <3>2, <3>3
  <2>3. CASE w = u
    <3>1. Kept(g, g.logs[c], t, i)
      BY <1>1, <1>2, <2>2, <2>3, WinnerKeeps
    <3>. QED  BY <1>1, <1>4, <1>7, <2>2, <2>3, <3>1, KeptOn
  <2>4. CASE w # u
    BY <1>6, <1>7, <2>2, <2>4, LeaderKeptOn
  <2>. QED  BY <2>3, <2>4
<1>16. \A k \in Node : h.campaigns[k] > 0 => h.campaigns[k] = g.campaigns[k] /\ k # c
  BY <1>4
<1>17. VotersKept(h)
  BY <1>1, <1>7, <1>16, VoterKeptOn DEF VotersKept
<1>18. CampaignsOpen(h)
  BY <1>1, <1>16 DEF GroupInv, CampaignsOpen, Victory
<1>19. LateCampaignsLost(h)
  BY <1>1, <1>7, <1>16, CampaignLostOn DEF GroupInv, LateCampaignsLost
<1>. QED
  BY <1>7, <1>8, <1>9, <1>10, <1>11, <1>12, <1>13, <1>14, <1>15, <1>17, <1>18, <1>19 DEF GroupInv

-----------------------------------------------------------------------------
(* A leader's own entry.                                                   *)

LEMMA AppendAgrees ==
  ASSUME NEW l \in Seq(Entry), NEW e \in Entry
  PROVE  /\ Append(l, e) \in Seq(Entry) /\ Len(Append(l, e)) = Len(l) + 1 /\ Len(l) \in Nat
         /\ Append(l, e)[Len(l) + 1] = e
         /\ \A k \in 1 .. Len(l) : Append(l, e)[k] = l[k]
         /\ \A c, k : k \in Nat /\ Agree(l, c, k) => Agree(Append(l, e), c, k)
<1>1. /\ Append(l, e) \in Seq(Entry) /\ Len(Append(l, e)) = Len(l) + 1 /\ Len(l) \in Nat
      /\ Append(l, e)[Len(l) + 1] = e
      /\ \A k \in 1 .. Len(l) : Append(l, e)[k] = l[k]
  BY AppendProperties, LenProperties
<1>2. ASSUME NEW c, NEW k \in Nat, Agree(l, c, k)
      PROVE  Agree(Append(l, e), c, k)
  <2>1. k <= Len(l)
    BY <1>2 DEF Agree
  <2>2. \A j \in 1 .. k : Append(l, e)[j] = l[j]
    BY <1>1, <2>1
  <2>. QED  BY <1>1, <1>2, <2>1, <2>2 DEF Agree
<1>. QED  BY <1>1, <1>2

LEMMA KeptLonger ==
  ASSUME NEW g, NEW l \in Seq(Entry), NEW e \in Entry, NEW t, NEW i \in Nat, Kept(g, l, t, i)
  PROVE  Kept(g, Append(l, e), t, i)
BY AppendAgrees DEF Kept

LEMMA RootedLonger ==
  ASSUME NEW g, NEW l \in Seq(Entry), NEW e \in Entry, Rooted(g, l), Won(g, e.term),
         g.made[e.term] = Append(l, e)
  PROVE  Rooted(g, Append(l, e))
<1>1. /\ Append(l, e) \in Seq(Entry) /\ Len(Append(l, e)) = Len(l) + 1 /\ Len(l) \in Nat
      /\ Append(l, e)[Len(l) + 1] = e
      /\ \A k \in 1 .. Len(l) : Append(l, e)[k] = l[k]
  BY AppendAgrees
<1>. SUFFICES ASSUME NEW k \in 1 .. Len(l) + 1
              PROVE  /\ Won(g, Append(l, e)[k].term)
                     /\ Agree(Append(l, e), g.made[Append(l, e)[k].term], k)
  BY <1>1 DEF Rooted
<1>2. CASE k = Len(l) + 1
  <2>1. Append(l, e)[k] = e
    BY <1>1, <1>2
  <2>2. k \in Nat /\ k <= Len(Append(l, e))
    BY <1>1, <1>2
  <2>3. Agree(Append(l, e), Append(l, e), k)
    BY <1>1, <2>2, AgreeReflexive
  <2>. QED  BY <2>1, <2>3
<1>3. CASE k # Len(l) + 1
  <2>1. k \in 1 .. Len(l) /\ k \in Nat
    BY <1>1, <1>3
  <2>2. Won(g, l[k].term) /\ Agree(l, g.made[l[k].term], k)
    BY <2>1 DEF Rooted
  <2>3. Append(l, e)[k] = l[k]
    BY <1>1, <2>1
  <2>. QED  BY <2>1, <2>2, <2>3, AppendAgrees
<1>. QED  BY <1>2, <1>3

\* What a leader adds after a later election will never be chosen.
LEMMA AddedTooLate ==
  ASSUME NEW g, NEW h, GroupInv(g), GroupType(h), NEW n \in Node, NEW t \in Nat, NEW w \in Nat,
         g.terms[n] <= t, t < w, Won(g, w), h.terms = g.terms,
         \A v \in Node \ {n} : h.acks[t][v] = g.acks[t][v]
  PROVE  Blocked(h, t, Len(g.made[t]) + 1)
<1>1. PICK win \in g.wins : win.term = w
  BY DEF Won
<1>2. PICK Q \in Majorities : \A v \in Q : Vote(w, v, win.node) \in g.ballots
  BY <1>1 DEF GroupInv, WinsCounted
<1>3. ASSUME NEW v \in Q
      PROVE  h.terms[v] > t /\ h.acks[t][v] < Len(g.made[t]) + 1
  <2>1. v \in Node /\ w <= g.terms[v]
    BY <1>2 DEF Majorities, GroupInv, BallotsKnown, Vote
  <2>2. /\ g.terms[v] \in Nat /\ g.terms[n] \in Nat /\ g.acks[t][v] \in Nat
        /\ Len(g.made[t]) \in Nat /\ g.acks[t][v] <= Len(g.made[t])
    BY <2>1, VoterShape, AckShape, MadeShape DEF GroupInv, AcksMade
  <2>3. v # n
    BY <2>1, <2>2
  <2>. QED  BY <2>1, <2>2, <2>3
<1>. QED  BY <1>3 DEF Blocked

LEMMA ExtendKeeps ==
  ASSUME NEW g, NEW h, NEW n \in Node, NEW t \in Nat, NEW e, GroupInv(g), GroupType(h),
         Extend(g, h, n, t, e)
  PROVE  GroupInv(h) /\ Grows(g, h)
<1>1. /\ GroupType(g) /\ Victory(t, n) \in g.wins /\ g.terms[n] <= t
      /\ g.logs[n] = g.made[t] /\ g.campaigns[n] = 0
      /\ e \in Entry /\ e.term = t
      /\ h.terms = g.terms /\ h.campaigns = g.campaigns
      /\ h.ballots = g.ballots /\ h.wins = g.wins
  BY DEF Extend, GroupInv
<1>. DEFINE l == Append(g.made[t], e)
            end == Len(g.made[t]) + 1
<1>2. /\ h.made[t] = l /\ \A s \in Nat \ {t} : h.made[s] = g.made[s]
      /\ h.logs[n] = l /\ \A v \in Node \ {n} : h.logs[v] = g.logs[v]
      /\ h.acks[t][n] = end
      /\ \A s \in Nat, v \in Node : s # t \/ v # n => h.acks[s][v] = g.acks[s][v]
  <2>1. /\ h.made = [g.made EXCEPT ![t] = l] /\ h.logs = [g.logs EXCEPT ![n] = l]
        /\ h.acks = [g.acks EXCEPT ![t] = [g.acks[t] EXCEPT ![n] = end]]
    BY DEF Extend
  <2>2. /\ DOMAIN g.made = Nat /\ DOMAIN g.logs = Node /\ DOMAIN g.acks = Nat
        /\ \A s \in Nat : DOMAIN g.acks[s] = Node
    BY <1>1 DEF GroupType
  <2>. HIDE DEF l, end
  <2>3. h.made[t] = l /\ \A s \in Nat \ {t} : h.made[s] = g.made[s]
    BY <2>1, <2>2
  <2>4. h.logs[n] = l /\ \A v \in Node \ {n} : h.logs[v] = g.logs[v]
    BY <2>1, <2>2
  <2>5. /\ h.acks[t] = [g.acks[t] EXCEPT ![n] = end]
        /\ \A s \in Nat \ {t} : h.acks[s] = g.acks[s]
    BY <2>1, <2>2
  <2>6. h.acks[t][n] = end /\ \A v \in Node \ {n} : h.acks[t][v] = g.acks[t][v]
    BY <2>2, <2>5
  <2>. QED  BY <2>3, <2>4, <2>5, <2>6
<1>3. /\ g.made[t] \in Seq(Entry) /\ Len(g.made[t]) \in Nat
      /\ l \in Seq(Entry) /\ Len(l) = end /\ end \in Nat /\ l[end] = e
      /\ \A k \in 1 .. Len(g.made[t]) : l[k] = g.made[t][k]
  <2>1. g.made[t] \in Seq(Entry) /\ Len(g.made[t]) \in Nat /\ e \in Entry
    BY <1>1, MadeShape
  <2>2. PICK made \in Seq(Entry) : made = g.made[t]
    BY <2>1
  <2>3. /\ Append(made, e) \in Seq(Entry) /\ Len(Append(made, e)) = Len(made) + 1
        /\ Append(made, e)[Len(made) + 1] = e
        /\ \A k \in 1 .. Len(made) : Append(made, e)[k] = made[k]
    BY <2>1, AppendAgrees
  <2>4. l = Append(made, e) /\ end = Len(made) + 1
    BY <2>2
  <2>. HIDE DEF l, end
  <2>5. l \in Seq(Entry) /\ Len(l) = end /\ end \in Nat /\ l[end] = e
    BY <2>1, <2>2, <2>3, <2>4
  <2>6. \A k \in 1 .. Len(g.made[t]) : l[k] = g.made[t][k]
    BY <2>2, <2>3, <2>4
  <2>. QED  BY <2>1, <2>5, <2>6
<1>. HIDE DEF l, end
<1>4. Won(g, t) /\ Won(h, t)
  BY <1>1 DEF Won, Victory
<1>5. g.terms[n] \in Nat /\ g.terms[n] = t
  <2>1. PICK Q \in Majorities : \A v \in Q : Vote(t, v, n) \in g.ballots
    BY <1>1 DEF GroupInv, WinsCounted, Victory
  <2>2. PICK v \in Node : v \in Q
    BY MajorityInhabited
  <2>3. t <= g.terms[n]
    BY <2>1, <2>2 DEF GroupInv, BallotsKnown, Vote
  <2>. QED  BY <1>1, <2>3, VoterShape
<1>6. Grows(g, h)
  <2>1. ASSUME NEW s \in Nat
        PROVE  /\ Agree(h.made[s], g.made[s], Len(g.made[s]))
               /\ \A k \in Len(g.made[s]) + 1 .. Len(h.made[s]) : h.made[s][k].term = s
    <3>1. CASE s = t
      <4>1. Agree(l, g.made[t], Len(g.made[t]))
        BY <1>3 DEF Agree, end
      <4>2. \A k \in Len(g.made[t]) + 1 .. Len(l) : l[k].term = t
        BY <1>1, <1>3 DEF end
      <4>. QED  BY <1>2, <3>1, <4>1, <4>2
    <3>2. CASE s # t
      <4>1. Len(g.made[s]) \in Nat /\ h.made[s] = g.made[s]
        BY <1>1, <1>2, <3>2, MadeShape
      <4>. QED  BY <4>1 DEF Agree
    <3>. QED  BY <3>1, <3>2
  <2>2. ASSUME NEW s \in Nat, NEW v \in Node
        PROVE  /\ g.acks[s][v] <= h.acks[s][v]
               /\ g.acks[s][v] = h.acks[s][v] \/ g.terms[v] <= s
    <3>1. g.acks[s][v] \in Nat /\ g.acks[s][v] <= Len(g.made[s])
      BY <1>1, AckShape DEF GroupInv, AcksMade
    <3>2. CASE s = t /\ v = n
      BY <1>1, <1>2, <1>3, <3>1, <3>2 DEF end
    <3>3. CASE s # t \/ v # n
      BY <1>2, <3>1, <3>3
    <3>. QED  BY <3>2, <3>3
  <2>3. \A v \in Node : g.terms[v] <= h.terms[v]
    BY <1>1, VoterShape
  <2>. QED  BY <1>1, <2>1, <2>2, <2>3 DEF Grows, TermsForward
<1>7. WinsCounted(h) /\ BallotsKnown(h) /\ CampaignsOpen(h)
  BY <1>1 DEF GroupInv, WinsCounted, BallotsKnown, CampaignsOpen
<1>8. MadeByWinners(h)
  BY <1>1, <1>2, <1>4 DEF GroupInv, MadeByWinners, Won
<1>9. Rooted(h, l)
  <2>1. Rooted(h, g.made[t])
    BY <1>3, <1>6, RootedOn DEF GroupInv, MadeRooted
  <2>. QED  BY <1>1, <1>2, <1>3, <1>4, <2>1, RootedLonger DEF l
<1>10. MadeRooted(h)
  <2>. SUFFICES ASSUME NEW s \in Nat
                PROVE  /\ Rooted(h, h.made[s])
                       /\ \A k \in 1 .. Len(h.made[s]) : h.made[s][k].term <= s
    BY DEF MadeRooted
  <2>1. \A k \in 1 .. Len(g.made[s]) : g.made[s][k].term <= s
    BY DEF GroupInv, MadeRooted
  <2>2. CASE s = t
    <3>1. ASSUME NEW k \in 1 .. end
          PROVE  l[k].term <= t
      <4>1. k = end \/ k \in 1 .. Len(g.made[t])
        BY <1>3 DEF end
      <4>. QED  BY <1>1, <1>3, <2>1, <2>2, <4>1
    <3>. QED  BY <1>2, <1>3, <1>9, <2>2, <3>1
  <2>3. CASE s # t
    BY <1>1, <1>2, <1>6, <2>1, <2>3, MadeShape, RootedOn DEF GroupInv, MadeRooted
  <2>. QED  BY <2>2, <2>3
<1>11. LogsRooted(h)
  <2>. SUFFICES ASSUME NEW v \in Node PROVE Rooted(h, h.logs[v])
    BY DEF LogsRooted
  <2>1. CASE v = n
    BY <1>2, <1>9, <2>1
  <2>2. CASE v # n
    BY <1>1, <1>2, <1>6, <2>2, VoterShape, RootedOn DEF GroupInv, LogsRooted
  <2>. QED  BY <2>1, <2>2
<1>12. AcksMade(h)
  <2>. SUFFICES ASSUME NEW s \in Nat, NEW v \in Node
                PROVE  h.acks[s][v] <= Len(h.made[s]) /\ (h.acks[s][v] > 0 => g.terms[v] >= s)
    BY <1>1 DEF AcksMade
  <2>1. CASE s = t /\ v = n
    BY <1>2, <1>3, <1>5, <2>1
  <2>2. CASE s # t \/ v # n
    <3>1. g.acks[s][v] <= Len(g.made[s]) /\ (g.acks[s][v] > 0 => g.terms[v] >= s)
      BY DEF GroupInv, AcksMade
    <3>2. Len(g.made[s]) <= Len(h.made[s])
      BY <1>1, <1>6, MadeOn
    <3>3. Len(g.made[s]) \in Nat /\ Len(h.made[s]) \in Nat /\ g.acks[s][v] \in Nat
      BY <1>1, MadeShape, AckShape
    <3>. QED  BY <1>2, <2>2, <3>1, <3>2, <3>3
  <2>. QED  BY <2>1, <2>2
<1>13. AcksKept(h)
  <2>. SUFFICES ASSUME NEW s \in Nat, NEW v \in Node PROVE AckKept(h, s, v)
    BY DEF AcksKept
  <2>1. CASE v # n
    BY <1>2, <1>6, <2>1, AckKeptOn
  <2>2. CASE v = n /\ s = t
    <3>1. ASSUME NEW i \in 1 .. end
          PROVE  Kept(h, l, t, i)
      BY <1>2, <1>3, AgreeReflexive DEF Kept
    <3>. QED  BY <1>2, <2>2, <3>1 DEF AckKept
  <2>3. CASE v = n /\ s # t
    <3>. SUFFICES ASSUME NEW i \in 1 .. g.acks[s][n], Direct(h, s, i)
                  PROVE  Kept(h, l, s, i)
      BY <1>2, <2>3 DEF AckKept
    <3>1. g.acks[s][n] \in Nat /\ g.acks[s][n] <= Len(g.made[s]) /\ Len(g.made[s]) \in Nat
      BY <1>1, AckShape, MadeShape DEF GroupInv, AcksMade
    <3>2. i \in 1 .. Len(g.made[s]) /\ i \in Nat
      BY <3>1
    <3>3. Direct(g, s, i)
      BY <1>1, <1>6, <3>2, MadeOn
    <3>4. Kept(g, g.made[t], s, i)
      BY <1>1, <3>3 DEF GroupInv, AcksKept, AckKept
    <3>5. Kept(h, g.made[t], s, i)
      BY <1>1, <1>3, <1>6, <3>2, <3>4, KeptOn
    <3>. QED  BY <1>1, <1>3, <3>2, <3>5, KeptLonger DEF l
  <2>. QED  BY <2>1, <2>2, <2>3
<1>14. LeadersKept(h)
  <2>. SUFFICES ASSUME NEW s \in Nat, NEW w \in Nat, s < w, Won(h, w),
                       NEW i \in 1 .. Len(h.made[s]), Direct(h, s, i)
                PROVE  Kept(h, h.made[w], s, i)
    BY DEF LeadersKept, LeaderKept
  <2>1. Won(g, w)
    BY <1>1 DEF Won
  <2>2. CASE i \in 1 .. Len(g.made[s])
    BY <1>6, <2>1, <2>2, LeaderKeptOn
  <2>3. CASE i \notin 1 .. Len(g.made[s])
    <3>1. s = t /\ i = end
      <4>1. s = t
        BY <1>2, <2>3
      <4>. QED  BY <1>2, <1>3, <2>3, <4>1 DEF end
    <3>2. \A v \in Node \ {n} : h.acks[t][v] = g.acks[t][v]
      BY <1>2
    <3>3. Blocked(h, t, end)
      BY <1>1, <2>1, <3>1, <3>2, AddedTooLate DEF end
    <3>. QED  BY <3>1, <3>3 DEF Kept
  <2>. QED  BY <2>2, <2>3
<1>15. \A k \in Node : h.campaigns[k] > 0 =>
         h.campaigns[k] = g.campaigns[k] /\ h.logs[k] = g.logs[k]
  BY <1>1, <1>2
<1>16. VotersKept(h)
  BY <1>1, <1>6, <1>15, VoterKeptOn DEF VotersKept
<1>17. LateCampaignsLost(h)
  BY <1>1, <1>6, <1>15, CampaignLostOn DEF GroupInv, LateCampaignsLost
<1>. QED
  BY <1>6, <1>7, <1>8, <1>10, <1>11, <1>12, <1>13, <1>14, <1>16, <1>17 DEF GroupInv

-----------------------------------------------------------------------------
(* A leader's log taken over.                                              *)

Taken(l, c, k) == IF Agree(l, c, k) THEN l ELSE SubSeq(c, 1, k)

LEMMA TakenShape ==
  ASSUME NEW l \in Seq(Entry), NEW c \in Seq(Entry), NEW k \in 0 .. Len(c)
  PROVE  /\ Taken(l, c, k) \in Seq(Entry) /\ Len(Taken(l, c, k)) \in Nat
         /\ Agree(Taken(l, c, k), c, k)
         /\ Taken(l, c, k) = l \/ (~Agree(l, c, k) /\ Len(Taken(l, c, k)) = k)
<1>1. CASE Agree(l, c, k)
  BY <1>1, LogShape DEF Taken
<1>2. CASE ~Agree(l, c, k)
  <2>1. Taken(l, c, k) = SubSeq(c, 1, k)
    BY <1>2 DEF Taken
  <2>. QED  BY <1>2, <2>1, PrefixAgrees, LogShape
<1>. QED  BY <1>1, <1>2

\* The log of term u's leader up to k is all it has of the leaders before it.
LEMMA TakenKept ==
  ASSUME NEW g, GroupInv(g), NEW l \in Seq(Entry), NEW u \in Nat, Won(g, u),
         NEW k \in 0 .. Len(g.made[u]), \A j \in k + 1 .. Len(g.made[u]) : g.made[u][j].term = u,
         NEW t \in Nat, t <= u, NEW i \in Nat, i > 0, Direct(g, t, i), Kept(g, l, t, i)
  PROVE  Kept(g, Taken(l, g.made[u], k), t, i)
<1>. DEFINE new == Taken(l, g.made[u], k)
<1>0. /\ GroupType(g) /\ g.made[u] \in Seq(Entry) /\ Len(g.made[u]) \in Nat /\ Len(l) \in Nat
      /\ i \in 1 .. Len(g.made[t]) /\ g.made[t][i].term = t /\ Len(g.made[t]) \in Nat
      /\ k \in Nat /\ k <= Len(g.made[u])
  <2>1. GroupType(g)
    BY DEF GroupInv
  <2>2. g.made[u] \in Seq(Entry) /\ Len(g.made[u]) \in Nat /\ Len(g.made[t]) \in Nat
    BY <2>1, MadeShape
  <2>3. Len(l) \in Nat
    BY LogShape
  <2>. QED  BY <2>1, <2>2, <2>3 DEF Direct
<1>1. /\ Len(new) \in Nat /\ Agree(new, g.made[u], k)
      /\ new = l \/ ~Agree(l, g.made[u], k)
  BY <1>0, TakenShape
<1>. HIDE DEF new
<1>2. CASE Blocked(g, t, i)
  BY <1>2 DEF Kept, new
<1>3. CASE t < u /\ ~Blocked(g, t, i)
  <2>1. Agree(g.made[u], g.made[t], i)
    BY <1>0, <1>3 DEF GroupInv, LeadersKept, LeaderKept, Kept
  <2>2. i <= k
    <3>. SUFFICES ASSUME i > k PROVE FALSE
      BY <1>0
    <3>1. g.made[u][i] = g.made[t][i] /\ i <= Len(g.made[u])
      BY <1>0, <2>1 DEF Agree
    <3>2. i \in k + 1 .. Len(g.made[u])
      BY <1>0, <3>1
    <3>. QED  BY <1>0, <1>3, <3>1, <3>2
  <2>3. Agree(new, g.made[t], i)
    BY <1>0, <1>1, <2>1, <2>2, AgreeTransitive
  <2>. QED  BY <2>3 DEF Kept, new
<1>4. CASE t = u /\ ~Blocked(g, t, i)
  <2>1. Agree(l, g.made[u], i)
    BY <1>4 DEF Kept
  <2>2. CASE i <= k
    <3>1. Agree(new, g.made[u], i)
      BY <1>0, <1>1, <2>2, AgreeLess
    <3>. QED  BY <1>4, <3>1 DEF Kept, new
  <2>3. CASE i > k
    <3>1. Agree(l, g.made[u], k)
      BY <1>0, <2>1, <2>3, AgreeLess
    <3>. QED  BY <1>1, <1>4, <2>1, <3>1 DEF Kept, new
  <2>. QED  BY <1>0, <2>2, <2>3
<1>. QED  BY <1>2, <1>3, <1>4

LEMMA AcceptKeeps ==
  ASSUME NEW g, NEW h, NEW v \in Node, NEW u \in Nat, NEW k, GroupInv(g), GroupType(h),
         Accept(g, h, v, u, k)
  PROVE  GroupInv(h) /\ Grows(g, h)
<1>. DEFINE M == g.made[u]
            new == Taken(g.logs[v], M, k)
<1>1. /\ GroupType(g) /\ Won(g, u) /\ g.terms[v] <= u
      /\ k \in 0 .. Len(M)
      /\ \A j \in k + 1 .. Len(M) : M[j].term = u
      /\ TermsForward(g, h) /\ CampaignsEnd(g, h) /\ h.campaigns[v] = 0
      /\ h.made = g.made /\ h.ballots = g.ballots /\ h.wins = g.wins
  BY DEF Accept, GroupInv
<1>2. h.logs[v] = new /\ \A w \in Node \ {v} : h.logs[w] = g.logs[w]
  BY <1>1 DEF Accept, Taken, GroupType
<1>3. /\ M \in Seq(Entry) /\ Len(M) \in Nat /\ k \in Nat
      /\ g.logs[v] \in Seq(Entry) /\ Len(g.logs[v]) \in Nat
      /\ g.terms[v] \in Nat /\ h.terms[v] \in Nat
  BY <1>1, MadeShape, VoterShape
<1>4. /\ new \in Seq(Entry) /\ Len(new) \in Nat /\ Agree(new, M, k)
      /\ new = g.logs[v] \/ Len(new) = k
  BY <1>1, <1>3, TakenShape
<1>. HIDE DEF M, new
<1>5. ASSUME NEW t \in Nat, NEW w \in Node
      PROVE  /\ h.acks[t][w] = g.acks[t][w] \/
                   (t = u /\ w = v /\ h.terms[v] >= u /\ h.acks[u][v] = k /\ k > g.acks[u][v])
             /\ g.acks[t][w] \in Nat /\ h.acks[t][w] \in Nat
             /\ g.acks[t][w] <= Len(g.made[t]) /\ (g.acks[t][w] > 0 => g.terms[w] >= t)
  <2>1. /\ g.acks[t][w] \in Nat /\ h.acks[t][w] \in Nat
        /\ g.acks[t][w] <= Len(g.made[t]) /\ (g.acks[t][w] > 0 => g.terms[w] >= t)
    BY <1>1, AckShape DEF GroupInv, AcksMade
  <2>2. CASE h.acks = g.acks
    BY <2>1, <2>2
  <2>3. CASE h.acks # g.acks
    <3>1. h.terms[v] >= u /\ h.acks = [g.acks EXCEPT ![u] = [g.acks[u] EXCEPT ![v] =
                                 IF g.acks[u][v] >= k THEN g.acks[u][v] ELSE k]]
      BY <2>3 DEF Accept
    <3>2. DOMAIN g.acks = Nat /\ \A s \in Nat : DOMAIN g.acks[s] = Node
      BY <1>1 DEF GroupType
    <3>3. h.acks[u] = [g.acks[u] EXCEPT ![v] = IF g.acks[u][v] >= k THEN g.acks[u][v] ELSE k]
          /\ \A s \in Nat \ {u} : h.acks[s] = g.acks[s]
      BY <3>1, <3>2
    <3>4. h.acks[u][v] = (IF g.acks[u][v] >= k THEN g.acks[u][v] ELSE k)
          /\ \A x \in Node \ {v} : h.acks[u][x] = g.acks[u][x]
      BY <3>2, <3>3
    <3>5. g.acks[u][v] \in Nat
      BY <1>1, AckShape
    <3>. QED  BY <1>3, <2>1, <3>1, <3>3, <3>4, <3>5
  <2>. QED  BY <2>2, <2>3
<1>6. Grows(g, h)
  <2>1. ASSUME NEW t \in Nat
        PROVE  /\ Agree(h.made[t], g.made[t], Len(g.made[t]))
               /\ \A j \in Len(g.made[t]) + 1 .. Len(h.made[t]) : h.made[t][j].term = t
    BY <1>1, MadeShape DEF Agree
  <2>2. ASSUME NEW t \in Nat, NEW w \in Node
        PROVE  /\ g.acks[t][w] <= h.acks[t][w]
               /\ g.acks[t][w] = h.acks[t][w] \/ g.terms[w] <= t
    BY <1>1, <1>3, <1>5
  <2>. QED  BY <1>1, <2>1, <2>2 DEF Grows
<1>7. WinsCounted(h)
  BY <1>1 DEF GroupInv, WinsCounted
<1>8. BallotsKnown(h)
  BY <1>1, BallotKnownOn DEF BallotsKnown
<1>9. MadeByWinners(h)
  BY <1>1 DEF GroupInv, MadeByWinners, Won
<1>10. MadeRooted(h)
  BY <1>1, <1>6, MadeShape, RootedOn DEF GroupInv, MadeRooted
<1>11. LogsRooted(h)
  <2>. SUFFICES ASSUME NEW w \in Node PROVE Rooted(h, h.logs[w])
    BY DEF LogsRooted
  <2>1. Rooted(g, h.logs[w])
    <3>1. Rooted(g, g.logs[w])
      BY DEF GroupInv, LogsRooted
    <3>2. CASE w # v
      BY <1>2, <3>1, <3>2
    <3>3. CASE w = v /\ new = g.logs[v]
      BY <1>2, <3>1, <3>3
    <3>4. CASE w = v /\ Len(new) = k
      <4>. SUFFICES ASSUME NEW j \in 1 .. Len(new)
                    PROVE  Won(g, new[j].term) /\ Agree(new, g.made[new[j].term], j)
        BY <1>2, <3>4 DEF Rooted
      <4>1. j \in Nat /\ j \in 1 .. Len(M) /\ new[j] = M[j] /\ j <= k
        BY <1>1, <1>3, <1>4, <3>4 DEF Agree
      <4>2. Rooted(g, M)
        BY DEF GroupInv, MadeRooted, M
      <4>3. Won(g, new[j].term) /\ Agree(M, g.made[new[j].term], j)
        BY <4>1, <4>2 DEF Rooted
      <4>4. Agree(new, M, j)
        BY <1>3, <1>4, <4>1, AgreeLess
      <4>. QED  BY <4>1, <4>3, <4>4 DEF Agree
    <3>. QED  BY <1>4, <3>2, <3>3, <3>4
  <2>2. h.logs[w] \in Seq(Entry)
    BY VoterShape
  <2>. QED  BY <1>6, <2>1, <2>2, RootedOn
<1>12. AcksMade(h)
  <2>. SUFFICES ASSUME NEW t \in Nat, NEW w \in Node
                PROVE  h.acks[t][w] <= Len(g.made[t]) /\ (h.acks[t][w] > 0 => h.terms[w] >= t)
    BY <1>1 DEF AcksMade
  <2>1. CASE h.acks[t][w] = g.acks[t][w]
    <3>1. g.terms[w] \in Nat /\ h.terms[w] \in Nat /\ g.terms[w] <= h.terms[w]
      BY <1>1, VoterShape DEF TermsForward
    <3>. QED  BY <1>5, <2>1, <3>1
  <2>2. CASE t = u /\ w = v /\ h.terms[v] >= u /\ h.acks[u][v] = k
    BY <1>1, <2>2 DEF M
  <2>. QED  BY <1>5, <2>1, <2>2
<1>13. AcksKept(h)
  <2>. SUFFICES ASSUME NEW t \in Nat, NEW w \in Node PROVE AckKept(h, t, w)
    BY DEF AcksKept
  <2>1. CASE w # v
    BY <1>2, <1>5, <1>6, <2>1, AckKeptOn
  <2>2. CASE w = v
    <3>. SUFFICES ASSUME NEW i \in 1 .. h.acks[t][v], Direct(h, t, i)
                  PROVE  Kept(h, new, t, i)
      BY <1>2, <2>2 DEF AckKept
    <3>1. i \in Nat /\ i > 0 /\ Direct(g, t, i)
      BY <1>1, <1>5 DEF Direct
    <3>2. CASE i \in 1 .. g.acks[t][v]
      <4>1. Kept(g, g.logs[v], t, i)
        BY <3>1, <3>2 DEF GroupInv, AcksKept, AckKept
      <4>2. t <= u
        BY <1>1, <1>3, <1>5, <3>2
      <4>3. Kept(g, new, t, i)
        BY <1>1, <1>3, <3>1, <4>1, <4>2, TakenKept DEF M, new
      <4>4. i \in 1 .. Len(g.made[t])
        BY <3>1 DEF Direct
      <4>. QED  BY <1>1, <1>4, <1>6, <4>3, <4>4, KeptOn
    <3>3. CASE i \notin 1 .. g.acks[t][v]
      <4>1. t = u /\ i <= k
        BY <1>5, <3>1, <3>3
      <4>2. Agree(new, M, i)
        BY <1>3, <1>4, <3>1, <4>1, AgreeLess
      <4>. QED  BY <1>1, <4>1, <4>2 DEF Kept, M
    <3>. QED  BY <3>2, <3>3
  <2>. QED  BY <2>1, <2>2
<1>14. LeadersKept(h)
  BY <1>1, <1>6, LeaderKeptOn DEF LeadersKept, LeaderKept, Won
<1>15. \A c \in Node : h.campaigns[c] > 0 =>
         h.campaigns[c] = g.campaigns[c] /\ h.logs[c] = g.logs[c]
  BY <1>1, <1>2 DEF CampaignsEnd
<1>16. VotersKept(h)
  BY <1>1, <1>6, <1>15, VoterKeptOn DEF VotersKept
<1>17. CampaignsOpen(h)
  BY <1>1, <1>15 DEF GroupInv, CampaignsOpen
<1>18. LateCampaignsLost(h)
  BY <1>1, <1>6, <1>15, CampaignLostOn DEF GroupInv, LateCampaignsLost
<1>. QED
  BY <1>6, <1>7, <1>8, <1>9, <1>10, <1>11, <1>12, <1>13, <1>14, <1>16, <1>17, <1>18 DEF GroupInv

-----------------------------------------------------------------------------
(* What is committed.                                                      *)

\* What an entry of committed length says: some leader chose it.
LEMMA CommittedBy ==
  ASSUME NEW g, GroupType(g), NEW l, NEW k \in Nat, NEW t \in Nat, Committed(g, l, k, t), k > 0
  PROVE  \E s \in Nat, i \in Nat :
           /\ s <= t /\ k <= i /\ i <= Len(g.made[s])
           /\ Direct(g, s, i) /\ Chosen(g, s, i) /\ Agree(l, g.made[s], k)
<1>1. PICK s \in 0 .. t : \E i \in k .. Len(g.made[s]) :
        Direct(g, s, i) /\ Chosen(g, s, i) /\ Agree(l, g.made[s], k)
  BY DEF Committed
<1>2. PICK i \in k .. Len(g.made[s]) :
        Direct(g, s, i) /\ Chosen(g, s, i) /\ Agree(l, g.made[s], k)
  BY <1>1
<1>3. s \in Nat /\ s <= t /\ Len(g.made[s]) \in Nat
  BY MadeShape
<1>. QED  BY <1>2, <1>3

LEMMA CommittedFrom ==
  ASSUME NEW g, GroupType(g), NEW l, NEW k \in Nat, NEW t \in Nat,
         NEW s \in Nat, NEW i \in Nat, s <= t, k <= i,
         Direct(g, s, i), Chosen(g, s, i), Agree(l, g.made[s], k)
  PROVE  Committed(g, l, k, t)
<1>1. s \in 0 .. t /\ i \in k .. Len(g.made[s])
  BY MadeShape DEF Direct
<1>. QED  BY <1>1 DEF Committed

LEMMA NothingCommitted == ASSUME NEW g, NEW l, NEW t PROVE Committed(g, l, 0, t)
BY DEF Committed

\* Logs that agree have the same committed entries.
LEMMA CommittedAlong ==
  ASSUME NEW g, GroupType(g), NEW l, NEW c, Len(l) \in Nat, Len(c) \in Nat,
         NEW k \in Nat, NEW j \in Nat, j <= k, NEW t \in Nat, NEW u \in Nat, t <= u,
         Committed(g, c, k, t), Agree(l, c, j)
  PROVE  Committed(g, l, j, u)
<1>1. CASE j = 0
  BY <1>1, NothingCommitted
<1>2. CASE j # 0
  <2>0. k > 0
    BY <1>2
  <2>1. PICK s \in Nat, i \in Nat :
           /\ s <= t /\ k <= i /\ i <= Len(g.made[s])
           /\ Direct(g, s, i) /\ Chosen(g, s, i) /\ Agree(c, g.made[s], k)
    BY <2>0, CommittedBy
  <2>2. Len(g.made[s]) \in Nat
    BY MadeShape
  <2>3. Agree(l, g.made[s], j)
    <3>1. Agree(c, g.made[s], j)
      BY <2>1, <2>2, AgreeLess
    <3>. QED  BY <3>1 DEF Agree
  <2>. QED  BY <2>1, <2>3, CommittedFrom
<1>. QED  BY <1>1, <1>2

LEMMA CommittedWithin ==
  ASSUME NEW g, GroupType(g), NEW l \in Seq(Entry), NEW k \in Nat, NEW t \in Nat,
         Committed(g, l, k, t)
  PROVE  k <= Len(l)
<1>1. CASE k = 0
  BY <1>1, LogShape
<1>2. CASE k # 0
  <2>0. k > 0
    BY <1>2
  <2>1. \E s \in Nat, i \in Nat : Agree(l, g.made[s], k)
    BY <2>0, CommittedBy
  <2>. QED  BY <2>1 DEF Agree
<1>. QED  BY <1>1, <1>2

\* What is chosen in term s is in the log of every later leader.
LEMMA LeadersHold ==
  ASSUME NEW g, GroupInv(g), NEW s \in Nat, NEW i \in Nat, Direct(g, s, i), Chosen(g, s, i),
         NEW u \in Nat, s <= u, Won(g, u)
  PROVE  Agree(g.made[u], g.made[s], i)
<1>1. /\ GroupType(g) /\ i \in 1 .. Len(g.made[s]) /\ g.made[s] \in Seq(Entry)
      /\ Len(g.made[s]) \in Nat
  BY MadeShape DEF GroupInv, Direct
<1>2. CASE s = u
  BY <1>1, <1>2, AgreeReflexive
<1>3. CASE s < u
  <2>1. Kept(g, g.made[u], s, i)
    BY <1>1, <1>3 DEF GroupInv, LeadersKept, LeaderKept
  <2>. QED  BY <1>1, <2>1, ChosenKept
<1>. QED  BY <1>2, <1>3

\* What is committed of two logs agrees.
LEMMA CommittedAgree ==
  ASSUME NEW g, GroupInv(g), NEW l, NEW c, NEW k \in Nat, NEW j \in Nat, NEW t \in Nat, NEW u \in Nat,
         Committed(g, l, k, t), Committed(g, c, j, u), NEW p \in Nat, 0 < p, p <= k, p <= j
  PROVE  l[p] = c[p]
<1>0. GroupType(g) /\ k > 0 /\ j > 0
  BY DEF GroupInv
<1>1. PICK s \in Nat, i \in Nat :
           /\ s <= t /\ k <= i /\ i <= Len(g.made[s])
           /\ Direct(g, s, i) /\ Chosen(g, s, i) /\ Agree(l, g.made[s], k)
  BY <1>0, CommittedBy
<1>2. PICK r \in Nat, d \in Nat :
           /\ r <= u /\ j <= d /\ d <= Len(g.made[r])
           /\ Direct(g, r, d) /\ Chosen(g, r, d) /\ Agree(c, g.made[r], j)
  BY <1>0, CommittedBy
<1>3. p \in 1 .. k /\ p \in 1 .. j /\ p \in 1 .. i /\ p \in 1 .. d
  BY <1>1, <1>2
<1>4. l[p] = g.made[s][p] /\ c[p] = g.made[r][p]
  BY <1>1, <1>2, <1>3 DEF Agree
<1>5. Won(g, s) /\ Won(g, r)
  BY <1>1, <1>2, EmptySeq, 1 .. 0 = {} DEF GroupInv, MadeByWinners, Direct
<1>6. CASE s <= r
  <2>1. Agree(g.made[r], g.made[s], i)
    BY <1>1, <1>5, <1>6, LeadersHold
  <2>. QED  BY <1>3, <1>4, <2>1 DEF Agree
<1>7. CASE r <= s
  <2>1. Agree(g.made[s], g.made[r], d)
    BY <1>2, <1>5, <1>7, LeadersHold
  <2>. QED  BY <1>3, <1>4, <2>1 DEF Agree
<1>. QED  BY <1>6, <1>7

\* Taking over a leader's log drops nothing that was committed by its term.
LEMMA TakenCommitted ==
  ASSUME NEW g, GroupInv(g), NEW l \in Seq(Entry), NEW u \in Nat, Won(g, u),
         NEW k \in 0 .. Len(g.made[u]), \A j \in k + 1 .. Len(g.made[u]) : g.made[u][j].term = u,
         NEW j \in Nat, NEW t \in Nat, t <= u, Committed(g, l, j, t)
  PROVE  Committed(g, Taken(l, g.made[u], k), j, t)
<1>1. CASE j = 0
  BY <1>1, NothingCommitted
<1>2. CASE j # 0
  <2>0. GroupType(g) /\ j > 0 /\ g.made[u] \in Seq(Entry) /\ Len(g.made[u]) \in Nat
        /\ Len(l) \in Nat /\ k \in Nat
    <3>1. GroupType(g)
      BY DEF GroupInv
    <3>2. g.made[u] \in Seq(Entry) /\ Len(g.made[u]) \in Nat
      BY <3>1, MadeShape
    <3>3. Len(l) \in Nat
      BY LogShape
    <3>. QED  BY <1>2, <3>1, <3>2, <3>3
  <2>1. PICK s \in Nat, i \in Nat :
           /\ s <= t /\ j <= i /\ i <= Len(g.made[s])
           /\ Direct(g, s, i) /\ Chosen(g, s, i) /\ Agree(l, g.made[s], j)
    BY <2>0, CommittedBy
  <2>. DEFINE new == Taken(l, g.made[u], k)
  <2>2. /\ Len(new) \in Nat /\ Agree(new, g.made[u], k)
        /\ new = l \/ ~Agree(l, g.made[u], k)
    BY <2>0, TakenShape
  <2>. HIDE DEF new
  <2>3. Len(g.made[s]) \in Nat
    BY <2>0, MadeShape
  <2>4. Agree(g.made[u], g.made[s], i)
    BY <2>1, LeadersHold
  <2>5. CASE new = l
    BY <2>0, <2>1, <2>5, CommittedFrom DEF new
  <2>6. CASE ~Agree(l, g.made[u], k)
    <3>1. Agree(l, g.made[u], j)
      BY <2>0, <2>1, <2>3, <2>4 DEF Agree
    <3>2. j <= k
      BY <2>0, <2>6, <3>1, AgreeLess
    <3>3. Agree(new, g.made[u], j) /\ Agree(g.made[u], g.made[s], j)
      BY <2>0, <2>1, <2>2, <2>3, <2>4, <3>2, AgreeLess
    <3>4. Agree(new, g.made[s], j)
      BY <3>3 DEF Agree
    <3>. QED  BY <2>0, <2>1, <3>4, CommittedFrom DEF new
  <2>. QED  BY <2>2, <2>5, <2>6
<1>. QED  BY <1>1, <1>2

\* Rooted logs with the same term at a position are the same up to it.
LEMMA RootedMatch ==
  ASSUME NEW g, NEW l, NEW c, Rooted(g, l), Rooted(g, c),
         NEW k \in 1 .. Len(l), k \in 1 .. Len(c), l[k].term = c[k].term
  PROVE  \A j \in 1 .. k : l[j] = c[j]
BY SMTT(20) DEF Rooted, Agree

-----------------------------------------------------------------------------
(* Two steps in one.                                                       *)

LEMMA GrowsTransitive ==
  ASSUME NEW g, NEW k, NEW h, GroupType(g), GroupType(k), GroupType(h),
         Grows(g, k), Grows(k, h)
  PROVE  Grows(g, h)
<1>1. TermsForward(g, h)
  <2>. SUFFICES ASSUME NEW v \in Node PROVE g.terms[v] <= h.terms[v]
    BY DEF TermsForward
  <2>1. g.terms[v] \in Nat /\ k.terms[v] \in Nat /\ h.terms[v] \in Nat
    BY VoterShape
  <2>2. g.terms[v] <= k.terms[v] /\ k.terms[v] <= h.terms[v]
    BY DEF Grows, TermsForward
  <2>. QED  BY <2>1, <2>2
<1>2. g.ballots \subseteq h.ballots /\ g.wins \subseteq h.wins
  BY DEF Grows
<1>3. ASSUME NEW t \in Nat
      PROVE  /\ Agree(h.made[t], g.made[t], Len(g.made[t]))
             /\ Won(g, t) =>
                  \A j \in Len(g.made[t]) + 1 .. Len(h.made[t]) : h.made[t][j].term = t
  <2>1. /\ Len(g.made[t]) \in Nat /\ Len(k.made[t]) \in Nat /\ Len(h.made[t]) \in Nat
    BY MadeShape
  <2>2. /\ Len(g.made[t]) <= Len(k.made[t])
        /\ \A j \in 1 .. Len(g.made[t]) : k.made[t][j] = g.made[t][j]
    BY MadeOn
  <2>3. /\ Len(k.made[t]) <= Len(h.made[t])
        /\ \A j \in 1 .. Len(k.made[t]) : h.made[t][j] = k.made[t][j]
    BY MadeOn
  <2>4. Agree(h.made[t], g.made[t], Len(g.made[t]))
    BY <2>1, <2>2, <2>3, SMTT(20) DEF Agree
  <2>5. ASSUME Won(g, t), NEW j \in Len(g.made[t]) + 1 .. Len(h.made[t])
        PROVE  h.made[t][j].term = t
    <3>1. Won(k, t)
      BY <2>5, WonOn
    <3>2. CASE j <= Len(k.made[t])
      <4>1. j \in Len(g.made[t]) + 1 .. Len(k.made[t]) /\ j \in 1 .. Len(k.made[t])
        BY <2>1, <3>2
      <4>2. k.made[t][j].term = t
        BY <4>1, <2>5 DEF Grows
      <4>. QED  BY <4>1, <4>2, <2>3
    <3>3. CASE ~(j <= Len(k.made[t]))
      <4>1. j \in Len(k.made[t]) + 1 .. Len(h.made[t])
        BY <2>1, <3>3
      <4>. QED  BY <4>1, <3>1 DEF Grows
    <3>. QED  BY <3>2, <3>3
  <2>. QED  BY <2>4, <2>5
<1>4. ASSUME NEW t \in Nat, NEW v \in Node
      PROVE  /\ g.acks[t][v] <= h.acks[t][v]
             /\ g.acks[t][v] = h.acks[t][v] \/ g.terms[v] <= t
  <2>1. g.acks[t][v] \in Nat /\ k.acks[t][v] \in Nat /\ h.acks[t][v] \in Nat
    BY AckShape
  <2>2. g.terms[v] \in Nat /\ k.terms[v] \in Nat
    BY VoterShape
  <2>3. /\ g.acks[t][v] <= k.acks[t][v] /\ k.acks[t][v] <= h.acks[t][v]
        /\ g.acks[t][v] = k.acks[t][v] \/ g.terms[v] <= t
        /\ k.acks[t][v] = h.acks[t][v] \/ k.terms[v] <= t
        /\ g.terms[v] <= k.terms[v]
    BY DEF Grows, TermsForward
  <2>. QED  BY <2>1, <2>2, <2>3
<1>. QED  BY <1>1, <1>2, <1>3, <1>4 DEF Grows

\* A sole voter stands and wins.
\* A sole voter stands and wins in one step.
LoneWin(g, h, c, u) ==
  /\ TermsForward(g, h) /\ g.terms[c] < u /\ u <= h.terms[c]
  /\ h.campaigns = [g.campaigns EXCEPT ![c] = 0]
  /\ h.ballots = g.ballots \cup {Vote(u, c, c)}
  /\ h.wins = g.wins \cup {Victory(u, c)}
  /\ h.made = [g.made EXCEPT ![u] = g.logs[c]] /\ h.logs = g.logs /\ h.acks = g.acks
  /\ \A w \in g.wins : w.term = u => w.node = c

LEMMA SoleWinKeeps ==
  ASSUME NEW g, NEW h, NEW c \in Node, NEW u \in Nat, GroupInv(g), GroupType(h), Majority = 1,
         LoneWin(g, h, c, u)
  PROVE  GroupInv(h) /\ Grows(g, h)
<1>1. PICK k : k = [terms |-> h.terms, logs |-> g.logs,
                    campaigns |-> [g.campaigns EXCEPT ![c] = u],
                    ballots |-> h.ballots, wins |-> g.wins, made |-> g.made, acks |-> g.acks]
  OBVIOUS
<1>2. /\ k.terms = h.terms /\ k.logs = g.logs /\ k.campaigns = [g.campaigns EXCEPT ![c] = u]
      /\ k.ballots = h.ballots /\ k.wins = g.wins /\ k.made = g.made /\ k.acks = g.acks
  BY <1>1
<1>3. GroupType(g) /\ GroupType(k)
  <2>1. GroupType(g)
    BY DEF GroupInv
  <2>2. [g.campaigns EXCEPT ![c] = u] \in [Node -> Nat]
    BY <2>1 DEF GroupType
  <2>. QED  BY <2>1, <2>2, <1>2 DEF GroupType
<1>4. Stand(g, k, c, u)
  BY <1>2 DEF LoneWin, Stand, TermsForward, SameLogs
<1>5. GroupInv(k) /\ Grows(g, k)
  BY <1>3, <1>4, StandKeeps
<1>6. k.campaigns[c] = u /\ u > 0
  <2>1. g.terms[c] \in Nat /\ g.campaigns \in [Node -> Nat]
    BY <1>3, VoterShape DEF GroupType
  <2>. QED  BY <2>1, <1>2 DEF LoneWin
<1>7. {c} \in Majorities /\ \A v \in {c} : Vote(u, v, c) \in k.ballots
  <2>1. Cardinality({c}) = 1
    BY FS_Singleton
  <2>. QED  BY <2>1, <1>2 DEF Majorities, LoneWin
<1>8. h.campaigns = [k.campaigns EXCEPT ![c] = 0]
  BY <1>2, <1>3 DEF GroupType, LoneWin
<1>9. Win(k, h, c)
  BY <1>2, <1>6, <1>7, <1>8 DEF Win, LoneWin
<1>10. GroupInv(h) /\ Grows(k, h)
  BY <1>5, <1>9, WinKeeps
<1>. QED  BY <1>3, <1>5, <1>10, GrowsTransitive
=============================================================================
