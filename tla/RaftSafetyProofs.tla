-------------------------- MODULE RaftSafetyProofs ---------------------------
(* Raft's safety, while no node changes its role or term with one of its   *)
(* own tasks suspended: for any number of voters, any commands and bounds. *)
EXTENDS ReplicatedLogProofs, RaftElectionsProofs

-----------------------------------------------------------------------------
(* The invariant.                                                          *)

\* The position up to which a request to append entries gives the log.
Extent(m) == m.prevLogIndex + Len(m.entries)

\* A request built from a position beyond the log has no term to match.
Usable(m) == m.prevLogIndex = 0 \/ m.prevLogTerm > 0

\* The request carries what its term's leader has in its log: nothing beyond
\* it is of an earlier term.
Carried(g, m) ==
  Usable(m) =>
    /\ Extent(m) <= Len(g.made[m.term])
    /\ \A k \in 1 .. Len(m.entries) : m.entries[k] = g.made[m.term][m.prevLogIndex + k]
    /\ m.prevLogIndex > 0 => m.prevLogTerm = g.made[m.term][m.prevLogIndex].term
    /\ \A k \in Extent(m) + 1 .. Len(g.made[m.term]) : g.made[m.term][k].term = m.term
    /\ m.leaderCommit <= Extent(m)
    /\ Committed(g, g.made[m.term], m.leaderCommit, m.term)

\* The group of the runtimes' files and elections, with some history.
Matches(g) ==
  /\ GroupType(g)
  /\ g.terms = [n \in Node |-> diskState[n].currentTerm]
  /\ g.logs = log
  /\ g.campaigns = [n \in Node |-> IF election[n] = Nil THEN 0 ELSE election[n].term]
  /\ g.ballots = ballots
  /\ g.wins = wins

CommitSound(g, l, st) ==
  /\ Committed(g, l, st.commitIndex, st.currentTerm)
  /\ st.lastApplied <= st.commitIndex

\* The submitting node leads, and has counted only voters that hold the entry.
SubmissionSound(g, n) ==
  submit[n] # Nil =>
    /\ role[n] = "leader"
    /\ submit[n].entry.term = state[n].currentTerm
    /\ submit[n].entry.index > 0
    /\ n \notin submit[n].replicated
    /\ \A v \in submit[n].replicated \cup {n} :
         g.acks[submit[n].entry.term][v] >= submit[n].entry.index

RoleSound(g, n) ==
  /\ beats[n] # {} => role[n] = "leader"
  /\ election[n] # Nil =>
       /\ role[n] = "candidate"
       /\ election[n].term = state[n].currentTerm /\ election[n].term > 0
  /\ role[n] = "candidate" => leaderId[n] = Nil
  /\ role[n] = "leader" =>
       /\ Victory(state[n].currentTerm, n) \in wins
       /\ log[n] = g.made[state[n].currentTerm]
  /\ leaderId[n] # Nil => Victory(state[n].currentTerm, leaderId[n]) \in wins

NodeSound(g, n) ==
  /\ SubmissionSound(g, n)
  /\ RoleSound(g, n)
  /\ CommitSound(g, log[n], state[n])
  /\ CommitSound(g, log[n], diskState[n])

MessageSound(g, m) ==
  /\ m.task = "heartbeat" => role[Caller(m)] = "leader"
  /\ m.type = "RequestVote" =>
       /\ 0 < m.term /\ m.term <= diskState[m.source].currentTerm
       /\ election[m.source] # Nil /\ election[m.source].term = m.term =>
            m.lastLogIndex = Len(log[m.source]) /\ m.lastLogTerm = LastTerm(log[m.source])
  /\ m.type = "AppendEntries" =>
       /\ Victory(m.term, m.source) \in wins
       /\ Carried(g, m)
       /\ m.task = "submit" =>
            /\ m.term = submit[m.source].entry.term
            /\ Extent(m) >= submit[m.source].entry.index
  /\ m.type = "AppendReply" /\ m.task = "submit" /\ m.success =>
       /\ m.term = submit[m.dest].entry.term
       /\ g.acks[m.term][m.source] >= submit[m.dest].entry.index

\* An entry answered "ok" is one its term's leader created and a majority holds.
EntrySound(g, e) ==
  /\ Direct(g, e.term, e.index)
  /\ Chosen(g, e.term, e.index)
  /\ g.made[e.term][e.index].command = e.command

Sound(g) ==
  /\ Matches(g)
  /\ GroupInv(g)
  /\ \A n \in Node : NodeSound(g, n)
  /\ \A m \in net : MessageSound(g, m)
  /\ \A e \in acked : EntrySound(g, e)

\* There is a history that explains the state.
SafetyInv == \E g : Sound(g)

\* What is known of every behaviour, and of every step of a calm one.
Known == Inv /\ ElectionInv /\ SubmissionInv /\ CampaignSafety

Stepping ==
  /\ Inv /\ Inv'
  /\ ElectionInv /\ SubmissionInv /\ CampaignSafety'
  /\ DiskForward /\ Attentive

-----------------------------------------------------------------------------
(* What the loop of handle_append_entries leaves, from a leader's request.  *)

\* The entries before the first conflict are the first so many.
LEMMA FirstConflict ==
  ASSUME NEW l, NEW m, Len(m.entries) \in Nat, Conflicts(l, m) # {}
  PROVE  \E q \in 0 .. Len(m.entries) - 1 :
           /\ q = Cardinality(Unopposed(l, m))
           /\ q + 1 \in Conflicts(l, m)
           /\ \A k \in 1 .. q : k \notin Conflicts(l, m)
<1>. DEFINE U == Unopposed(l, m)
            q == Cardinality(U)
<1>1. U \subseteq 1 .. Len(m.entries) /\ \A k \in U : \A j \in 1 .. k : j \in U /\ j \notin Conflicts(l, m)
  BY DEF Unopposed
<1>2. IsFiniteSet(1 .. Len(m.entries)) /\ Cardinality(1 .. Len(m.entries)) = Len(m.entries)
  BY FS_Interval
<1>3. IsFiniteSet(U) /\ q \in Nat
  BY <1>1, <1>2, FS_Subset, FS_CardinalityType
<1>4. ASSUME NEW k \in U
      PROVE  k \in 1 .. q
  <2>1. k \in Nat /\ 1 <= k /\ 1 .. k \subseteq U
    BY <1>1
  <2>2. Cardinality(1 .. k) = k
    BY <2>1, FS_Interval
  <2>. QED  BY <1>3, <2>1, <2>2, FS_Subset
<1>5. IsFiniteSet(1 .. q) /\ Cardinality(1 .. q) = q
  BY <1>3, FS_Interval
<1>6. U = 1 .. q
  BY <1>4, <1>5, <1>3, FS_Subset
<1>7. PICK c \in 1 .. Len(m.entries) : c \in Conflicts(l, m)
  BY DEF Conflicts
<1>. HIDE DEF U, q
<1>8. q < c
  BY <1>1, <1>3, <1>6, <1>7
<1>9. q + 1 \notin U /\ q + 1 \in 1 .. Len(m.entries)
  BY <1>3, <1>6, <1>7, <1>8
<1>10. PICK j \in 1 .. q + 1 : j \in Conflicts(l, m)
  BY <1>9 DEF Unopposed, U
<1>11. \A k \in 1 .. q : k \notin Conflicts(l, m)
  BY <1>1, <1>3, <1>6
<1>12. j = q + 1
  BY <1>3, <1>10, <1>11
<1>. QED  BY <1>3, <1>9, <1>10, <1>11, <1>12 DEF q, U

\* A start of c, completed with entries of c.
LEMMA CompletedPrefix ==
  ASSUME NEW a \in Seq(Entry), NEW e \in Seq(Entry), NEW c \in Seq(Entry), NEW p \in Nat,
         p <= Len(a), Len(a) <= p + Len(e), p + Len(e) <= Len(c),
         \A j \in 1 .. Len(a) : a[j] = c[j],
         \A k \in 1 .. Len(e) : e[k] = c[p + k]
  PROVE  a \o SubSeq(e, Len(a) - p + 1, Len(e)) = SubSeq(c, 1, p + Len(e))
<1>. DEFINE rest == SubSeq(e, Len(a) - p + 1, Len(e))
            whole == SubSeq(c, 1, p + Len(e))
<1>1. Len(a) \in Nat /\ Len(e) \in Nat /\ Len(c) \in Nat
  OBVIOUS
<1>2. /\ rest \in Seq(Entry) /\ Len(rest) = p + Len(e) - Len(a)
      /\ \A k \in 1 .. Len(rest) : rest[k] = e[Len(a) - p + k]
  BY <1>1
<1>3. /\ whole \in Seq(Entry) /\ Len(whole) = p + Len(e)
      /\ \A k \in 1 .. Len(whole) : whole[k] = c[k]
  BY <1>1
<1>. HIDE DEF rest, whole
<1>4. /\ a \o rest \in Seq(Entry) /\ Len(a \o rest) = Len(whole)
  BY <1>1, <1>2, <1>3
<1>5. ASSUME NEW k \in 1 .. Len(whole)
      PROVE  (a \o rest)[k] = whole[k]
  <2>1. CASE k <= Len(a)
    BY <1>1, <1>2, <1>3, <2>1
  <2>2. CASE k > Len(a)
    <3>1. k - Len(a) \in 1 .. Len(rest) /\ k - p \in 1 .. Len(e) /\ Len(a) - p + (k - Len(a)) = k - p
      BY <1>1, <1>2, <1>3, <2>2
    <3>2. (a \o rest)[k] = rest[k - Len(a)]
      BY <1>1, <1>2, <1>3, <2>2
    <3>3. rest[k - Len(a)] = e[k - p]
      BY <1>2, <3>1
    <3>4. PICK j \in 1 .. Len(e) : j = k - p
      BY <3>1
    <3>5. e[j] = c[p + j]
      OBVIOUS
    <3>6. p + j = k
      BY <1>1, <1>3, <3>4
    <3>7. e[k - p] = c[k]
      BY <3>4, <3>5, <3>6
    <3>. QED  BY <3>2, <3>3, <3>7, <1>3
  <2>3. k <= Len(a) \/ k > Len(a)
    BY <1>1, <1>3
  <2>. QED  BY <2>1, <2>2, <2>3
<1>. QED  BY <1>3, <1>4, <1>5, SeqEqual DEF rest, whole

\* handle_append_entries leaves either its own log, which has all that the
\* request gives, or what the leader had when it sent the request.
LEMMA MergedIsTaken ==
  ASSUME NEW g, GroupInv(g), NEW l \in Seq(Entry), Rooted(g, l),
         NEW m, Payload(m), Carried(g, m), PrevMatches(l, m)
  PROVE  /\ Usable(m)
         /\ Extent(m) \in 0 .. Len(g.made[m.term])
         /\ Merged(l, m) = Taken(l, g.made[m.term], Extent(m))
<1>. DEFINE c == g.made[m.term]
            p == m.prevLogIndex
            e == m.entries
<1>1. /\ p \in Nat /\ m.term \in Nat
      /\ e \in Seq(Entry) /\ Len(e) \in Nat
  BY DEF Payload
<1>2. /\ c \in Seq(Entry) /\ Len(c) \in Nat
      /\ \A k \in 1 .. Len(c) : c[k] \in Entry /\ c[k].term \in Nat
  BY <1>1, MadeShape DEF GroupInv
<1>3. Rooted(g, c)
  BY <1>1 DEF GroupInv, MadeRooted
<1>4. Len(l) \in Nat /\ \A k \in 1 .. Len(l) : l[k].term \in Nat
  BY LogShape
<1>5. p > 0 => p \in 1 .. Len(l) /\ l[p].term = m.prevLogTerm
  BY <1>1, <1>4 DEF PrevMatches
<1>6. Usable(m)
  <2>1. CASE p = 0
    BY <2>1 DEF Usable
  <2>2. CASE p > 0
    BY <1>5, <2>2, <1>1, RootedOrdered DEF Usable
  <2>. QED  BY <1>1, <2>1, <2>2
<1>7. /\ Extent(m) <= Len(c) /\ Extent(m) = p + Len(e)
      /\ \A k \in 1 .. Len(e) : e[k] = c[p + k]
      /\ p > 0 => m.prevLogTerm = c[p].term
  BY <1>6 DEF Carried, Extent
<1>. HIDE DEF c, p, e
<1>8. p <= Len(l) /\ \A j \in 1 .. p : l[j] = c[j]
  <2>1. CASE p = 0
    BY <1>1, <1>4, <2>1
  <2>2. CASE p > 0
    <3>1. p \in 1 .. Len(l) /\ p \in 1 .. Len(c) /\ l[p].term = c[p].term
      BY <1>1, <1>2, <1>5, <1>7, <2>2
    <3>. QED  BY <3>1, <1>3, RootedMatch
  <2>. QED  BY <1>1, <2>1, <2>2
<1>9. ASSUME NEW k \in 1 .. Len(e), p + k <= Len(l), k \notin Conflicts(l, m)
      PROVE  \A j \in 1 .. p + k : l[j] = c[j]
  <2>1. k \notin Conflicts(l, m) /\ e[k] = c[p + k]
    BY <1>7, <1>9
  <2>2. l[p + k].term = c[p + k].term
    BY <2>1, <1>9 DEF Conflicts, p, e
  <2>3. p + k \in 1 .. Len(l) /\ p + k \in 1 .. Len(c)
    BY <1>1, <1>2, <1>4, <1>7, <1>9
  <2>. QED  BY <2>2, <2>3, <1>3, RootedMatch
<1>10. Merged(l, m) = Taken(l, c, p + Len(e))
  <2>1. CASE Conflicts(l, m) = {} /\ Len(l) >= p + Len(e)
    <3>1. \A j \in 1 .. p + Len(e) : l[j] = c[j]
      <4>1. CASE Len(e) = 0
        BY <4>1, <1>1, <1>8
      <4>2. CASE Len(e) > 0
        <5>1. Len(e) \in 1 .. Len(e) /\ p + Len(e) <= Len(l) /\ Len(e) \notin Conflicts(l, m)
          BY <4>2, <1>1, <1>4, <2>1
        <5>. QED  BY <5>1, <1>9
      <4>. QED  BY <1>1, <4>1, <4>2
    <3>2. Taken(l, c, p + Len(e)) = l
      BY <2>1, <3>1, <1>1, <1>2, <1>4, <1>7 DEF Taken, Agree
    <3>3. Merged(l, m) = l \o SubSeq(e, Len(l) - p + 1, Len(e))
      BY <2>1 DEF Merged, KeptPrefix, e, p
    <3>4. SubSeq(e, Len(l) - p + 1, Len(e)) = <<>>
      BY <2>1, <1>1, <1>4
    <3>5. l \o <<>> = l
      BY ConcatEmptySeq
    <3>. QED  BY <3>2, <3>3, <3>4, <3>5
  <2>2. CASE Conflicts(l, m) = {} /\ Len(l) < p + Len(e)
    <3>1. \A j \in 1 .. Len(l) : l[j] = c[j]
      <4>1. CASE Len(l) = p
        BY <4>1, <1>8
      <4>2. CASE Len(l) > p
        <5>0. Len(l) - p \in Nat
          BY <4>2, <1>1, <1>4
        <5>1. PICK k \in Nat : k = Len(l) - p
          BY <5>0
        <5>2. k \in 1 .. Len(e) /\ p + k = Len(l) /\ k \notin Conflicts(l, m)
          BY <4>2, <5>1, <2>2, <1>1, <1>4
        <5>3. \A j \in 1 .. p + k : l[j] = c[j]
          BY <5>2, <1>9, <1>4
        <5>. QED  BY <5>2, <5>3
      <4>. QED  BY <1>1, <1>4, <1>8, <4>1, <4>2
    <3>2. Taken(l, c, p + Len(e)) = SubSeq(c, 1, p + Len(e))
      BY <2>2, <1>1, <1>4 DEF Taken, Agree
    <3>3. Merged(l, m) = l \o SubSeq(e, Len(l) - p + 1, Len(e))
      BY <2>2 DEF Merged, KeptPrefix, e, p
    <3>4. Len(l) <= p + Len(e) /\ p + Len(e) <= Len(c)
      BY <2>2, <1>1, <1>4, <1>7
    <3>. QED  BY <3>1, <3>2, <3>3, <3>4, <1>1, <1>2, <1>7, <1>8, CompletedPrefix
  <2>3. CASE Conflicts(l, m) # {}
    <3>1. PICK q \in 0 .. Len(e) - 1 :
            /\ q = Cardinality(Unopposed(l, m))
            /\ q + 1 \in Conflicts(l, m)
            /\ \A k \in 1 .. q : k \notin Conflicts(l, m)
      BY <2>3, <1>1, FirstConflict DEF e
    <3>. HIDE DEF Conflicts
    <3>2. q + 1 \in 1 .. Len(e) /\ p + (q + 1) <= Len(l) /\ l[p + (q + 1)].term # e[q + 1].term
      BY <3>1 DEF Conflicts, p, e
    <3>11. /\ q \in Nat /\ p \in Nat /\ Len(e) \in Nat /\ Len(l) \in Nat
           /\ q + 1 <= Len(e) /\ p + (q + 1) <= Len(l)
      BY <3>1, <3>2, <1>1, <1>4
    <3>3. p + (q + 1) \in 1 .. p + Len(e) /\ l[p + (q + 1)] # c[p + (q + 1)]
      BY <3>2, <1>1, <1>7
    <3>4. Taken(l, c, p + Len(e)) = SubSeq(c, 1, p + Len(e))
      BY <3>3 DEF Taken, Agree
    <3>5. \A j \in 1 .. p + q : l[j] = c[j]
      <4>1. CASE q = 0
        BY <4>1, <1>1, <1>8
      <4>2. CASE q > 0
        <5>1. q \in 1 .. Len(e) /\ p + q <= Len(l) /\ q \in 1 .. q
          BY <4>2, <3>11
        <5>2. q \notin Conflicts(l, m)
          BY <5>1, <3>1
        <5>. QED  BY <5>1, <5>2, <1>9
      <4>. QED  BY <3>11, <4>1, <4>2
    <3>. DEFINE a == SubSeq(l, 1, p + q)
    <3>6. /\ a \in Seq(Entry) /\ Len(a) = p + q
          /\ \A j \in 1 .. Len(a) : a[j] = c[j]
      <4>1. p + q \in 0 .. Len(l)
        BY <3>11
      <4>2. a \in Seq(Entry) /\ Len(a) = p + q /\ Agree(a, l, p + q)
        BY <4>1, PrefixAgrees
      <4>. QED  BY <4>2, <3>5 DEF Agree
    <3>. HIDE DEF a
    <3>7. Merged(l, m) = a \o SubSeq(e, Len(a) - p + 1, Len(e))
      BY <2>3, <3>1 DEF Merged, KeptPrefix, a, e, p
    <3>8. p <= Len(a) /\ Len(a) <= p + Len(e) /\ p + Len(e) <= Len(c)
      BY <3>6, <3>11, <1>1, <1>2, <1>7
    <3>9. /\ e \in Seq(Entry) /\ c \in Seq(Entry) /\ p \in Nat
          /\ \A k \in 1 .. Len(e) : e[k] = c[p + k]
      BY <1>1, <1>2, <1>7
    <3>10. a \o SubSeq(e, Len(a) - p + 1, Len(e)) = SubSeq(c, 1, p + Len(e))
      BY <3>6, <3>8, <3>9, CompletedPrefix, ZenonT(30)
    <3>. QED  BY <3>4, <3>7, <3>10
  <2>. QED  BY <1>1, <1>4, <2>1, <2>2, <2>3
<1>11. Extent(m) \in 0 .. Len(c)
  BY <1>1, <1>2, <1>7
<1>. QED  BY <1>6, <1>7, <1>10, <1>11 DEF c

-----------------------------------------------------------------------------
(* What a step of one node leaves as it was.                               *)

\* Only node n's files and tasks change; its submission goes on with its
\* entry or ends, and what it campaigns for is new or unchanged.
Frame(n) ==
  /\ \A k \in Node \ {n} :
       /\ state'[k] = state[k] /\ diskState'[k] = diskState[k] /\ log'[k] = log[k]
       /\ role'[k] = role[k] /\ leaderId'[k] = leaderId[k]
       /\ election'[k] = election[k] /\ beats'[k] = beats[k] /\ submit'[k] = submit[k]
  /\ wins \subseteq wins'
  /\ submit[n] # Nil => SameSubmission(n)
  /\ \/ election'[n] = Nil
     \/ election[n] # Nil /\ election'[n].term = election[n].term /\ log'[n] = log[n]
     \/ election'[n].term > diskState[n].currentTerm

\* Only the logs of n's own terms grow.
OwnTerms(g, h, n) == \A t \in Nat : h.made[t] = g.made[t] \/ Victory(t, n) \in wins'

LEMMA NodeTypes ==
  ASSUME Inv, NEW n \in Node
  PROVE  /\ state[n] \in DurableState /\ state[n].currentTerm \in Nat
         /\ state[n].commitIndex \in Nat /\ state[n].lastApplied \in Nat
         /\ diskState[n] \in DurableState /\ diskState[n].currentTerm \in Nat
         /\ diskState[n].commitIndex \in Nat /\ diskState[n].lastApplied \in Nat
         /\ log[n] \in Seq(Entry) /\ Len(log[n]) \in Nat
         /\ role[n] \in Role /\ leaderId[n] \in Node \cup {Nil}
         /\ election[n] # Nil => election[n] \in Campaign /\ election[n].term \in Nat
         /\ submit[n] # Nil =>
              /\ submit[n] \in Submission /\ submit[n].replicated \in SUBSET Node
              /\ submit[n].entry.term \in Nat /\ submit[n].entry.index \in Nat
         /\ beats[n] \in SUBSET Node
<1>1. /\ state[n] \in DurableState /\ diskState[n] \in DurableState
      /\ log[n] \in Seq(Entry) /\ role[n] \in Role /\ leaderId[n] \in Node \cup {Nil}
  BY DEF Inv, TypeOK, TypeCore
<1>2. /\ election[n] \in {Nil} \cup Campaign /\ submit[n] \in {Nil} \cup Submission
      /\ beats[n] \in SUBSET Node
  BY DEF Inv, TypeOK, TypeTasks
<1>. QED  BY <1>1, <1>2, SMTT(20) DEF DurableState, Campaign, Submission, SubmittedEntry

LEMMA NextNodeTypes ==
  ASSUME Inv', NEW n \in Node
  PROVE  /\ state'[n] \in DurableState /\ state'[n].currentTerm \in Nat
         /\ state'[n].commitIndex \in Nat /\ state'[n].lastApplied \in Nat
         /\ diskState'[n] \in DurableState /\ diskState'[n].currentTerm \in Nat
         /\ diskState'[n].commitIndex \in Nat /\ diskState'[n].lastApplied \in Nat
         /\ log'[n] \in Seq(Entry) /\ Len(log'[n]) \in Nat
         /\ election'[n] # Nil => election'[n] \in Campaign /\ election'[n].term \in Nat
<1>1. /\ state'[n] \in DurableState /\ diskState'[n] \in DurableState
      /\ log'[n] \in Seq(Entry)
  BY DEF Inv, TypeOK, TypeCore
<1>2. election'[n] \in {Nil} \cup Campaign
  BY DEF Inv, TypeOK, TypeTasks
<1>. QED  BY <1>1, <1>2 DEF DurableState, Campaign

\* What is committed stays so when the node's term rises.
LEMMA CommitSoundOn ==
  ASSUME NEW g, NEW h, GroupType(g), GroupType(h), Grows(g, h), NEW l \in Seq(Entry),
         NEW a \in DurableState, NEW b \in DurableState, CommitSound(g, l, a),
         b.commitIndex = a.commitIndex, b.lastApplied = a.lastApplied,
         a.currentTerm <= b.currentTerm
  PROVE  CommitSound(h, l, b)
<1>1. a.commitIndex \in Nat /\ a.currentTerm \in Nat /\ b.currentTerm \in Nat
  BY DEF DurableState
<1>2. Committed(g, l, a.commitIndex, a.currentTerm) /\ a.lastApplied <= a.commitIndex
  BY DEF CommitSound
<1>3. Committed(h, l, a.commitIndex, b.currentTerm)
  BY <1>1, <1>2, CommittedOn
<1>. QED  BY <1>2, <1>3 DEF CommitSound

LEMMA AcksGrow ==
  ASSUME NEW g, NEW h, GroupType(g), GroupType(h), Grows(g, h), NEW t \in Nat, NEW v \in Node,
         NEW i \in Nat, g.acks[t][v] >= i
  PROVE  h.acks[t][v] >= i
<1>1. g.acks[t][v] \in Nat /\ h.acks[t][v] \in Nat
  BY AckShape
<1>2. g.acks[t][v] <= h.acks[t][v]
  BY DEF Grows
<1>. QED  BY <1>1, <1>2

\* Nothing changes for the other nodes.
LEMMA OthersSound ==
  ASSUME Inv, Inv', CampaignSafety', NEW n \in Node, Frame(n), NEW g, NEW h,
         GroupInv(g), GroupType(h), Grows(g, h), OwnTerms(g, h, n),
         NEW k \in Node \ {n}, NodeSound(g, k)
  PROVE  NodeSound(h, k)'
<1>1. GroupType(g)
  BY DEF GroupInv
<1>2. /\ state'[k] = state[k] /\ diskState'[k] = diskState[k] /\ log'[k] = log[k]
      /\ role'[k] = role[k] /\ leaderId'[k] = leaderId[k]
      /\ election'[k] = election[k] /\ beats'[k] = beats[k] /\ submit'[k] = submit[k]
      /\ wins \subseteq wins'
  BY DEF Frame
<1>3. SubmissionSound(h, k)'
  <2>. SUFFICES ASSUME submit[k] # Nil
                PROVE  SubmissionSound(h, k)'
    BY <1>2 DEF SubmissionSound
  <2>1. /\ role[k] = "leader"
        /\ submit[k].entry.term = state[k].currentTerm
        /\ submit[k].entry.index > 0
        /\ k \notin submit[k].replicated
        /\ \A v \in submit[k].replicated \cup {k} :
             g.acks[submit[k].entry.term][v] >= submit[k].entry.index
    BY DEF NodeSound, SubmissionSound
  <2>2. submit[k].entry.term \in Nat /\ submit[k].entry.index \in Nat
        /\ submit[k].replicated \in SUBSET Node
    BY NodeTypes
  <2>3. \A v \in submit[k].replicated \cup {k} :
             h.acks[submit[k].entry.term][v] >= submit[k].entry.index
    BY <1>1, <2>1, <2>2, AcksGrow
  <2>. QED  BY <1>2, <2>1, <2>3 DEF SubmissionSound
<1>4. RoleSound(h, k)'
  <2>1. role[k] = "leader" => log[k] = h.made[state[k].currentTerm]
    <3>. SUFFICES ASSUME role[k] = "leader"
                  PROVE  h.made[state[k].currentTerm] = g.made[state[k].currentTerm]
      BY DEF NodeSound, RoleSound
    <3>1. Victory(state[k].currentTerm, k) \in wins' /\ state[k].currentTerm \in Nat
      BY <1>2, NodeTypes DEF NodeSound, RoleSound
    <3>2. Victory(state[k].currentTerm, n) \notin wins'
      BY <3>1 DEF CampaignSafety, E!OneWinnerPerTerm, Victory
    <3>. QED  BY <3>1, <3>2 DEF OwnTerms
  <2>. QED  BY <1>2, <2>1 DEF NodeSound, RoleSound
<1>5. CommitSound(h, log[k], state[k]) /\ CommitSound(h, log[k], diskState[k])
  <2>1. CommitSound(g, log[k], state[k]) /\ CommitSound(g, log[k], diskState[k])
    BY DEF NodeSound
  <2>2. /\ state[k] \in DurableState /\ state[k].currentTerm <= state[k].currentTerm
        /\ diskState[k] \in DurableState /\ diskState[k].currentTerm <= diskState[k].currentTerm
        /\ log[k] \in Seq(Entry)
    BY NodeTypes
  <2>3. CommitSound(h, log[k], state[k])
    BY <1>1, <2>1, <2>2, CommitSoundOn
  <2>4. CommitSound(h, log[k], diskState[k])
    BY <1>1, <2>1, <2>2, CommitSoundOn
  <2>. QED  BY <2>3, <2>4
<1>6. CommitSound(h, log[k], state[k])' /\ CommitSound(h, log[k], diskState[k])'
  BY <1>2, <1>5 DEF CommitSound
<1>. QED  BY <1>3, <1>4, <1>6 DEF NodeSound

\* A request carries what it carried.
LEMMA CarriedOn ==
  ASSUME NEW g, NEW h, GroupInv(g), GroupType(h), Grows(g, h),
         NEW m, m.term \in Nat, m.prevLogIndex \in Nat, m.leaderCommit \in Nat,
         m.entries \in Seq(Entry), Won(g, m.term), Carried(g, m)
  PROVE  Carried(h, m)
<1>. SUFFICES ASSUME Usable(m)
              PROVE  Carried(h, m)
  BY DEF Carried
<1>. DEFINE t == m.term
<1>1. GroupType(g) /\ t \in Nat
  BY DEF GroupInv
<1>. HIDE DEF t
<1>2. /\ Extent(m) <= Len(g.made[t]) /\ Extent(m) \in Nat
      /\ \A k \in 1 .. Len(m.entries) : m.entries[k] = g.made[t][m.prevLogIndex + k]
      /\ m.prevLogIndex > 0 => m.prevLogTerm = g.made[t][m.prevLogIndex].term
      /\ \A k \in Extent(m) + 1 .. Len(g.made[t]) : g.made[t][k].term = t
      /\ m.leaderCommit <= Extent(m)
      /\ Committed(g, g.made[t], m.leaderCommit, t)
  BY DEF Carried, Extent, t
<1>3. /\ Len(g.made[t]) <= Len(h.made[t])
      /\ \A j \in 1 .. Len(g.made[t]) : h.made[t][j] = g.made[t][j]
  BY <1>1, MadeOn
<1>4. \A k \in Len(g.made[t]) + 1 .. Len(h.made[t]) : h.made[t][k].term = t
  BY <1>1 DEF Grows, t
<1>5. /\ g.made[t] \in Seq(Entry) /\ Len(g.made[t]) \in Nat
      /\ h.made[t] \in Seq(Entry) /\ Len(h.made[t]) \in Nat
  BY <1>1, MadeShape
<1>6. Len(m.entries) \in Nat /\ Extent(m) = m.prevLogIndex + Len(m.entries)
  BY DEF Extent
<1>7. \A k \in 1 .. Len(m.entries) : m.prevLogIndex + k \in 1 .. Len(g.made[t])
  BY <1>2, <1>5, <1>6
<1>8. \A k \in 1 .. Len(m.entries) : m.entries[k] = h.made[t][m.prevLogIndex + k]
  BY <1>2, <1>3, <1>7
<1>9. m.prevLogIndex > 0 => m.prevLogTerm = h.made[t][m.prevLogIndex].term
  <2>1. m.prevLogIndex > 0 => m.prevLogIndex \in 1 .. Len(g.made[t])
    BY <1>2, <1>5, <1>6
  <2>. QED  BY <1>2, <1>3, <2>1
<1>10. ASSUME NEW k \in Extent(m) + 1 .. Len(h.made[t])
       PROVE  h.made[t][k].term = t
  <2>1. CASE k <= Len(g.made[t])
    <3>1. k \in 1 .. Len(g.made[t]) /\ k \in Extent(m) + 1 .. Len(g.made[t])
      BY <1>2, <1>5, <2>1
    <3>. QED  BY <1>2, <1>3, <3>1
  <2>2. CASE ~(k <= Len(g.made[t]))
    <3>1. k \in Len(g.made[t]) + 1 .. Len(h.made[t])
      BY <1>2, <1>5, <2>2
    <3>. QED  BY <1>4, <3>1
  <2>. QED  BY <2>1, <2>2
<1>11. Committed(h, h.made[t], m.leaderCommit, t)
  <2>1. Committed(h, g.made[t], m.leaderCommit, t)
    BY <1>1, <1>2, <1>5, CommittedOn DEF t
  <2>2. Agree(h.made[t], g.made[t], m.leaderCommit)
    BY <1>2, <1>3, <1>5 DEF Agree
  <2>3. t <= t /\ m.leaderCommit <= m.leaderCommit
    BY <1>1
  <2>. QED  BY <1>1, <1>5, <2>1, <2>2, <2>3, CommittedAlong
<1>12. Extent(m) <= Len(h.made[t])
  BY <1>2, <1>3, <1>5
<1>. QED  BY <1>2, <1>8, <1>9, <1>10, <1>11, <1>12 DEF Carried, t

\* A message that is still on its way says what it said.
LEMMA MessageKept ==
  ASSUME Inv, Inv', Attentive, DiskForward, NEW n \in Node, Frame(n), NEW g, NEW h,
         Matches(g), GroupInv(g), GroupType(h), Grows(g, h),
         NEW m, m \in Message, MessageSound(g, m), m.task = "none" \/ (m \in net /\ m \in net')
  PROVE  MessageSound(h, m)'
<1>1. /\ m.source \in Node /\ m.dest \in Node /\ Caller(m) \in Node
      /\ m.type = "RequestVote" => m \in RequestVote
      /\ m.type = "AppendEntries" => m \in AppendEntries
      /\ m.type = "AppendReply" => m \in AppendReply
  BY MessageKinds
<1>2. /\ \A k \in Node \ {n} :
           /\ role'[k] = role[k] /\ log'[k] = log[k]
           /\ election'[k] = election[k] /\ submit'[k] = submit[k]
      /\ wins \subseteq wins'
      /\ submit[n] # Nil => SameSubmission(n)
  BY DEF Frame
<1>3. m.task = "heartbeat" => role'[Caller(m)] = "leader"
  <2>. SUFFICES ASSUME m.task = "heartbeat"
                PROVE  role'[Caller(m)] = "leader"
    OBVIOUS
  <2>1. m \in Calls(Caller(m), "heartbeat")'
    BY DEF Calls
  <2>2. role'[Caller(m)] = role[Caller(m)]
    BY <1>1, <2>1 DEF Attentive, Undisturbed
  <2>. QED  BY <2>2 DEF MessageSound
<1>4. m.type = "RequestVote" =>
       /\ 0 < m.term /\ m.term <= diskState'[m.source].currentTerm
       /\ election'[m.source] # Nil /\ election'[m.source].term = m.term =>
            m.lastLogIndex = Len(log'[m.source]) /\ m.lastLogTerm = LastTerm(log'[m.source])
  <2>. SUFFICES ASSUME m.type = "RequestVote"
                PROVE  /\ 0 < m.term /\ m.term <= diskState'[m.source].currentTerm
                       /\ election'[m.source] # Nil /\ election'[m.source].term = m.term =>
                            /\ m.lastLogIndex = Len(log'[m.source])
                            /\ m.lastLogTerm = LastTerm(log'[m.source])
    OBVIOUS
  <2>1. /\ 0 < m.term /\ m.term <= diskState[m.source].currentTerm
        /\ election[m.source] # Nil /\ election[m.source].term = m.term =>
             m.lastLogIndex = Len(log[m.source]) /\ m.lastLogTerm = LastTerm(log[m.source])
    BY DEF MessageSound
  <2>2. m.term \in Nat
    BY <1>1 DEF RequestVote, Term
  <2>3. /\ diskState[m.source].currentTerm <= diskState'[m.source].currentTerm
        /\ diskState[m.source].currentTerm \in Nat /\ diskState'[m.source].currentTerm \in Nat
    <3>1. diskState[m.source].currentTerm \in Nat /\ diskState'[m.source].currentTerm \in Nat
      BY <1>1, NodeTypes, NextNodeTypes
    <3>2. Follows(diskState[m.source], diskState'[m.source])
      BY <1>1 DEF DiskForward
    <3>. QED  BY <3>1, <3>2 DEF Follows
  <2>4. m.term <= diskState'[m.source].currentTerm
    BY <2>1, <2>2, <2>3
  <2>5. ASSUME election'[m.source] # Nil, election'[m.source].term = m.term
        PROVE  m.lastLogIndex = Len(log'[m.source]) /\ m.lastLogTerm = LastTerm(log'[m.source])
    <3>1. CASE m.source # n
      BY <1>1, <1>2, <2>1, <2>5, <3>1
    <3>2. CASE m.source = n
      <4>1. ~(election'[n].term > diskState[n].currentTerm)
        BY <2>1, <2>2, <2>3, <2>5, <3>2
      <4>2. election[n] # Nil /\ election'[n].term = election[n].term /\ log'[n] = log[n]
        BY <4>1, <2>5, <3>2 DEF Frame
      <4>. QED  BY <4>2, <2>1, <2>5, <3>2
    <3>. QED  BY <3>1, <3>2
  <2>. QED  BY <2>1, <2>4, <2>5
<1>5. ASSUME m.task = "submit"
      PROVE  submit[Caller(m)] # Nil /\ submit'[Caller(m)].entry = submit[Caller(m)].entry
  <2>1. submit[Caller(m)] # Nil /\ submit'[Caller(m)] # Nil
    BY <1>5 DEF Inv, CallsTracked, SubmitAwaits
  <2>2. CASE Caller(m) # n
    BY <1>1, <1>2, <2>1, <2>2
  <2>3. CASE Caller(m) = n
    BY <1>2, <2>1, <2>3 DEF SameSubmission
  <2>. QED  BY <2>1, <2>2, <2>3
<1>6. m.type = "AppendEntries" =>
       /\ Victory(m.term, m.source) \in wins'
       /\ Carried(h, m)
       /\ m.task = "submit" =>
            /\ m.term = submit'[m.source].entry.term
            /\ Extent(m) >= submit'[m.source].entry.index
  <2>. SUFFICES ASSUME m.type = "AppendEntries"
                PROVE  /\ Victory(m.term, m.source) \in wins'
                       /\ Carried(h, m)
                       /\ m.task = "submit" =>
                            /\ m.term = submit'[m.source].entry.term
                            /\ Extent(m) >= submit'[m.source].entry.index
    OBVIOUS
  <2>1. /\ Victory(m.term, m.source) \in wins
        /\ Carried(g, m)
        /\ m.task = "submit" =>
             /\ m.term = submit[m.source].entry.term
             /\ Extent(m) >= submit[m.source].entry.index
    BY DEF MessageSound
  <2>2. /\ m.term \in Nat /\ m.prevLogIndex \in Nat /\ m.leaderCommit \in Nat
        /\ m.entries \in Seq(Entry)
    BY <1>1 DEF AppendEntries, Term, Index
  <2>3. Won(g, m.term)
    BY <2>1 DEF Won, Matches, Victory
  <2>4. Carried(h, m)
    BY <2>1, <2>2, <2>3, CarriedOn
  <2>5. m.task = "submit" => Caller(m) = m.source
    BY DEF Caller, IsRequest
  <2>. QED  BY <1>2, <1>5, <2>1, <2>4, <2>5
<1>7. m.type = "AppendReply" /\ m.task = "submit" /\ m.success =>
       /\ m.term = submit'[m.dest].entry.term
       /\ h.acks[m.term][m.source] >= submit'[m.dest].entry.index
  <2>. SUFFICES ASSUME m.type = "AppendReply", m.task = "submit", m.success
                PROVE  /\ m.term = submit'[m.dest].entry.term
                       /\ h.acks[m.term][m.source] >= submit'[m.dest].entry.index
    OBVIOUS
  <2>1. /\ m.term = submit[m.dest].entry.term
        /\ g.acks[m.term][m.source] >= submit[m.dest].entry.index
    BY DEF MessageSound
  <2>2. Caller(m) = m.dest
    BY DEF Caller, IsRequest
  <2>3. m.term \in Nat
    BY <1>1 DEF AppendReply, Term
  <2>4. submit[m.dest].entry.index \in Nat
    BY <1>1, <1>5, <2>2, NodeTypes
  <2>5. h.acks[m.term][m.source] >= submit[m.dest].entry.index
    BY <1>1, <2>1, <2>3, <2>4, AcksGrow DEF GroupInv
  <2>. QED  BY <1>5, <2>1, <2>2, <2>5
<1>. QED  BY <1>3, <1>4, <1>6, <1>7 DEF MessageSound

\* What is left of a call on the network says what the call said.
LEMMA OrphanSound ==
  ASSUME NEW g, NEW m, m \in Message, IsRequest(m), MessageSound(g, m)
  PROVE  MessageSound(g, Orphan(m)) /\ Orphan(m) \in Message /\ Orphan(m).task = "none"
<1>1. Orphan(m) \in Message /\ Orphan(m).task = "none"
  BY OrphanKind
<1>2. CASE m.type = "RequestVote"
  <2>1. m \in RequestVote
    BY <1>2, MessageKinds
  <2>2. /\ Orphan(m).type = m.type /\ Orphan(m).term = m.term /\ Orphan(m).source = m.source
        /\ Orphan(m).lastLogIndex = m.lastLogIndex /\ Orphan(m).lastLogTerm = m.lastLogTerm
    BY <2>1 DEF RequestVote, Orphan
  <2>. QED  BY <1>1, <1>2, <2>2 DEF MessageSound
<1>3. CASE m.type = "AppendEntries"
  <2>1. m \in AppendEntries
    BY <1>3, MessageKinds
  <2>2. /\ Orphan(m).type = m.type /\ Orphan(m).term = m.term /\ Orphan(m).source = m.source
        /\ Orphan(m).prevLogIndex = m.prevLogIndex /\ Orphan(m).prevLogTerm = m.prevLogTerm
        /\ Orphan(m).entries = m.entries /\ Orphan(m).leaderCommit = m.leaderCommit
    BY <2>1 DEF AppendEntries, Orphan
  <2>3. Carried(g, Orphan(m)) <=> Carried(g, m)
    BY <2>2 DEF Carried, Usable, Extent
  <2>. QED  BY <1>1, <1>3, <2>2, <2>3 DEF MessageSound
<1>. QED  BY <1>1, <1>2, <1>3 DEF IsRequest

LEMMA EntryOn ==
  ASSUME NEW g, NEW h, GroupType(g), GroupType(h), Grows(g, h), NEW e \in SubmittedEntry,
         EntrySound(g, e)
  PROVE  EntrySound(h, e)
<1>1. e.term \in Nat /\ e.index \in Nat
  BY DEF SubmittedEntry
<1>2. /\ Direct(g, e.term, e.index) /\ Chosen(g, e.term, e.index)
      /\ g.made[e.term][e.index].command = e.command
  BY DEF EntrySound
<1>3. e.index \in 1 .. Len(g.made[e.term])
  BY <1>2 DEF Direct
<1>4. Chosen(h, e.term, e.index)
  BY <1>1, <1>2, ChosenOn
<1>5. /\ Direct(h, e.term, e.index)
      /\ h.made[e.term][e.index] = g.made[e.term][e.index]
  <2>. DEFINE t == e.term
  <2>1. t \in Nat
    BY <1>1
  <2>. HIDE DEF t
  <2>2. /\ \A j \in 1 .. Len(g.made[t]) : h.made[t][j] = g.made[t][j]
        /\ \A i \in 1 .. Len(g.made[t]) : Direct(h, t, i) <=> Direct(g, t, i)
    BY <2>1, MadeOn
  <2>. QED  BY <1>2, <1>3, <2>2 DEF t
<1>. QED  BY <1>2, <1>4, <1>5 DEF EntrySound

\* A step of node n keeps the invariant when it does for n, the new messages
\* and the new entries.
LEMMA StepSound ==
  ASSUME Inv, Inv', CampaignSafety', Attentive, DiskForward, NEW n \in Node, Frame(n),
         NEW g, NEW h, Sound(g), GroupInv(h), Grows(g, h), OwnTerms(g, h, n), Matches(h)',
         NodeSound(h, n)',
         \A m \in net' :
           \/ m \in net
           \/ \E o \in net : IsRequest(o) /\ m = Orphan(o)
           \/ MessageSound(h, m)',
         \A e \in acked' : e \in acked \/ EntrySound(h, e)
  PROVE  Sound(h)'
<1>1. /\ Matches(g) /\ GroupInv(g) /\ GroupType(g) /\ GroupType(h)
      /\ \A k \in Node : NodeSound(g, k)
      /\ \A m \in net : MessageSound(g, m)
      /\ \A e \in acked : EntrySound(g, e)
  BY DEF Sound, GroupInv
<1>2. \A k \in Node : NodeSound(h, k)'
  BY <1>1, OthersSound
<1>3. ASSUME NEW m \in net'
      PROVE  MessageSound(h, m)'
  <2>1. CASE m \in net
    <3>1. m \in Message /\ MessageSound(g, m)
      BY <1>1, <2>1 DEF Inv, TypeOK, TypeNet
    <3>. QED  BY <1>1, <2>1, <3>1, MessageKept
  <2>2. CASE \E o \in net : IsRequest(o) /\ m = Orphan(o)
    <3>1. PICK o \in net : IsRequest(o) /\ m = Orphan(o)
      BY <2>2
    <3>2. o \in Message /\ MessageSound(g, o)
      BY <1>1 DEF Inv, TypeOK, TypeNet
    <3>3. MessageSound(g, m) /\ m \in Message /\ m.task = "none"
      BY <3>1, <3>2, OrphanSound
    <3>. QED  BY <1>1, <3>3, MessageKept
  <2>. QED  BY <2>1, <2>2
<1>4. ASSUME NEW e \in acked'
      PROVE  EntrySound(h, e)
  <2>1. CASE e \in acked
    <3>1. e \in SubmittedEntry /\ EntrySound(g, e)
      BY <1>1, <2>1 DEF Inv, TypeOK, TypeHistory
    <3>. QED  BY <1>1, <3>1, EntryOn
  <2>. QED  BY <2>1
<1>. QED  BY <1>2, <1>3, <1>4 DEF Sound

-----------------------------------------------------------------------------
(* The group after a step.                                                 *)

LEMMA GroupOf ==
  ASSUME NEW g, Matches(g), NEW v \in Node
  PROVE  /\ g.terms[v] = diskState[v].currentTerm
         /\ g.logs[v] = log[v]
         /\ g.campaigns[v] = IF election[v] = Nil THEN 0 ELSE election[v].term
         /\ g.ballots = ballots /\ g.wins = wins
BY DEF Matches

LEMMA NextGroupOf ==
  ASSUME NEW h, Matches(h)', NEW v \in Node
  PROVE  /\ h.terms[v] = diskState'[v].currentTerm
         /\ h.logs[v] = log'[v]
         /\ h.campaigns[v] = IF election'[v] = Nil THEN 0 ELSE election'[v].term
         /\ h.ballots = ballots' /\ h.wins = wins'
         /\ GroupType(h)
BY DEF Matches

\* Any history makes a group of a state.
HistoryType(made, acks) == made \in [Nat -> Seq(Entry)] /\ acks \in [Nat -> [Node -> Nat]]

LEMMA NextGroup ==
  ASSUME Inv', NEW made, NEW acks, HistoryType(made, acks)
  PROVE  \E h : Matches(h)' /\ h.made = made /\ h.acks = acks
<1>1. PICK h :
        h = [terms |-> [v \in Node |-> diskState'[v].currentTerm],
             logs |-> log',
             campaigns |-> [v \in Node |-> IF election'[v] = Nil THEN 0 ELSE election'[v].term],
             ballots |-> ballots', wins |-> wins', made |-> made, acks |-> acks]
  OBVIOUS
<1>2. /\ h.terms = [v \in Node |-> diskState'[v].currentTerm]
      /\ h.logs = log'
      /\ h.campaigns = [v \in Node |-> IF election'[v] = Nil THEN 0 ELSE election'[v].term]
      /\ h.ballots = ballots' /\ h.wins = wins' /\ h.made = made /\ h.acks = acks
  BY <1>1
<1>3. h.terms \in [Node -> Nat] /\ h.campaigns \in [Node -> Nat]
  BY <1>2, NextNodeTypes
<1>4. log' \in [Node -> Seq(Entry)]
  BY DEF Inv, TypeOK, TypeCore
<1>5. /\ ballots' \subseteq [term : Nat, voter : Node, candidate : Node]
      /\ wins' \subseteq [term : Nat, node : Node]
  BY DEF Inv, TypeOK, TypeHistory, E!Ballot, E!Win
<1>6. GroupType(h)
  BY <1>2, <1>3, <1>4, <1>5 DEF GroupType, HistoryType
<1>. QED  BY <1>2, <1>6 DEF Matches

LEMMA DisksForward ==
  ASSUME Inv, Inv', DiskForward, NEW g, Matches(g), NEW h, Matches(h)'
  PROVE  TermsForward(g, h)
<1>. SUFFICES ASSUME NEW v \in Node
              PROVE  g.terms[v] <= h.terms[v]
  BY DEF TermsForward
<1>1. g.terms[v] = diskState[v].currentTerm /\ h.terms[v] = diskState'[v].currentTerm
  BY GroupOf, NextGroupOf
<1>2. diskState[v].currentTerm \in Nat /\ diskState'[v].currentTerm \in Nat
  BY NodeTypes, NextNodeTypes
<1>3. Follows(diskState[v], diskState'[v])
  BY DEF DiskForward
<1>. QED  BY <1>1, <1>2, <1>3 DEF Follows

\* A step that writes no log and casts no vote.
LEMMA AdvanceStep ==
  ASSUME Inv, Inv', DiskForward, UNCHANGED <<log, ballots, wins>>,
         \A k \in Node : \/ election'[k] = Nil
                         \/ election[k] # Nil /\ election'[k].term = election[k].term,
         NEW g, Matches(g), GroupInv(g)
  PROVE  \E h : /\ Matches(h)' /\ GroupInv(h) /\ Grows(g, h)
                /\ h.made = g.made /\ h.acks = g.acks
<1>1. HistoryType(g.made, g.acks)
  BY DEF GroupInv, GroupType, HistoryType
<1>2. PICK h : Matches(h)' /\ h.made = g.made /\ h.acks = g.acks
  BY <1>1, NextGroup
<1>3. TermsForward(g, h)
  BY <1>2, DisksForward
<1>4. CampaignsEnd(g, h)
  <2>. SUFFICES ASSUME NEW c \in Node
                PROVE  h.campaigns[c] \in {0, g.campaigns[c]}
    BY DEF CampaignsEnd
  <2>. QED  BY <1>2, GroupOf, NextGroupOf
<1>5. h.logs = g.logs /\ h.ballots = g.ballots /\ h.wins = g.wins /\ GroupType(h)
  BY <1>2 DEF Matches
<1>6. Advance(g, h)
  BY <1>2, <1>3, <1>4, <1>5 DEF Advance, SameLogs
<1>. QED  BY <1>2, <1>5, <1>6, AdvanceKeeps

\* A node applies nothing that is not committed.
LEMMA ApplyBound ==
  ASSUME NEW docs, NEW st \in DurableState, NEW l \in Seq(Entry),
         st.lastApplied <= st.commitIndex
  PROVE  /\ StateAfterApply(docs, st, l).commitIndex = st.commitIndex
         /\ StateAfterApply(docs, st, l).lastApplied <= st.commitIndex
         /\ StateAfterApply(docs, st, l).lastApplied >= st.lastApplied
         /\ StateAfterApply(docs, st, l).lastApplied \in Nat
<1>. DEFINE batch == Unapplied(st, l)
<1>1. /\ st.lastApplied \in Nat /\ st.commitIndex \in Nat /\ Len(l) \in Nat
      /\ "lastApplied" \in DOMAIN st
  BY DEF DurableState
<1>2. batch \in Seq(Command)
  BY UnappliedType
<1>3. Len(batch) \in Nat /\ Len(batch) <= st.commitIndex - st.lastApplied
  <2>. DEFINE N == Smaller(st.commitIndex, Len(l)) - st.lastApplied
  <2>1. N \in Int /\ N <= st.commitIndex - st.lastApplied
    BY <1>1 DEF Smaller
  <2>2. DOMAIN batch = 1 .. N
    BY DEF Unapplied
  <2>3. DOMAIN batch = 1 .. Len(batch) /\ Len(batch) \in Nat
    BY <1>2
  <2>. HIDE DEF N, batch
  <2>4. Len(batch) <= N \/ Len(batch) = 0
    BY <2>1, <2>2, <2>3
  <2>. QED  BY <1>1, <2>1, <2>3, <2>4
<1>4. AppliedCount(docs, batch) \in 0 .. Len(batch)
  BY <1>2, AppliedCountType
<1>. HIDE DEF batch
<1>5. /\ StateAfterApply(docs, st, l).lastApplied = st.lastApplied + AppliedCount(docs, batch)
      /\ StateAfterApply(docs, st, l).commitIndex = st.commitIndex
  BY <1>1 DEF StateAfterApply, batch, DurableState
<1>. QED  BY <1>1, <1>3, <1>4, <1>5

LEMMA AppliedSound ==
  ASSUME NEW g, NEW docs, NEW st \in DurableState, NEW l \in Seq(Entry), CommitSound(g, l, st)
  PROVE  /\ CommitSound(g, l, StateAfterApply(docs, st, l))
         /\ StateAfterApply(docs, st, l).currentTerm = st.currentTerm
<1>1. st.lastApplied <= st.commitIndex /\ Committed(g, l, st.commitIndex, st.currentTerm)
  BY DEF CommitSound
<1>2. StateAfterApply(docs, st, l).currentTerm = st.currentTerm
  BY StateAfterApplyType
<1>. QED  BY <1>1, <1>2, ApplyBound DEF CommitSound

\* What a leader sends: its log from some position on, and how far it is committed.
LEMMA PayloadSound ==
  ASSUME NEW g, GroupInv(g), NEW n \in Node, NEW p \in Peers(n),
         NEW task \in {"heartbeat", "submit"}, NEW gen \in Nat, NEW next \in Nat \ {0},
         NEW st \in DurableState, NEW l \in Seq(Entry),
         Victory(st.currentTerm, n) \in wins', l = g.made[st.currentTerm],
         CommitSound(g, l, st), role'[n] = "leader",
         task = "submit" =>
           submit'[n].entry.term = st.currentTerm /\ submit'[n].entry.index <= Len(l),
         task = "submit" => submit'[n].entry.index \in Nat,
         NEW m, m = AppendPayload(n, p, task, gen, next, st, l)
  PROVE  MessageSound(g, m)'
<1>1. /\ m.type = "AppendEntries" /\ m.task = task /\ m.source = n
      /\ m.term = st.currentTerm /\ m.prevLogIndex = next - 1
      /\ m.prevLogTerm = TermAt(l, next - 1) /\ m.entries = EntriesFrom(l, next)
      /\ m.leaderCommit = st.commitIndex
  BY DEF AppendPayload
<1>2. Caller(m) = n
  BY <1>1 DEF Caller, IsRequest
<1>3. /\ Len(l) \in Nat /\ st.currentTerm \in Nat /\ st.commitIndex \in Nat
      /\ next \in Nat /\ next >= 1 /\ GroupType(g)
  BY DEF DurableState, GroupInv
<1>4. ASSUME next <= Len(l) + 1
      PROVE  /\ Len(m.entries) = Len(l) + 1 - next
             /\ \A k \in 1 .. Len(m.entries) : m.entries[k] = l[next - 1 + k]
  BY <1>1, <1>3, <1>4, SMTT(20) DEF EntriesFrom
<1>5. ASSUME next > Len(l) + 1
      PROVE  Len(m.entries) = 0 /\ ~Usable(m)
  <2>1. m.entries = <<>>
    BY <1>1, <1>3, <1>5 DEF EntriesFrom
  <2>2. m.prevLogTerm = 0 /\ m.prevLogIndex # 0
    BY <1>1, <1>3, <1>5 DEF TermAt
  <2>. QED  BY <2>1, <2>2 DEF Usable
<1>6. Extent(m) >= Len(l)
  <2>1. CASE next <= Len(l) + 1
    BY <1>1, <1>3, <1>4, <2>1 DEF Extent
  <2>2. CASE next > Len(l) + 1
    BY <1>1, <1>3, <1>5, <2>2 DEF Extent
  <2>. QED  BY <1>3, <2>1, <2>2
<1>7. Carried(g, m)
  <2>. SUFFICES ASSUME Usable(m)
                PROVE  Carried(g, m)
    BY DEF Carried
  <2>1. next <= Len(l) + 1
    BY <1>3, <1>5
  <2>2. Extent(m) = Len(l)
    BY <2>1, <1>1, <1>3, <1>4, SMTT(20) DEF Extent
  <2>3. m.prevLogIndex > 0 => m.prevLogTerm = l[m.prevLogIndex].term
    BY <2>1, <1>1, <1>3 DEF TermAt
  <2>4. \A k \in Extent(m) + 1 .. Len(l) : l[k].term = m.term
    BY <2>2, <1>3
  <2>5. Committed(g, l, st.commitIndex, st.currentTerm)
    BY DEF CommitSound
  <2>6. st.commitIndex <= Len(l)
    BY <2>5, <1>3, CommittedWithin
  <2>7. \A k \in 1 .. Len(m.entries) : m.entries[k] = l[m.prevLogIndex + k]
    BY <2>1, <1>1, <1>4
  <2>. QED  BY <2>2, <2>3, <2>4, <2>5, <2>6, <2>7, <1>1, <1>3, SMTT(20) DEF Carried
<1>8. task = "submit" => Extent(m) >= submit'[n].entry.index
  <2>1. Extent(m) \in Int
    <3>1. Len(m.entries) \in Nat
      BY <1>3, <1>4, <1>5
    <3>. QED  BY <3>1, <1>1, <1>3 DEF Extent
  <2>. QED  BY <2>1, <1>3, <1>6
<1>. QED  BY <1>1, <1>2, <1>7, <1>8 DEF MessageSound

-----------------------------------------------------------------------------
(* The node that moves.                                                    *)

LEMMA LeftoversOld ==
  ASSUME NEW calls \in SUBSET net, NEW left \in Leftovers(calls), NEW m \in left
  PROVE  \E o \in net : IsRequest(o) /\ m = Orphan(o)
BY DEF Leftovers

LEMMA AbandonOld ==
  ASSUME NEW calls \in SUBSET net, Abandon(calls), NEW m \in net'
  PROVE  m \in net \/ \E o \in net : IsRequest(o) /\ m = Orphan(o)
BY LeftoversOld DEF Abandon

\* The node goes on in its role and term.
LEMMA RoleStill ==
  ASSUME NEW n \in Node, NEW g, NEW h, RoleSound(g, n), wins \subseteq wins',
         role'[n] = role[n], leaderId'[n] = leaderId[n],
         state'[n].currentTerm = state[n].currentTerm, log'[n] = log[n],
         role[n] = "leader" => h.made[state[n].currentTerm] = g.made[state[n].currentTerm],
         beats'[n] = {} \/ beats[n] # {} \/ role[n] = "leader",
         election'[n] = Nil \/ (election[n] # Nil /\ election'[n].term = election[n].term)
  PROVE  RoleSound(h, n)'
BY DEF RoleSound

\* The node is a follower with no task of its own.
LEMMA RoleFollows ==
  ASSUME NEW n \in Node, NEW h, role'[n] = "follower", Undisturbed(n)',
         leaderId'[n] # Nil => Victory(state'[n].currentTerm, leaderId'[n]) \in wins'
  PROVE  RoleSound(h, n)' /\ SubmissionSound(h, n)'
BY DEF RoleSound, SubmissionSound, Undisturbed

LEMMA SubmissionStill ==
  ASSUME Inv, NEW n \in Node, NEW g, NEW h, GroupType(g), GroupType(h), Grows(g, h),
         SubmissionSound(g, n),
         submit'[n] = submit[n], role'[n] = role[n],
         state'[n].currentTerm = state[n].currentTerm
  PROVE  SubmissionSound(h, n)'
<1>. SUFFICES ASSUME submit[n] # Nil
              PROVE  SubmissionSound(h, n)'
  BY DEF SubmissionSound
<1>1. /\ role[n] = "leader" /\ submit[n].entry.term = state[n].currentTerm
      /\ submit[n].entry.index > 0
      /\ n \notin submit[n].replicated
      /\ \A v \in submit[n].replicated \cup {n} :
           g.acks[submit[n].entry.term][v] >= submit[n].entry.index
  BY DEF SubmissionSound
<1>2. /\ submit[n].entry.term \in Nat /\ submit[n].entry.index \in Nat
      /\ submit[n].replicated \in SUBSET Node
  BY NodeTypes
<1>3. \A v \in submit[n].replicated \cup {n} :
        h.acks[submit[n].entry.term][v] >= submit[n].entry.index
  BY <1>1, <1>2, AcksGrow
<1>. QED  BY <1>1, <1>3 DEF SubmissionSound

LEMMA CommitStill ==
  ASSUME Inv, Inv', NEW n \in Node, NEW g, NEW h, GroupType(g), GroupType(h), Grows(g, h),
         NodeSound(g, n), log'[n] = log[n], state'[n] = state[n], diskState'[n] = diskState[n]
  PROVE  CommitSound(h, log[n], state[n])' /\ CommitSound(h, log[n], diskState[n])'
<1>1. CommitSound(g, log[n], state[n]) /\ CommitSound(g, log[n], diskState[n])
  BY DEF NodeSound
<1>2. /\ state[n] \in DurableState /\ diskState[n] \in DurableState /\ log[n] \in Seq(Entry)
      /\ state[n].currentTerm <= state[n].currentTerm
      /\ diskState[n].currentTerm <= diskState[n].currentTerm
  BY NodeTypes
<1>3. CommitSound(h, log[n], state[n])
  BY <1>1, <1>2, CommitSoundOn
<1>4. CommitSound(h, log[n], diskState[n])
  BY <1>1, <1>2, CommitSoundOn
<1>5. CommitSound(h, log'[n], state'[n]) /\ CommitSound(h, log'[n], diskState'[n])
  BY <1>3, <1>4
<1>. QED  BY <1>5

\* The node saves its record with a higher term.
LEMMA CommitObserved ==
  ASSUME Inv, Inv', NEW n \in Node, NEW g, NEW h, GroupType(g), GroupType(h), Grows(g, h),
         NodeSound(g, n), log'[n] = log[n], diskState'[n] = state'[n],
         state'[n].commitIndex = state[n].commitIndex,
         state'[n].lastApplied = state[n].lastApplied,
         state[n].currentTerm <= state'[n].currentTerm
  PROVE  CommitSound(h, log[n], state[n])' /\ CommitSound(h, log[n], diskState[n])'
<1>1. CommitSound(g, log[n], state[n])
  BY DEF NodeSound
<1>2. state[n] \in DurableState /\ state'[n] \in DurableState /\ log[n] \in Seq(Entry)
  BY NodeTypes, NextNodeTypes
<1>3. CommitSound(h, log[n], state'[n])
  BY <1>1, <1>2, CommitSoundOn
<1>4. CommitSound(h, log'[n], state'[n]) /\ CommitSound(h, log'[n], diskState'[n])
  BY <1>3
<1>. QED  BY <1>4

LEMMA ObserveKeeps ==
  ASSUME NEW st \in DurableState, NEW term \in Nat
  PROVE  /\ Observe(st, term).commitIndex = st.commitIndex
         /\ Observe(st, term).lastApplied = st.lastApplied
         /\ Observe(st, term).currentTerm >= st.currentTerm
         /\ Observe(st, term).currentTerm >= term
         /\ term >= st.currentTerm => Observe(st, term).currentTerm = term
         /\ Observe(st, term) \in DurableState
<1>1. /\ st.currentTerm \in Nat
      /\ {"commitIndex", "lastApplied", "currentTerm", "votedFor"} = DOMAIN st
  BY DEF DurableState
<1>2. CASE term > st.currentTerm
  <2>1. Observe(st, term) = [st EXCEPT !.currentTerm = term, !.votedFor = Nil]
    BY <1>2 DEF Observe
  <2>. QED  BY <1>1, <1>2, <2>1, ObserveType
<1>3. CASE ~(term > st.currentTerm)
  BY <1>1, <1>3 DEF Observe
<1>. QED  BY <1>2, <1>3

-----------------------------------------------------------------------------
(* The steps of the heartbeats.                                            *)

\* Nothing changes but the heartbeat tasks, the progress and the network.
LEMMA BeatSound ==
  ASSUME Stepping, NEW n \in Node,
         UNCHANGED <<core, election, submit, disk, history>>,
         \A k \in Node \ {n} : beats'[k] = beats[k],
         beats'[n] = {} \/ beats[n] # {} \/ role[n] = "leader",
         NEW g, Sound(g),
         \A m \in net' :
           \/ m \in net
           \/ \E o \in net : IsRequest(o) /\ m = Orphan(o)
           \/ MessageSound(g, m)'
  PROVE  SafetyInv'
<1>1. /\ Matches(g) /\ GroupInv(g) /\ GroupType(g) /\ NodeSound(g, n)
  BY DEF Sound, GroupInv
<1>2. UNCHANGED <<state, log, role, leaderId, election, submit, diskState, ballots, wins, acked>>
  BY DEF core, disk, history
<1>3. Frame(n)
  BY <1>2 DEF Frame, SameSubmission
<1>4. Matches(g)'
  BY <1>1, <1>2 DEF Matches
<1>5. GroupType(g) /\ Advance(g, g)
  BY <1>1, VoterShape DEF Advance, TermsForward, CampaignsEnd, SameLogs
<1>6. Grows(g, g)
  BY <1>1, <1>5, AdvanceKeeps
<1>7. CommitSound(g, log[n], state[n])' /\ CommitSound(g, log[n], diskState[n])'
  BY <1>1, <1>2 DEF NodeSound, CommitSound
<1>8. RoleSound(g, n)' /\ SubmissionSound(g, n)'
  BY <1>1, <1>2 DEF NodeSound, RoleSound, SubmissionSound
<1>9. NodeSound(g, n)'
  BY <1>7, <1>8 DEF NodeSound
<1>10. OwnTerms(g, g, n)
  BY DEF OwnTerms
<1>11. Sound(g)'
  BY <1>1, <1>2, <1>3, <1>4, <1>6, <1>9, <1>10, StepSound DEF Stepping
<1>. QED  BY <1>11 DEF SafetyInv

LEMMA HeartbeatSound ==
  ASSUME Stepping, NEW n \in Node, Heartbeat(n), NEW g, Sound(g)
  PROVE  SafetyInv'
<1>1. UNCHANGED <<core, election, submit, disk, history, net>> /\ role[n] = "leader"
  BY DEF Heartbeat
<1>2. \A k \in Node \ {n} : beats'[k] = beats[k]
  BY DEF Heartbeat, Stepping, Inv, TypeOK, TypeTasks
<1>. QED  BY <1>1, <1>2, BeatSound

LEMMA HeartbeatCallFailsSound ==
  ASSUME Stepping, NEW n \in Node, NEW m \in net, HeartbeatCallFails(n, m), NEW g, Sound(g)
  PROVE  SafetyInv'
<1>1. /\ UNCHANGED <<core, election, submit, disk, history, beats>>
      /\ Abandon({m})
  BY DEF HeartbeatCallFails, tasks
<1>2. \A k \in net' : k \in net \/ \E o \in net : IsRequest(o) /\ k = Orphan(o)
  BY <1>1, AbandonOld
<1>. QED  BY <1>1, <1>2, BeatSound

\* What a leader sends of its log as it is, is sound.
LEMMA LeaderPayload ==
  ASSUME Stepping, NEW n \in Node, role[n] = "leader",
         UNCHANGED <<role, wins, submit>>,
         NEW g, Sound(g), NEW p \in Peers(n), NEW task \in {"heartbeat", "submit"},
         task = "submit" => submit[n] # Nil,
         NEW gen \in Nat, NEW next \in Nat \ {0},
         NEW m, m = AppendPayload(n, p, task, gen, next, state[n], log[n])
  PROVE  MessageSound(g, m)'
<1>1. GroupInv(g) /\ NodeSound(g, n)
  BY DEF Sound
<1>2. /\ Victory(state[n].currentTerm, n) \in wins' /\ log[n] = g.made[state[n].currentTerm]
      /\ CommitSound(g, log[n], state[n])
  BY <1>1 DEF NodeSound, RoleSound
<1>3. state[n] \in DurableState /\ log[n] \in Seq(Entry)
  BY NodeTypes DEF Stepping
<1>4. submit[n] # Nil =>
        /\ submit[n].entry.term = state[n].currentTerm /\ submit[n].entry.index = Len(log[n])
        /\ submit[n].entry.index \in Nat
  BY <1>1, NodeTypes DEF NodeSound, SubmissionSound, Stepping, SubmissionInv, EntryLast
<1>5. submit[n] # Nil => submit[n].entry.index <= Len(log[n])
  BY <1>3, <1>4
<1>6. /\ task = "submit" =>
            submit'[n].entry.term = state[n].currentTerm /\ submit'[n].entry.index <= Len(log[n])
      /\ task = "submit" => submit'[n].entry.index \in Nat
      /\ role'[n] = "leader"
  BY <1>4, <1>5
<1>. QED  BY <1>1, <1>2, <1>3, <1>6, PayloadSound

LEMMA SendHeartbeatSound ==
  ASSUME Stepping, NEW n \in Node, NEW p \in Peers(n), SendHeartbeat(n, p), NEW g, Sound(g)
  PROVE  SafetyInv'
<1>1. UNCHANGED <<core, election, submit, disk, history>> /\ p \in beats[n]
  BY DEF SendHeartbeat
<1>2. \A k \in Node \ {n} : beats'[k] = beats[k]
  BY DEF SendHeartbeat, Stepping, Inv, TypeOK, TypeTasks
<1>3. role[n] = "leader" /\ NodeSound(g, n)
  BY <1>1 DEF Sound, NodeSound, RoleSound
<1>4. progress[n] \in Seq([Peers(n) -> Progress]) /\ progress[n] # <<>>
  BY <1>3 DEF Stepping, Inv, TypeOK, TypeTasks, CallsTracked, ReplicatorsTrack
<1>5. Current(n) \in 1 .. Len(progress[n])
  BY <1>4, LastOfNonEmpty DEF Current
<1>6. Current(n) \in Nat /\ progress[n][Current(n)][p].nextIndex \in Nat \ {0}
  BY <1>4, <1>5, PositionType
<1>7. PICK m : m = AppendPayload(n, p, "heartbeat", Current(n),
                     progress[n][Current(n)][p].nextIndex, state[n], log[n])
  OBVIOUS
<1>8. MessageSound(g, m)'
  BY <1>1, <1>3, <1>6, <1>7, LeaderPayload DEF core, history
<1>9. net' = net \cup {m}
  BY <1>7 DEF SendHeartbeat
<1>. QED  BY <1>1, <1>2, <1>3, <1>8, <1>9, BeatSound

\* A rejected payload is rebuilt by a node that still leads.
LEMMA RetrySound ==
  ASSUME Stepping, NEW n \in Node, NEW m \in net, m.type = "AppendReply", m.dest = n,
         Retry(n, m), UNCHANGED <<log, election, beats, diskLog, crashes, ballots, wins>>,
         NEW g, Sound(g)
  PROVE  SafetyInv'
<1>1. /\ m.source \in Peers(n) /\ m.gen \in 1 .. Len(progress[n]) /\ m.matchIndex \in Nat
      /\ m.task \in {"heartbeat", "submit"} /\ Caller(m) = n
  BY ReplyKind DEF Stepping
<1>2. /\ UNCHANGED <<core, election, submit, disk, history, beats>>
      /\ net' = (net \ {m}) \cup {RetryPayload(n, m)}
  BY DEF Retry, core, disk, history
<1>3. m.task = "submit" => submit[n] # Nil
  BY <1>1 DEF Stepping, Inv, CallsTracked, SubmitAwaits
<1>4. role[n] = "leader"
  BY <1>1, <1>3 DEF Sound, MessageSound, NodeSound, SubmissionSound
<1>5. /\ ProgressAfter(n, m)[n] \in Seq([Peers(n) -> Progress])
      /\ m.gen \in 1 .. Len(ProgressAfter(n, m)[n])
  BY <1>1, ProgressAfterType DEF Stepping, Inv, TypeOK
<1>6. m.gen \in Nat /\ ProgressAfter(n, m)[n][m.gen][m.source].nextIndex \in Nat \ {0}
  BY <1>1, <1>5, PositionType
<1>7. PICK c : c = RetryPayload(n, m)
  OBVIOUS
<1>8. MessageSound(g, c)'
  BY <1>1, <1>2, <1>3, <1>4, <1>6, <1>7, LeaderPayload DEF RetryPayload, core, history
<1>. QED  BY <1>2, <1>4, <1>7, <1>8, BeatSound

\* The node takes over a higher term as a follower, with no log written.
LEMMA DeposedSound ==
  ASSUME Stepping, NEW n \in Node, NEW term \in Nat, term > state[n].currentTerm,
         state' = [state EXCEPT ![n] = Observe(@, term)],
         diskState' = [diskState EXCEPT ![n] = Observe(state[n], term)],
         role' = [role EXCEPT ![n] = "follower"],
         leaderId'[n] = Nil,
         election'[n] = Nil \/ election'[n] = election[n],
         \A k \in Node \ {n} : /\ leaderId'[k] = leaderId[k] /\ election'[k] = election[k]
                               /\ beats'[k] = beats[k] /\ submit'[k] = submit[k],
         UNCHANGED <<log, submit, ballots, wins, acked>>,
         \A m \in net' : m \in net \/ \E o \in net : IsRequest(o) /\ m = Orphan(o),
         NEW g, Sound(g)
  PROVE  SafetyInv'
<1>1. /\ Inv /\ Inv' /\ DiskForward /\ Attentive /\ CampaignSafety'
      /\ Matches(g) /\ GroupInv(g) /\ GroupType(g) /\ NodeSound(g, n)
  BY DEF Sound, Stepping, GroupInv
<1>2. PICK st \in DurableState : st = Observe(state[n], term)
  BY <1>1, Observed
<1>3. /\ st.currentTerm > state[n].currentTerm
      /\ st.commitIndex = state[n].commitIndex /\ st.lastApplied = state[n].lastApplied
  <2>1. state[n] \in DurableState /\ state[n].currentTerm \in Nat
    BY <1>1, NodeTypes
  <2>2. /\ st.commitIndex = state[n].commitIndex /\ st.lastApplied = state[n].lastApplied
        /\ st.currentTerm = term
    BY <1>2, <2>1, ObserveKeeps
  <2>. QED  BY <2>1, <2>2
<1>4. /\ state'[n] = st /\ diskState'[n] = st /\ role'[n] = "follower"
      /\ \A k \in Node \ {n} :
           state'[k] = state[k] /\ diskState'[k] = diskState[k] /\ role'[k] = role[k]
  BY <1>1, <1>2 DEF Inv, TypeOK, TypeCore
<1>5. Undisturbed(n)'
  BY <1>1, <1>3, <1>4, NodeTypes, NextNodeTypes DEF Attentive
<1>6. Frame(n)
  BY <1>4 DEF Frame, SameSubmission
<1>7. PICK h : Matches(h)' /\ GroupInv(h) /\ Grows(g, h) /\ h.made = g.made /\ h.acks = g.acks
  BY <1>1, AdvanceStep
<1>8. RoleSound(h, n)' /\ SubmissionSound(h, n)'
  BY <1>4, <1>5, RoleFollows
<1>9. CommitSound(h, log[n], state[n])' /\ CommitSound(h, log[n], diskState[n])'
  <2>1. GroupType(h) /\ state[n].currentTerm <= state'[n].currentTerm
    BY <1>1, <1>3, <1>4, <1>7, NodeTypes, NextNodeTypes DEF GroupInv
  <2>. QED  BY <2>1, <1>1, <1>3, <1>4, <1>7, CommitObserved
<1>10. NodeSound(h, n)' /\ OwnTerms(g, h, n)
  BY <1>7, <1>8, <1>9 DEF NodeSound, OwnTerms
<1>11. Sound(h)'
  BY <1>1, <1>6, <1>7, <1>10, StepSound
<1>. QED  BY <1>11 DEF SafetyInv

LEMMA HandleHeartbeatReplySound ==
  ASSUME Stepping, NEW n \in Node, NEW m \in net, HandleHeartbeatReply(n, m), NEW g, Sound(g)
  PROVE  SafetyInv'
<1>1. /\ m.type = "AppendReply" /\ m.dest = n
      /\ UNCHANGED <<log, election, beats, diskLog, crashes, ballots, wins>>
  BY DEF HandleHeartbeatReply
<1>2. CASE EndHeartbeat(n, m)
  <2>1. UNCHANGED <<core, election, submit, disk, history, beats>> /\ net' = net \ {m}
    BY <1>1, <1>2 DEF EndHeartbeat, core, disk, history
  <2>. QED  BY <2>1, BeatSound
<1>3. CASE DeposedByHeartbeat(n, m)
  <2>1. m.term \in Nat /\ m.term > state[n].currentTerm
    BY <1>1, <1>3, ReplyKind DEF Stepping, DeposedByHeartbeat, Deposes
  <2>2. /\ leaderId'[n] = Nil
        /\ \A k \in Node \ {n} : leaderId'[k] = leaderId[k]
    BY <1>3 DEF DeposedByHeartbeat, StepDown, Stepping, Inv, TypeOK, TypeCore
  <2>. QED  BY <1>1, <1>3, <2>1, <2>2, DeposedSound DEF DeposedByHeartbeat, StepDown
<1>4. CASE Retry(n, m)
  BY <1>1, <1>4, RetrySound
<1>. QED  BY <1>2, <1>3, <1>4 DEF HandleHeartbeatReply

-----------------------------------------------------------------------------
(* The steps of the elections.                                             *)

\* A campaign goes on or ends: no log is written and no term changes.
LEMMA AwaitSound ==
  ASSUME Stepping, NEW n \in Node, NEW votes \in SUBSET Node, NEW m,
         election[n] # Nil, AwaitVotes(n, votes, m),
         UNCHANGED <<log, beats, submit, diskLog, store, crashes, acked>>,
         \A k \in net' : k \in net \/ \E o \in net : IsRequest(o) /\ k = Orphan(o),
         NEW g, Sound(g)
  PROVE  SafetyInv'
<1>1. /\ Inv /\ Inv' /\ DiskForward /\ Attentive /\ CampaignSafety'
      /\ Matches(g) /\ GroupInv(g) /\ GroupType(g) /\ NodeSound(g, n)
  BY DEF Sound, Stepping, GroupInv
<1>2. UNCHANGED <<state, role, leaderId, progress, diskState, ballots, wins>>
  BY DEF AwaitVotes
<1>3. /\ \A k \in Node \ {n} : election'[k] = election[k]
      /\ election'[n] = Nil \/ election'[n].term = election[n].term
  <2>1. election[n] \in Campaign /\ election \in [Node -> {Nil} \cup Campaign]
    BY <1>1, NodeTypes DEF Inv, TypeOK, TypeTasks
  <2>. QED  BY <2>1 DEF AwaitVotes, Campaign
<1>4. Frame(n)
  BY <1>2, <1>3 DEF Frame, SameSubmission
<1>5. PICK h : Matches(h)' /\ GroupInv(h) /\ Grows(g, h) /\ h.made = g.made /\ h.acks = g.acks
  <2>1. \A k \in Node : election'[k] = Nil
                        \/ (election[k] # Nil /\ election'[k].term = election[k].term)
    BY <1>3
  <2>. QED  BY <1>1, <1>2, <2>1, AdvanceStep
<1>6. GroupType(h)
  BY <1>5 DEF GroupInv
<1>7. CommitSound(h, log[n], state[n])' /\ CommitSound(h, log[n], diskState[n])'
  BY <1>1, <1>2, <1>5, <1>6, CommitStill
<1>8. RoleSound(h, n)'
  BY <1>1, <1>2, <1>3, <1>5, RoleStill DEF NodeSound
<1>9. SubmissionSound(h, n)'
  BY <1>1, <1>2, <1>5, <1>6, SubmissionStill DEF NodeSound
<1>10. NodeSound(h, n)' /\ OwnTerms(g, h, n)
  BY <1>5, <1>7, <1>8, <1>9 DEF NodeSound, OwnTerms
<1>11. Sound(h)'
  BY <1>1, <1>4, <1>5, <1>10, StepSound
<1>. QED  BY <1>11 DEF SafetyInv

LEMMA VoteCallFailsSound ==
  ASSUME Stepping, NEW n \in Node, NEW m \in net, VoteCallFails(n, m), NEW g, Sound(g)
  PROVE  SafetyInv'
<1>1. election[n] # Nil
  BY DEF VoteCallFails, Calls, Stepping, Inv, CallsTracked, ElectionAwaits
<1>2. election[n].votes \in SUBSET Node
  BY <1>1, NodeTypes DEF Stepping, Campaign
<1>3. \A k \in net' : k \in net \/ \E o \in net : IsRequest(o) /\ k = Orphan(o)
  BY AbandonOld DEF VoteCallFails
<1>. QED  BY <1>1, <1>2, <1>3, AwaitSound DEF VoteCallFails

\* What is known of a vote that comes back.
LEMMA VoteBack ==
  ASSUME Stepping, NEW n \in Node, NEW m \in net, m.type = "VoteReply", m.dest = n,
         NEW g, Sound(g)
  PROVE  /\ election[n] # Nil /\ role[n] = "candidate" /\ leaderId[n] = Nil
         /\ election[n].term = state[n].currentTerm /\ election[n].term \in Nat
         /\ election[n].term > 0
         /\ m.term \in Nat /\ m.task = "election"
         /\ Votes(n, m) \in SUBSET Node
         /\ \A v \in Votes(n, m) : Vote(election[n].term, v, n) \in ballots
<1>1. m \in VoteReply /\ m.source \in Node
  BY MessageKinds DEF Stepping, Inv, TypeOK, TypeNet
<1>2. m.task = "election" /\ m.term \in Nat /\ Caller(m) = n
  BY <1>1 DEF VoteReply, Term, Caller, IsRequest
<1>3. election[n] # Nil
  BY <1>2 DEF Stepping, Inv, CallsTracked, ElectionAwaits
<1>4. RoleSound(g, n)
  BY DEF Sound, NodeSound
<1>5. election[n].term \in Nat /\ election[n] \in Campaign
  BY <1>3, NodeTypes DEF Stepping
<1>6. \A v \in election[n].votes : Vote(election[n].term, v, n) \in ballots
  BY <1>3 DEF Stepping, ElectionInv, CountedVotesCast, Ballot, Vote
<1>7. m.granted => Vote(election[n].term, m.source, n) \in ballots
  BY <1>2 DEF Stepping, ElectionInv, CampaignCalls, CampaignCall, Ballot, Vote
<1>8. /\ Votes(n, m) \in SUBSET Node
      /\ \A v \in Votes(n, m) : Vote(election[n].term, v, n) \in ballots
  BY <1>1, <1>5, <1>6, <1>7 DEF Votes, Campaign
<1>. QED  BY <1>2, <1>3, <1>4, <1>5, <1>8 DEF RoleSound

LEMMA LoseElectionSound ==
  ASSUME Stepping, NEW n \in Node, NEW m \in net, m.type = "VoteReply", m.dest = n,
         LoseElection(n, m), UNCHANGED <<log, beats, submit, diskLog, store, crashes, acked>>,
         NEW g, Sound(g)
  PROVE  SafetyInv'
<1>1. m.term \in Nat /\ leaderId[n] = Nil /\ m.term > state[n].currentTerm
  BY VoteBack DEF LoseElection
<1>2. \A k \in net' : k \in net \/ \E o \in net : IsRequest(o) /\ k = Orphan(o)
  BY AbandonOld DEF LoseElection, Calls
<1>3. election'[n] = Nil /\ \A k \in Node \ {n} : election'[k] = election[k]
  BY DEF LoseElection, Stepping, Inv, TypeOK, TypeTasks
<1>. QED  BY <1>1, <1>2, <1>3, DeposedSound DEF LoseElection

\* What a leader that was just elected holds.
LEMMA NewLeader ==
  ASSUME NEW n \in Node, NEW h, role'[n] = "leader", leaderId'[n] = n, Undisturbed(n)',
         Victory(state'[n].currentTerm, n) \in wins',
         log'[n] = h.made[state'[n].currentTerm]
  PROVE  RoleSound(h, n)' /\ SubmissionSound(h, n)'
BY DEF RoleSound, SubmissionSound, Undisturbed

LEMMA WinElectionSound ==
  ASSUME Stepping, NEW n \in Node, NEW m \in net, m.type = "VoteReply", m.dest = n,
         WinElection(n, m), UNCHANGED <<log, beats, submit, diskLog, store, crashes, acked>>,
         NEW g, Sound(g)
  PROVE  SafetyInv'
<1>. DEFINE u == election[n].term
            Q == Votes(n, m)
<1>1. /\ Inv /\ Inv' /\ DiskForward /\ Attentive /\ CampaignSafety'
      /\ Matches(g) /\ GroupInv(g) /\ GroupType(g) /\ NodeSound(g, n)
  BY DEF Sound, Stepping, GroupInv
<1>2. /\ election[n] # Nil /\ role[n] = "candidate"
      /\ u = state[n].currentTerm /\ u \in Nat /\ u > 0
      /\ Q \in SUBSET Node /\ \A v \in Q : Vote(u, v, n) \in ballots
  BY VoteBack
<1>3. /\ UNCHANGED <<state, diskState, ballots, log, beats, submit, acked>>
      /\ election' = [election EXCEPT ![n] = Nil] /\ Abandon(Calls(n, "election"))
      /\ BecomeLeader(n, u) /\ Cardinality(Q) >= Majority
  BY DEF WinElection
<1>. HIDE DEF u, Q
<1>4. /\ election'[n] = Nil /\ role'[n] = "leader" /\ leaderId'[n] = n
      /\ \A k \in Node \ {n} :
           election'[k] = election[k] /\ role'[k] = role[k] /\ leaderId'[k] = leaderId[k]
      /\ wins' = wins \cup {Victory(u, n)}
  BY <1>1, <1>3 DEF BecomeLeader, Inv, TypeOK, TypeCore, TypeTasks, Victory
<1>5. Frame(n)
  BY <1>3, <1>4 DEF Frame, SameSubmission
<1>6. HistoryType([g.made EXCEPT ![u] = log[n]], g.acks)
  BY <1>1, <1>2, NodeTypes DEF GroupType, HistoryType
<1>7. PICK h : Matches(h)' /\ h.made = [g.made EXCEPT ![u] = log[n]] /\ h.acks = g.acks
  BY <1>1, <1>6, NextGroup
<1>8. GroupType(h)
  BY <1>7 DEF Matches
<1>9. /\ g.campaigns[n] = u /\ g.logs[n] = log[n] /\ g.ballots = ballots /\ g.wins = wins
  BY <1>1, <1>2, GroupOf DEF u
<1>10. Win(g, h, n)
  <2>1. Q \in Majorities
    BY <1>2, <1>3 DEF Majorities
  <2>2. \A w \in g.wins : w.term = u => w.node = n
    <3>. SUFFICES ASSUME NEW w \in wins, w.term = u
                  PROVE  w.node = n
      BY <1>9
    <3>1. w \in wins' /\ Victory(u, n) \in wins'
      BY <1>4
    <3>2. Victory(u, n).term = u /\ Victory(u, n).node = n
      BY DEF Victory
    <3>. QED  BY <1>1, <3>1, <3>2 DEF CampaignSafety, E!OneWinnerPerTerm
  <2>3. h.terms = g.terms /\ h.logs = g.logs /\ h.ballots = g.ballots
    BY <1>1, <1>3, <1>7 DEF Matches
  <2>4. h.campaigns = [g.campaigns EXCEPT ![n] = 0]
    BY <1>1, <1>4, <1>7 DEF Matches
  <2>5. h.wins = g.wins \cup {Victory(u, n)}
    BY <1>4, <1>7, <1>9 DEF Matches
  <2>. QED  BY <1>2, <1>7, <1>9, <2>1, <2>2, <2>3, <2>4, <2>5 DEF Win
<1>11. GroupInv(h) /\ Grows(g, h)
  BY <1>1, <1>8, <1>10, WinKeeps
<1>12. h.made[u] = log[n] /\ \A t \in Nat \ {u} : h.made[t] = g.made[t]
  BY <1>1, <1>2, <1>7 DEF GroupType
<1>13. OwnTerms(g, h, n)
  BY <1>4, <1>12 DEF OwnTerms
<1>14. Undisturbed(n)'
  BY <1>1, <1>2, <1>4 DEF Attentive
<1>15. RoleSound(h, n)' /\ SubmissionSound(h, n)'
  <2>1. Victory(state'[n].currentTerm, n) \in wins' /\ log'[n] = h.made[state'[n].currentTerm]
    BY <1>2, <1>3, <1>4, <1>12
  <2>. QED  BY <1>4, <1>14, <2>1, NewLeader
<1>16. CommitSound(h, log[n], state[n])' /\ CommitSound(h, log[n], diskState[n])'
  BY <1>1, <1>3, <1>8, <1>11, CommitStill
<1>17. NodeSound(h, n)'
  BY <1>15, <1>16 DEF NodeSound
<1>18. \A k \in net' : k \in net \/ \E o \in net : IsRequest(o) /\ k = Orphan(o)
  BY <1>3, AbandonOld DEF Calls
<1>19. Sound(h)'
  BY <1>1, <1>3, <1>5, <1>7, <1>11, <1>13, <1>17, <1>18, StepSound
<1>. QED  BY <1>19 DEF SafetyInv

LEMMA HandleVoteReplySound ==
  ASSUME Stepping, NEW n \in Node, NEW m \in net, HandleVoteReply(n, m), NEW g, Sound(g)
  PROVE  SafetyInv'
<1>1. /\ m.type = "VoteReply" /\ m.dest = n
      /\ UNCHANGED <<log, beats, submit, diskLog, store, crashes, acked>>
  BY DEF HandleVoteReply
<1>2. CASE CountVote(n, m)
  <2>1. election[n] # Nil /\ Votes(n, m) \in SUBSET Node
    BY <1>1, VoteBack
  <2>2. AwaitVotes(n, Votes(n, m), m) /\ net' = net \ {m}
    BY <1>2 DEF CountVote
  <2>. QED  BY <1>1, <2>1, <2>2, AwaitSound
<1>. QED  BY <1>1, <1>2, LoseElectionSound, WinElectionSound DEF HandleVoteReply

LEMMA VoteRecord ==
  ASSUME NEW st \in DurableState, NEW l, NEW m, m.term \in Nat, m.source \in Node
  PROVE  /\ StateAfterVote(st, l, m).commitIndex = st.commitIndex
         /\ StateAfterVote(st, l, m).lastApplied = st.lastApplied
         /\ StateAfterVote(st, l, m).currentTerm = Observe(st, m.term).currentTerm
         /\ StateAfterVote(st, l, m) \in DurableState
<1>1. Observe(st, m.term) \in DurableState
  BY ObserveType
<1>2. {"commitIndex", "lastApplied", "currentTerm", "votedFor"} = DOMAIN Observe(st, m.term)
  BY <1>1 DEF DurableState
<1>3. /\ Observe(st, m.term).commitIndex = st.commitIndex
      /\ Observe(st, m.term).lastApplied = st.lastApplied
  BY ObserveKeeps
<1>4. StateAfterVote(st, l, m) \in DurableState
  BY StateAfterVoteType
<1>. QED  BY <1>2, <1>3, <1>4 DEF StateAfterVote

\* The route of a vote: whoever gets the vote is as far as the voter.
LEMMA HandleRequestVoteSound ==
  ASSUME Stepping, NEW n \in Node, NEW m \in net, HandleRequestVote(n, m), NEW g, Sound(g)
  PROVE  SafetyInv'
<1>1. /\ Inv /\ Inv' /\ DiskForward /\ Attentive /\ CampaignSafety' /\ DiskBehind
      /\ Matches(g) /\ GroupInv(g) /\ GroupType(g) /\ NodeSound(g, n) /\ MessageSound(g, m)
  BY DEF Sound, Stepping, GroupInv, ElectionInv
<1>2. PICK st : st = StateAfterVote(state[n], log[n], m)
  OBVIOUS
<1>3. PICK reply : reply = [type |-> "VoteReply", task |-> "election", source |-> n,
                            dest |-> m.source, term |-> st.currentTerm,
                            granted |-> Grants(state[n], log[n], m)]
  OBVIOUS
<1>4. /\ m.type = "RequestVote" /\ m.dest = n
      /\ state' = [state EXCEPT ![n] = st] /\ diskState' = [diskState EXCEPT ![n] = st]
      /\ role' = IF m.term > state[n].currentTerm THEN [role EXCEPT ![n] = "follower"] ELSE role
      /\ leaderId' = IF m.term > state[n].currentTerm THEN [leaderId EXCEPT ![n] = Nil]
                     ELSE leaderId
      /\ ballots' = IF Grants(state[n], log[n], m)
                    THEN ballots \cup {Vote(m.term, n, m.source)} ELSE ballots
      /\ net' = Answer(m, reply)
      /\ UNCHANGED <<log, election, beats, submit, wins, acked>>
  BY <1>2, <1>3 DEF HandleRequestVote, Ballot, Vote
<1>5. m.source \in Node /\ m.term \in Nat
  <2>1. m \in RequestVote /\ m.source \in Node
    BY <1>1, <1>4, MessageKinds DEF Inv, TypeOK, TypeNet
  <2>. QED  BY <2>1 DEF RequestVote, Term
<1>6. state[n] \in DurableState /\ state[n].currentTerm \in Nat /\ log[n] \in Seq(Entry)
  BY <1>1, NodeTypes
<1>7. /\ st \in DurableState /\ st.currentTerm = Observe(state[n], m.term).currentTerm
      /\ st.commitIndex = state[n].commitIndex /\ st.lastApplied = state[n].lastApplied
  BY <1>2, <1>5, <1>6, VoteRecord
<1>8. /\ m.term > state[n].currentTerm => st.currentTerm = m.term
      /\ ~(m.term > state[n].currentTerm) => st.currentTerm = state[n].currentTerm
      /\ st.currentTerm >= state[n].currentTerm
  <2>1. m.term >= state[n].currentTerm => st.currentTerm = m.term
    BY <1>5, <1>6, <1>7, ObserveKeeps
  <2>2. ~(m.term > state[n].currentTerm) => st.currentTerm = state[n].currentTerm
    BY <1>7 DEF Observe
  <2>. QED  BY <2>1, <2>2, <1>5, <1>6
<1>9. /\ state'[n] = st /\ diskState'[n] = st
      /\ \A k \in Node \ {n} :
           /\ state'[k] = state[k] /\ diskState'[k] = diskState[k]
           /\ role'[k] = role[k] /\ leaderId'[k] = leaderId[k]
  BY <1>1, <1>4 DEF Inv, TypeOK, TypeCore
<1>10. Frame(n)
  <2>1. election'[n] = Nil \/ (election[n] # Nil /\ election'[n].term = election[n].term)
    BY <1>4
  <2>. QED  BY <1>4, <1>9, <2>1 DEF Frame, SameSubmission
<1>11. HistoryType(g.made, g.acks)
  BY <1>1 DEF GroupType, HistoryType
<1>12. PICK h : Matches(h)' /\ h.made = g.made /\ h.acks = g.acks
  BY <1>1, <1>11, NextGroup
<1>13. /\ GroupType(h) /\ TermsForward(g, h)
       /\ h.logs = g.logs /\ h.campaigns = g.campaigns /\ h.wins = g.wins
  BY <1>1, <1>4, <1>12, DisksForward DEF Matches
<1>14. CampaignsEnd(g, h) /\ SameLogs(g, h)
  BY <1>12, <1>13 DEF CampaignsEnd, SameLogs
<1>15. GroupInv(h) /\ Grows(g, h)
  <2>1. CASE ~Grants(state[n], log[n], m)
    <3>1. h.ballots = g.ballots
      BY <2>1, <1>1, <1>4, <1>12 DEF Matches
    <3>2. Advance(g, h)
      BY <3>1, <1>13, <1>14 DEF Advance
    <3>. QED  BY <3>2, <1>1, <1>13, AdvanceKeeps
  <2>2. CASE Grants(state[n], log[n], m)
    <3>1. st.currentTerm = m.term /\ m.term >= state[n].currentTerm
      BY <2>2, <1>2, <1>5, <1>6, GrantLeaves
    <3>2. h.ballots = g.ballots \cup {Vote(m.term, n, m.source)}
      BY <2>2, <1>1, <1>4, <1>12 DEF Matches
    <3>3. g.terms[n] <= m.term
      <4>1. g.terms[n] = diskState[n].currentTerm /\ diskState[n].currentTerm \in Nat
        BY <1>1, GroupOf, NodeTypes
      <4>2. diskState[n].currentTerm <= state[n].currentTerm
        BY <1>1, <1>6, <4>1 DEF DiskBehind, Rises, SameVote
      <4>. QED  BY <3>1, <4>1, <4>2, <1>5, <1>6
    <3>4. m.term <= h.terms[n]
      <4>1. h.terms[n] = m.term
        BY <3>1, <1>9, <1>12, NextGroupOf
      <4>. QED  BY <4>1, <1>5
    <3>5. m.term <= h.terms[m.source]
      <4>1. m.term <= g.terms[m.source] /\ g.terms[m.source] \in Nat
        BY <1>1, <1>4, <1>5, GroupOf, NodeTypes DEF MessageSound
      <4>2. g.terms[m.source] <= h.terms[m.source] /\ h.terms[m.source] \in Nat
        BY <1>5, <1>13, VoterShape DEF TermsForward
      <4>. QED  BY <4>1, <4>2, <1>5
    <3>6. ASSUME m.term = g.campaigns[m.source]
          PROVE  AtLeast(g.logs[m.source], g.logs[n])
      <4>1. election[m.source] # Nil /\ election[m.source].term = m.term
        BY <3>6, <1>1, <1>4, <1>5, GroupOf DEF MessageSound
      <4>2. m.lastLogIndex = Len(log[m.source]) /\ m.lastLogTerm = LastTerm(log[m.source])
        BY <4>1, <1>1, <1>4 DEF MessageSound
      <4>3. UpToDate(log[n], m)
        BY <2>2 DEF Grants
      <4>4. g.logs[m.source] = log[m.source] /\ g.logs[n] = log[n]
        BY <1>1, <1>5, GroupOf
      <4>. QED  BY <4>2, <4>3, <4>4 DEF UpToDate, AtLeast
    <3>7. GiveVote(g, h, n, m.source, m.term)
      BY <3>2, <3>3, <3>4, <3>5, <3>6, <1>13, <1>14 DEF GiveVote
    <3>. QED  BY <3>7, <1>1, <1>5, <1>13, GiveVoteKeeps
  <2>. QED  BY <2>1, <2>2
<1>16. CommitSound(h, log[n], state[n])' /\ CommitSound(h, log[n], diskState[n])'
  <2>1. /\ log'[n] = log[n] /\ diskState'[n] = state'[n]
        /\ state'[n].commitIndex = state[n].commitIndex
        /\ state'[n].lastApplied = state[n].lastApplied
        /\ state[n].currentTerm <= state'[n].currentTerm
    BY <1>4, <1>6, <1>7, <1>8, <1>9
  <2>. QED  BY <2>1, <1>1, <1>13, <1>15, CommitObserved
<1>17. RoleSound(h, n)' /\ SubmissionSound(h, n)'
  <2>1. CASE m.term > state[n].currentTerm
    <3>1. role'[n] = "follower" /\ leaderId'[n] = Nil
      BY <2>1, <1>1, <1>4 DEF Inv, TypeOK, TypeCore
    <3>2. state'[n].currentTerm # state[n].currentTerm
      BY <2>1, <1>5, <1>6, <1>8, <1>9
    <3>3. Undisturbed(n)'
      BY <3>2, <1>1 DEF Attentive
    <3>. QED  BY <3>1, <3>3, RoleFollows
  <2>2. CASE ~(m.term > state[n].currentTerm)
    <3>1. /\ role'[n] = role[n] /\ leaderId'[n] = leaderId[n]
          /\ state'[n].currentTerm = state[n].currentTerm
      BY <2>2, <1>4, <1>8, <1>9
    <3>2. RoleSound(h, n)'
      BY <3>1, <1>1, <1>4, <1>12, RoleStill DEF NodeSound
    <3>3. SubmissionSound(h, n)'
      BY <3>1, <1>1, <1>4, <1>13, <1>15, SubmissionStill DEF NodeSound
    <3>. QED  BY <3>2, <3>3
  <2>. QED  BY <2>1, <2>2
<1>18. NodeSound(h, n)' /\ OwnTerms(g, h, n)
  BY <1>12, <1>16, <1>17 DEF NodeSound, OwnTerms
<1>19. \A k \in net' : k \in net \/ MessageSound(h, k)'
  <2>1. MessageSound(h, reply)'
    BY <1>3 DEF MessageSound
  <2>. QED  BY <2>1, <1>4 DEF Answer
<1>20. Sound(h)'
  BY <1>1, <1>4, <1>10, <1>12, <1>15, <1>18, <1>19, StepSound
<1>. QED  BY <1>20 DEF SafetyInv

\* The record and the vote of a campaign.
LEMMA CampaignRecord ==
  ASSUME Inv, DiskBehind, NEW n \in Node
  PROVE  /\ Campaigning(n) \in DurableState
         /\ Campaigning(n).currentTerm = state[n].currentTerm + 1
         /\ Campaigning(n).commitIndex = state[n].commitIndex
         /\ Campaigning(n).lastApplied = state[n].lastApplied
         /\ diskState[n].currentTerm < Campaigning(n).currentTerm
<1>1. /\ state[n] \in DurableState /\ state[n].currentTerm \in Nat
      /\ diskState[n].currentTerm \in Nat
  BY NodeTypes
<1>2. /\ Campaigning(n) \in DurableState
      /\ Campaigning(n).currentTerm = state[n].currentTerm + 1
  BY CampaigningType DEF Inv, TypeOK
<1>3. /\ Campaigning(n).commitIndex = state[n].commitIndex
      /\ Campaigning(n).lastApplied = state[n].lastApplied
  BY <1>1 DEF Campaigning, DurableState
<1>4. diskState[n].currentTerm <= state[n].currentTerm
  BY <1>1 DEF DiskBehind, Rises, SameVote
<1>. QED  BY <1>1, <1>2, <1>3, <1>4

\* The timer of a node that has peers.
LEMMA CampaignSound ==
  ASSUME Stepping, NEW n \in Node, StartElection(n), Majority # 1, NEW g, Sound(g)
  PROVE  SafetyInv'
<1>1. /\ Inv /\ Inv' /\ DiskForward /\ Attentive /\ CampaignSafety' /\ DiskBehind
      /\ Matches(g) /\ GroupInv(g) /\ GroupType(g) /\ NodeSound(g, n)
  BY DEF Sound, Stepping, GroupInv, ElectionInv
<1>2. PICK st : st = Campaigning(n)
  OBVIOUS
<1>. DEFINE u == st.currentTerm
<1>3. /\ st \in DurableState /\ u = state[n].currentTerm + 1 /\ u \in Nat
      /\ st.commitIndex = state[n].commitIndex /\ st.lastApplied = state[n].lastApplied
      /\ diskState[n].currentTerm < u /\ state[n].currentTerm \in Nat
  BY <1>1, <1>2, CampaignRecord, NodeTypes
<1>4. /\ role[n] # "leader" /\ election[n] = Nil
      /\ state' = [state EXCEPT ![n] = st] /\ diskState' = [diskState EXCEPT ![n] = st]
      /\ ballots' = ballots \cup {Vote(u, n, n)}
      /\ role' = [role EXCEPT ![n] = "candidate"] /\ leaderId' = [leaderId EXCEPT ![n] = Nil]
      /\ election' = [election EXCEPT ![n] = [term |-> u, votes |-> {n}]]
      /\ net' = net \cup {VoteRequest(n, p, st) : p \in Peers(n)}
      /\ UNCHANGED <<log, beats, submit, wins, acked>>
  BY <1>2 DEF StartElection, Ballot, Vote
<1>. HIDE DEF u
<1>5. /\ state'[n] = st /\ diskState'[n] = st /\ role'[n] = "candidate" /\ leaderId'[n] = Nil
      /\ election'[n] = [term |-> u, votes |-> {n}]
      /\ \A k \in Node \ {n} :
           /\ state'[k] = state[k] /\ diskState'[k] = diskState[k]
           /\ role'[k] = role[k] /\ leaderId'[k] = leaderId[k] /\ election'[k] = election[k]
  BY <1>1, <1>4 DEF Inv, TypeOK, TypeCore, TypeTasks
<1>6. Frame(n)
  BY <1>3, <1>4, <1>5 DEF Frame, SameSubmission
<1>7. HistoryType(g.made, g.acks)
  BY <1>1 DEF GroupType, HistoryType
<1>8. PICK h : Matches(h)' /\ h.made = g.made /\ h.acks = g.acks
  BY <1>1, <1>7, NextGroup
<1>9. GroupType(h) /\ TermsForward(g, h) /\ h.logs = g.logs /\ h.wins = g.wins
  BY <1>1, <1>4, <1>8, DisksForward DEF Matches
<1>10. Stand(g, h, n, u)
  <2>1. g.terms[n] < u /\ u <= h.terms[n]
    <3>1. g.terms[n] = diskState[n].currentTerm /\ h.terms[n] = u
      BY <1>1, <1>5, <1>8, GroupOf, NextGroupOf DEF u
    <3>. QED  BY <3>1, <1>3
  <2>2. h.campaigns = [g.campaigns EXCEPT ![n] = u]
    <3>1. \A k \in Node : h.campaigns[k] = IF k = n THEN u ELSE g.campaigns[k]
      <4>1. [term |-> u, votes |-> {n}] # Nil
        BY <1>3, NilIsNoTask DEF Campaign
      <4>2. h.campaigns[n] = u
        BY <4>1, <1>5, <1>8, NextGroupOf
      <4>3. \A k \in Node \ {n} : h.campaigns[k] = g.campaigns[k]
        BY <1>1, <1>5, <1>8, GroupOf, NextGroupOf
      <4>. QED  BY <4>2, <4>3
    <3>2. h.campaigns \in [Node -> Nat] /\ g.campaigns \in [Node -> Nat]
      BY <1>1, <1>9 DEF GroupType
    <3>. QED  BY <3>1, <3>2
  <2>3. h.ballots = g.ballots \cup {Vote(u, n, n)}
    BY <1>1, <1>4, <1>8 DEF Matches
  <2>. QED  BY <1>8, <1>9, <2>1, <2>2, <2>3 DEF Stand, SameLogs
<1>11. GroupInv(h) /\ Grows(g, h)
  BY <1>1, <1>3, <1>9, <1>10, StandKeeps
<1>12. CommitSound(h, log[n], state[n])' /\ CommitSound(h, log[n], diskState[n])'
  <2>1. /\ log'[n] = log[n] /\ diskState'[n] = state'[n]
        /\ state'[n].commitIndex = state[n].commitIndex
        /\ state'[n].lastApplied = state[n].lastApplied
        /\ state[n].currentTerm <= state'[n].currentTerm
    BY <1>3, <1>4, <1>5 DEF u
  <2>. QED  BY <2>1, <1>1, <1>9, <1>11, CommitObserved
<1>13. RoleSound(h, n)' /\ SubmissionSound(h, n)'
  <2>1. state'[n].currentTerm # state[n].currentTerm
    BY <1>3, <1>5 DEF u
  <2>2. Undisturbed(n)'
    BY <2>1, <1>1 DEF Attentive
  <2>3. election'[n].term = state'[n].currentTerm /\ election'[n].term > 0
    BY <1>3, <1>5 DEF u
  <2>. QED  BY <1>5, <2>2, <2>3 DEF RoleSound, SubmissionSound, Undisturbed
<1>14. NodeSound(h, n)' /\ OwnTerms(g, h, n)
  BY <1>8, <1>12, <1>13 DEF NodeSound, OwnTerms
<1>15. ASSUME NEW p \in Peers(n), NEW m, m = VoteRequest(n, p, st)
       PROVE  MessageSound(h, m)'
  <2>1. /\ m.type = "RequestVote" /\ m.task = "election" /\ m.source = n /\ m.term = u
        /\ m.lastLogIndex = Len(log[n]) /\ m.lastLogTerm = LastTerm(log[n])
    BY <1>15 DEF VoteRequest, u
  <2>2. 0 < u /\ u <= diskState'[n].currentTerm
    BY <1>3, <1>5 DEF u
  <2>. QED  BY <2>1, <2>2, <1>4 DEF MessageSound
<1>16. \A m \in net' : m \in net \/ MessageSound(h, m)'
  BY <1>4, <1>15
<1>17. Sound(h)'
  BY <1>1, <1>4, <1>6, <1>8, <1>11, <1>14, <1>16, StepSound
<1>. QED  BY <1>17 DEF SafetyInv

\* The group of a sole voter that elects itself.
LEMMA SoleWinGroup ==
  ASSUME Inv, DiskBehind, CampaignSafety', Majority = 1, NEW n \in Node,
         NEW g, Matches(g), GroupInv(g), election[n] = Nil,
         NEW h, GroupType(h), h.logs = g.logs, h.acks = g.acks, h.campaigns = g.campaigns,
         h.terms = [g.terms EXCEPT ![n] = Campaigning(n).currentTerm],
         h.ballots = g.ballots \cup {Vote(Campaigning(n).currentTerm, n, n)},
         h.wins = g.wins \cup {Victory(Campaigning(n).currentTerm, n)}, h.wins = wins',
         h.made = [g.made EXCEPT ![Campaigning(n).currentTerm] = log[n]]
  PROVE  GroupInv(h) /\ Grows(g, h)
<1>. DEFINE u == Campaigning(n).currentTerm
<1>1. u \in Nat /\ diskState[n].currentTerm < u /\ GroupType(g)
  BY CampaignRecord DEF DurableState, GroupInv
<1>. HIDE DEF u
<1>2. g.terms[n] = diskState[n].currentTerm /\ g.campaigns[n] = 0 /\ g.logs[n] = log[n]
  BY GroupOf
<1>3. g.terms \in [Node -> Nat] /\ g.campaigns \in [Node -> Nat]
  BY <1>1 DEF GroupType
<1>4. h.terms[n] = u /\ \A v \in Node \ {n} : h.terms[v] = g.terms[v]
  BY <1>3 DEF u
<1>5. g.terms[n] < u /\ u <= h.terms[n]
  BY <1>1, <1>2, <1>4
<1>6. TermsForward(g, h)
  BY <1>1, <1>2, <1>3, <1>4, <1>5 DEF TermsForward
<1>7. h.campaigns = [g.campaigns EXCEPT ![n] = 0]
  BY <1>2, <1>3
<1>8. \A w \in g.wins : w.term = u => w.node = n
  <2>1. Victory(u, n) \in wins' /\ g.wins \subseteq wins'
    BY DEF u
  <2>2. Victory(u, n).term = u /\ Victory(u, n).node = n
    BY DEF Victory
  <2>. QED  BY <2>1, <2>2 DEF CampaignSafety, E!OneWinnerPerTerm
<1>9. /\ h.ballots = g.ballots \cup {Vote(u, n, n)} /\ h.wins = g.wins \cup {Victory(u, n)}
      /\ h.made = [g.made EXCEPT ![u] = g.logs[n]]
  BY <1>2 DEF u
<1>10. LoneWin(g, h, n, u)
  BY <1>5, <1>6, <1>7, <1>8, <1>9 DEF LoneWin
<1>. QED  BY <1>1, <1>10, SoleWinKeeps

\* The timer of a sole voter.
LEMMA SoleElectionSound ==
  ASSUME Stepping, NEW n \in Node, StartElection(n), Majority = 1, NEW g, Sound(g)
  PROVE  SafetyInv'
<1>1. /\ Inv /\ Inv' /\ DiskForward /\ Attentive /\ CampaignSafety' /\ DiskBehind
      /\ Matches(g) /\ GroupInv(g) /\ GroupType(g) /\ NodeSound(g, n)
  BY DEF Sound, Stepping, GroupInv, ElectionInv
<1>2. PICK st : st = Campaigning(n)
  OBVIOUS
<1>. DEFINE u == st.currentTerm
<1>3. /\ st \in DurableState /\ u = state[n].currentTerm + 1 /\ u \in Nat
      /\ st.commitIndex = state[n].commitIndex /\ st.lastApplied = state[n].lastApplied
      /\ diskState[n].currentTerm < u /\ state[n].currentTerm \in Nat
  BY <1>1, <1>2, CampaignRecord, NodeTypes
<1>4. /\ role[n] # "leader" /\ election[n] = Nil
      /\ state' = [state EXCEPT ![n] = st] /\ diskState' = [diskState EXCEPT ![n] = st]
      /\ ballots' = ballots \cup {Vote(u, n, n)}
      /\ BecomeLeader(n, u)
      /\ UNCHANGED <<election, net, log, beats, submit, acked>>
  BY <1>2 DEF StartElection, Ballot, Vote
<1>. HIDE DEF u
<1>5. /\ state'[n] = st /\ diskState'[n] = st /\ role'[n] = "leader" /\ leaderId'[n] = n
      /\ \A k \in Node \ {n} :
           /\ state'[k] = state[k] /\ diskState'[k] = diskState[k]
           /\ role'[k] = role[k] /\ leaderId'[k] = leaderId[k]
      /\ wins' = wins \cup {Victory(u, n)}
  BY <1>1, <1>4 DEF BecomeLeader, Victory, Inv, TypeOK, TypeCore
<1>6. Frame(n)
  BY <1>4, <1>5 DEF Frame, SameSubmission
<1>7. HistoryType([g.made EXCEPT ![u] = log[n]], g.acks)
  BY <1>1, <1>3, NodeTypes DEF GroupType, HistoryType
<1>8. PICK h : Matches(h)' /\ h.made = [g.made EXCEPT ![u] = log[n]] /\ h.acks = g.acks
  BY <1>1, <1>7, NextGroup
<1>9. /\ GroupType(h) /\ h.logs = g.logs /\ h.campaigns = g.campaigns
      /\ h.ballots = g.ballots \cup {Vote(u, n, n)}
      /\ h.wins = g.wins \cup {Victory(u, n)} /\ h.wins = wins'
  BY <1>1, <1>4, <1>5, <1>8 DEF Matches
<1>10. h.terms = [g.terms EXCEPT ![n] = u]
  <2>1. \A k \in Node : h.terms[k] = IF k = n THEN u ELSE g.terms[k]
    BY <1>1, <1>5, <1>8, GroupOf, NextGroupOf DEF u
  <2>2. h.terms \in [Node -> Nat] /\ g.terms \in [Node -> Nat]
    BY <1>1, <1>9 DEF GroupType
  <2>. QED  BY <2>1, <2>2
<1>11. GroupInv(h) /\ Grows(g, h)
  BY <1>1, <1>2, <1>4, <1>8, <1>9, <1>10, SoleWinGroup DEF u
<1>12. CommitSound(h, log[n], state[n])' /\ CommitSound(h, log[n], diskState[n])'
  <2>1. /\ log'[n] = log[n] /\ diskState'[n] = state'[n]
        /\ state'[n].commitIndex = state[n].commitIndex
        /\ state'[n].lastApplied = state[n].lastApplied
        /\ state[n].currentTerm <= state'[n].currentTerm
    BY <1>3, <1>4, <1>5 DEF u
  <2>. QED  BY <2>1, <1>1, <1>9, <1>11, CommitObserved
<1>13. h.made[u] = log[n] /\ \A t \in Nat \ {u} : h.made[t] = g.made[t]
  BY <1>1, <1>3, <1>8 DEF GroupType
<1>14. RoleSound(h, n)' /\ SubmissionSound(h, n)'
  <2>1. Undisturbed(n)'
    BY <1>1, <1>4, <1>5 DEF Attentive
  <2>2. Victory(state'[n].currentTerm, n) \in wins' /\ log'[n] = h.made[state'[n].currentTerm]
    BY <1>4, <1>5, <1>13 DEF u
  <2>. QED  BY <1>5, <2>1, <2>2, NewLeader
<1>15. NodeSound(h, n)' /\ OwnTerms(g, h, n)
  BY <1>5, <1>12, <1>13, <1>14 DEF NodeSound, OwnTerms
<1>16. Sound(h)'
  BY <1>1, <1>4, <1>6, <1>8, <1>11, <1>15, StepSound
<1>. QED  BY <1>16 DEF SafetyInv

-----------------------------------------------------------------------------
(* The steps of a submission.                                              *)

\* The entry submitted ends the log l of its term's leader, and the voters
\* counted hold it.
EntryHeld(g, n, s, l) ==
  /\ l = g.made[s.entry.term] /\ Len(l) = s.entry.index /\ s.entry.index > 0
  /\ l[s.entry.index] = [term |-> s.entry.term, command |-> s.entry.command]
  /\ n \notin s.replicated
  /\ \A v \in s.replicated \cup {n} : g.acks[s.entry.term][v] >= s.entry.index

\* A majority holds the entry at the end of the node's log.
LEMMA SubmissionChosen ==
  ASSUME NEW g, GroupInv(g), NEW n \in Node, NEW s \in Submission, NEW l \in Seq(Entry),
         EntryHeld(g, n, s, l), Cardinality(s.replicated) + 1 >= Majority
  PROVE  /\ EntrySound(g, s.entry)
         /\ \A t \in Nat : s.entry.term <= t => Committed(g, l, s.entry.index, t)
<1>. DEFINE t == s.entry.term
            i == s.entry.index
            Q == s.replicated \cup {n}
<1>1. t \in Nat /\ i \in Nat /\ s.replicated \in SUBSET Node /\ GroupType(g)
  BY DEF Submission, SubmittedEntry, GroupInv
<1>2. Q \in Majorities
  <2>1. IsFiniteSet(s.replicated)
    BY <1>1, NodeAssumption, FS_Subset
  <2>2. Cardinality(Q) = Cardinality(s.replicated) + 1
    BY <2>1, FS_AddElement DEF EntryHeld
  <2>. QED  BY <1>1, <2>2 DEF Majorities
<1>3. Chosen(g, t, i)
  BY <1>2 DEF Chosen, EntryHeld
<1>4. Direct(g, t, i) /\ g.made[t][i].command = s.entry.command
  BY <1>1 DEF Direct, EntryHeld
<1>5. Agree(l, g.made[t], i)
  BY <1>1 DEF Agree, EntryHeld
<1>. HIDE DEF t, i, Q
<1>6. \A u \in Nat : t <= u => Committed(g, l, i, u)
  BY <1>1, <1>3, <1>4, <1>5, CommittedFrom
<1>. QED  BY <1>3, <1>4, <1>6 DEF EntrySound, t, i

\* The loop over the peers is over.
LEMMA EndSubmitSound ==
  ASSUME Inv, NEW n \in Node, NEW g, GroupInv(g), NEW s \in Submission, NEW l \in Seq(Entry),
         NEW st \in DurableState, NEW ds \in DurableState, EndSubmit(n, s, l, st, ds),
         CommitSound(g, l, st), CommitSound(g, l, ds), s.entry.term <= st.currentTerm,
         EntryHeld(g, n, s, l)
  PROVE  /\ submit'[n] = Nil
         /\ \A k \in Node \ {n} : submit'[k] = submit[k]
         /\ \A k \in Node \ {n} : state'[k] = state[k] /\ diskState'[k] = diskState[k]
         /\ state'[n].currentTerm = st.currentTerm
         /\ diskState'[n].currentTerm \in {ds.currentTerm, st.currentTerm}
         /\ CommitSound(g, l, state'[n]) /\ CommitSound(g, l, diskState'[n])
         /\ \A e \in acked' : e \in acked \/ EntrySound(g, e)
<1>. DEFINE committed == [st EXCEPT !.commitIndex = s.entry.index]
            end == StateAfterApply(store[n], committed, l)
<1>1. submit'[n] = Nil /\ \A k \in Node \ {n} : submit'[k] = submit[k]
  BY EndSubmitFrees
<1>2. /\ \A k \in Node \ {n} : state'[k] = state[k] /\ diskState'[k] = diskState[k]
      /\ SameVote(state'[n], st)
      /\ SameVote(diskState'[n], ds) \/ SameVote(diskState'[n], st)
  BY EndSubmitVotes
<1>3. /\ state \in [Node -> DurableState] /\ diskState \in [Node -> DurableState]
      /\ s.entry.index \in Nat /\ s.entry.term \in Nat /\ st.currentTerm \in Nat
      /\ GroupType(g)
  BY DEF Inv, TypeOK, TypeCore, Submission, SubmittedEntry, DurableState, GroupInv
<1>4. CASE Cardinality(s.replicated) + 1 < Majority
  <2>1. state'[n] = st /\ diskState'[n] = ds /\ acked' = acked
    BY <1>3, <1>4 DEF EndSubmit
  <2>. QED  BY <1>1, <1>2, <2>1
<1>5. CASE ~(Cardinality(s.replicated) + 1 < Majority)
  <2>1. Cardinality(s.replicated) + 1 >= Majority
    <3>1. IsFiniteSet(s.replicated)
      BY NodeAssumption, FS_Subset DEF Submission
    <3>. QED  BY <3>1, <1>5, MajorityType, FS_CardinalityType
  <2>2. /\ EntrySound(g, s.entry)
        /\ Committed(g, l, s.entry.index, st.currentTerm)
    BY <2>1, <1>3, SubmissionChosen
  <2>3. /\ committed \in DurableState /\ committed.commitIndex = s.entry.index
        /\ committed.currentTerm = st.currentTerm /\ committed.lastApplied = st.lastApplied
    BY <1>3 DEF DurableState
  <2>4. st.lastApplied <= s.entry.index
    <3>1. Committed(g, l, st.commitIndex, st.currentTerm) /\ st.lastApplied <= st.commitIndex
      BY DEF CommitSound
    <3>2. st.commitIndex \in Nat /\ st.lastApplied \in Nat
      BY DEF DurableState
    <3>3. st.commitIndex <= Len(l)
      BY <3>1, <3>2, <1>3, CommittedWithin
    <3>. QED  BY <3>1, <3>2, <3>3, <1>3 DEF EntryHeld
  <2>5. CommitSound(g, l, committed)
    BY <2>2, <2>3, <2>4 DEF CommitSound
  <2>. HIDE DEF committed
  <2>6. CommitSound(g, l, end)
    BY <2>3, <2>5, AppliedSound
  <2>. HIDE DEF end
  <2>7. state' = [state EXCEPT ![n] = end]
        /\ diskState' \in {[diskState EXCEPT ![n] = ds], [diskState EXCEPT ![n] = end]}
        /\ acked' \in {acked, acked \cup {s.entry}}
    BY <1>5 DEF EndSubmit, end, committed
  <2>8. state'[n] = end /\ diskState'[n] \in {ds, end}
    BY <1>3, <2>7
  <2>. QED  BY <1>1, <1>2, <2>2, <2>6, <2>7, <2>8 DEF SameVote
<1>. QED  BY <1>2, <1>4, <1>5 DEF SameVote

\* The loop goes on to the next peer.
LEMMA NextPeerSound ==
  ASSUME Inv, NEW n \in Node, NEW g, GroupInv(g), NEW s \in Submission, s.todo \subseteq Peers(n),
         NEW l \in Seq(Entry), NEW st \in DurableState, NEW prog, DictsOK(prog),
         progress[n] # <<>>, NEW base, CallNextPeer(n, s, l, st, prog, base),
         Victory(st.currentTerm, n) \in wins', l = g.made[st.currentTerm],
         CommitSound(g, l, st), role'[n] = "leader",
         s.entry.term = st.currentTerm, s.entry.index = Len(l)
  PROVE  /\ submit'[n] # Nil /\ submit'[n].entry = s.entry
         /\ submit'[n].replicated = s.replicated
         /\ \A k \in Node \ {n} : submit'[k] = submit[k]
         /\ acked' = acked
         /\ \A m \in net' : m \in base \/ MessageSound(g, m)'
<1>1. PICK p \in s.todo :
        /\ submit' = [submit EXCEPT ![n] = [s EXCEPT !.todo = @ \ {p}]]
        /\ net' = base \cup {AppendPayload(n, p, "submit", Current(n),
                               prog[n][Current(n)][p].nextIndex, st, l)}
        /\ UNCHANGED <<store, acked>>
  BY DEF CallNextPeer
<1>2. /\ submit \in [Node -> {Nil} \cup Submission] /\ progress[n] \in Seq([Peers(n) -> Progress])
      /\ prog[n] \in Seq([Peers(n) -> Progress]) /\ Len(prog[n]) >= Len(progress[n])
  BY DEF Inv, TypeOK, TypeTasks, DictsOK
<1>3. /\ submit'[n] = [s EXCEPT !.todo = @ \ {p}]
      /\ \A k \in Node \ {n} : submit'[k] = submit[k]
  BY <1>1, <1>2
<1>4. /\ submit'[n].entry = s.entry /\ submit'[n].replicated = s.replicated
      /\ submit'[n] \in Submission
  BY <1>3 DEF Submission
<1>5. submit'[n] # Nil /\ s.entry.index \in Nat
  BY <1>4, NilIsNoTask DEF Submission, SubmittedEntry
<1>6. Current(n) \in 1 .. Len(prog[n]) /\ Current(n) \in Nat
  <2>1. Len(progress[n]) \in 1 .. Len(progress[n])
    BY <1>2, LastOfNonEmpty
  <2>2. Len(prog[n]) \in Nat
    BY <1>2
  <2>. QED  BY <1>2, <2>1, <2>2 DEF Current
<1>7. p \in Peers(n)
  BY <1>1
<1>8. prog[n][Current(n)][p].nextIndex \in Nat \ {0}
  BY <1>2, <1>6, <1>7, PositionType
<1>9. PICK m : m = AppendPayload(n, p, "submit", Current(n),
                     prog[n][Current(n)][p].nextIndex, st, l)
  OBVIOUS
<1>10. submit'[n].entry.index <= Len(l) /\ submit'[n].entry.index \in Nat
       /\ submit'[n].entry.term = st.currentTerm
  BY <1>4, <1>5
<1>11. MessageSound(g, m)'
  BY <1>6, <1>7, <1>8, <1>9, <1>10, PayloadSound
<1>. QED  BY <1>1, <1>3, <1>4, <1>5, <1>9, <1>11

\* What is committed of a log stays so when an entry is added.
LEMMA CommitLonger ==
  ASSUME NEW g, NEW h, GroupType(g), GroupType(h), Grows(g, h), NEW l \in Seq(Entry),
         NEW e \in Entry, NEW a \in DurableState, NEW b \in DurableState, CommitSound(g, l, a),
         b.commitIndex = a.commitIndex, b.lastApplied = a.lastApplied,
         a.currentTerm <= b.currentTerm
  PROVE  CommitSound(h, Append(l, e), b)
<1>1. /\ a.commitIndex \in Nat /\ a.currentTerm \in Nat /\ b.currentTerm \in Nat
      /\ Len(l) \in Nat
  BY DEF DurableState
<1>2. Committed(g, l, a.commitIndex, a.currentTerm) /\ a.lastApplied <= a.commitIndex
  BY DEF CommitSound
<1>3. a.commitIndex <= Len(l)
  BY <1>1, <1>2, CommittedWithin
<1>4. Committed(h, l, a.commitIndex, b.currentTerm)
  BY <1>1, <1>2, CommittedOn
<1>5. Append(l, e) \in Seq(Entry) /\ Len(Append(l, e)) \in Nat
      /\ Agree(Append(l, e), l, a.commitIndex)
  <2>1. /\ Append(l, e) \in Seq(Entry) /\ Len(Append(l, e)) = Len(l) + 1
        /\ \A k \in 1 .. Len(l) : Append(l, e)[k] = l[k]
    BY AppendAgrees
  <2>. QED  BY <2>1, <1>1, <1>3 DEF Agree
<1>6. Committed(h, Append(l, e), a.commitIndex, b.currentTerm)
  <2>1. a.commitIndex <= a.commitIndex /\ b.currentTerm <= b.currentTerm
    BY <1>1
  <2>. QED  BY <1>1, <1>4, <1>5, <2>1, CommittedAlong
<1>. QED  BY <1>2, <1>6 DEF CommitSound

\* The leader of term t has the log l, which it holds itself.
Extended(g, h, n, t, l) ==
  /\ Matches(h)' /\ GroupInv(h) /\ Grows(g, h)
  /\ h.made[t] = l
  /\ \A u \in Nat \ {t} : h.made[u] = g.made[u]
  /\ h.acks[t][n] = Len(l)

\* The leader's log grows by an entry of its term.
LEMMA ExtendGroup ==
  ASSUME Inv, Inv', DiskForward, NEW n \in Node, NEW t \in Nat, NEW e \in Entry, e.term = t,
         NEW g, Matches(g), GroupInv(g), Victory(t, n) \in wins, diskState[n].currentTerm <= t,
         log[n] = g.made[t], election[n] = Nil,
         NEW l, l = Append(log[n], e),
         log' = [log EXCEPT ![n] = l], UNCHANGED <<election, ballots, wins>>
  PROVE  \E h : Extended(g, h, n, t, l)
<1>1. GroupType(g) /\ log[n] \in Seq(Entry) /\ Len(log[n]) \in Nat
  BY NodeTypes DEF GroupInv
<1>. DEFINE made == [g.made EXCEPT ![t] = l]
            row == [g.acks[t] EXCEPT ![n] = Len(log[n]) + 1]
            acks == [g.acks EXCEPT ![t] = row]
<1>2. l \in Seq(Entry) /\ Len(l) = Len(log[n]) + 1
  BY <1>1, AppendAgrees
<1>3. /\ g.made \in [Nat -> Seq(Entry)] /\ g.acks \in [Nat -> [Node -> Nat]]
      /\ g.logs \in [Node -> Seq(Entry)] /\ g.logs = log
  BY <1>1 DEF GroupType, Matches
<1>4. /\ made \in [Nat -> Seq(Entry)] /\ made[t] = l
      /\ \A u \in Nat \ {t} : made[u] = g.made[u]
  BY <1>2, <1>3
<1>5. row \in [Node -> Nat] /\ row[n] = Len(log[n]) + 1
  <2>1. g.acks[t] \in [Node -> Nat]
    BY <1>3
  <2>. QED  BY <1>1, <2>1
<1>. HIDE DEF row
<1>6. acks \in [Nat -> [Node -> Nat]] /\ acks[t] = row
  BY <1>3, <1>5
<1>7. acks[t][n] = Len(log[n]) + 1
  BY <1>5, <1>6
<1>. HIDE DEF made, acks
<1>8. PICK k : k = [terms |-> g.terms, logs |-> [g.logs EXCEPT ![n] = l],
                    campaigns |-> g.campaigns, ballots |-> g.ballots, wins |-> g.wins,
                    made |-> made, acks |-> acks]
  OBVIOUS
<1>9. /\ k.terms = g.terms /\ k.logs = [g.logs EXCEPT ![n] = l] /\ k.campaigns = g.campaigns
      /\ k.ballots = g.ballots /\ k.wins = g.wins /\ k.made = made /\ k.acks = acks
  BY <1>8
<1>10. GroupType(k)
  <2>1. k.logs \in [Node -> Seq(Entry)]
    BY <1>2, <1>3, <1>9
  <2>. QED  BY <1>1, <1>4, <1>6, <1>9, <2>1 DEF GroupType
<1>11. Extend(g, k, n, t, e)
  <2>1. Victory(t, n) \in g.wins /\ g.terms[n] <= t /\ g.logs[n] = g.made[t] /\ g.campaigns[n] = 0
    BY GroupOf
  <2>2. /\ k.made = [g.made EXCEPT ![t] = Append(g.made[t], e)]
        /\ k.logs = [g.logs EXCEPT ![n] = Append(g.made[t], e)]
        /\ k.acks = [g.acks EXCEPT ![t] = [g.acks[t] EXCEPT ![n] = Len(g.made[t]) + 1]]
    BY <1>9 DEF made, acks, row
  <2>. QED  BY <2>1, <2>2, <1>9 DEF Extend
<1>12. GroupInv(k) /\ Grows(g, k)
  BY <1>10, <1>11, ExtendKeeps
<1>13. PICK h : Matches(h)' /\ h.made = made /\ h.acks = acks
  <2>1. HistoryType(made, acks)
    BY <1>4, <1>6 DEF HistoryType
  <2>. QED  BY <2>1, NextGroup
<1>14. Advance(k, h)
  <2>1. TermsForward(g, h)
    BY <1>13, DisksForward
  <2>2. /\ h.logs = k.logs /\ h.campaigns = k.campaigns /\ h.ballots = k.ballots
        /\ h.wins = k.wins
    BY <1>3, <1>9, <1>13 DEF Matches
  <2>. QED  BY <2>1, <2>2, <1>9, <1>13 DEF Advance, TermsForward, CampaignsEnd, SameLogs
<1>15. GroupType(h)
  BY <1>13 DEF Matches
<1>16. GroupInv(h) /\ Grows(k, h)
  BY <1>12, <1>14, <1>15, AdvanceKeeps
<1>17. Grows(g, h)
  BY <1>1, <1>10, <1>12, <1>15, <1>16, GrowsTransitive
<1>. QED  BY <1>2, <1>4, <1>7, <1>13, <1>16, <1>17 DEF Extended

\* The leader appends a command and calls its first peer, or is done.
LEMMA SubmitCommandSound ==
  ASSUME Stepping, NEW n \in Node, NEW c \in Command, SubmitCommand(n, c), NEW g, Sound(g)
  PROVE  SafetyInv'
<1>1. /\ Inv /\ Inv' /\ DiskForward /\ Attentive /\ CampaignSafety' /\ DiskBehind
      /\ Matches(g) /\ GroupInv(g) /\ GroupType(g) /\ NodeSound(g, n)
  BY DEF Sound, Stepping, GroupInv, ElectionInv
<1>2. PICK s : s = NewSubmission(n, c, state[n].currentTerm)
  OBVIOUS
<1>3. PICK e : e = [term |-> state[n].currentTerm, command |-> c]
  OBVIOUS
<1>. DEFINE t == state[n].currentTerm
            l == Append(log[n], e)
<1>4. /\ role[n] = "leader" /\ submit[n] = Nil
      /\ log' = [log EXCEPT ![n] = l] /\ diskLog' = [diskLog EXCEPT ![n] = l]
      /\ \/ CallNextPeer(n, s, l, state[n], progress, net) /\ UNCHANGED <<state, diskState>>
         \/ EndSubmit(n, s, l, state[n], diskState[n]) /\ UNCHANGED net
      /\ UNCHANGED <<role, leaderId, progress, election, beats, crashes, ballots, wins>>
  BY <1>2, <1>3 DEF SubmitCommand, LockFree
<1>5. /\ state[n] \in DurableState /\ t \in Nat /\ diskState[n] \in DurableState
      /\ diskState[n].currentTerm \in Nat
      /\ log[n] \in Seq(Entry) /\ Len(log[n]) \in Nat
      /\ e \in Entry /\ e.term = t /\ e.command = c
  BY <1>1, <1>3, NodeTypes DEF Entry
<1>6. diskState[n].currentTerm <= t
  BY <1>1, <1>5 DEF DiskBehind, Rises, SameVote
<1>7. /\ s \in Submission /\ s.entry.index = Len(log[n]) + 1 /\ s.entry.term = t
      /\ s.entry.command = c /\ s.replicated = {} /\ s.todo = Peers(n)
  <2>1. s \in Submission
    BY <1>1, <1>2, <1>5, NewSubmissionType DEF Inv, TypeOK
  <2>. QED  BY <2>1, <1>2 DEF NewSubmission
<1>8. /\ l \in Seq(Entry) /\ Len(l) = Len(log[n]) + 1 /\ l[Len(log[n]) + 1] = e
  BY <1>5, AppendAgrees
<1>9. /\ Victory(t, n) \in wins /\ log[n] = g.made[t] /\ election[n] = Nil
      /\ CommitSound(g, log[n], state[n]) /\ CommitSound(g, log[n], diskState[n])
  BY <1>1, <1>4 DEF NodeSound, RoleSound
<1>10. PICK h : /\ Matches(h)' /\ GroupInv(h) /\ Grows(g, h)
                /\ h.made[t] = l
                /\ \A u \in Nat \ {t} : h.made[u] = g.made[u]
                /\ h.acks[t][n] = Len(log[n]) + 1
  <2>1. log' = [log EXCEPT ![n] = l] /\ UNCHANGED <<election, ballots, wins>> /\ l = Append(log[n], e)
    BY <1>4
  <2>2. PICK u \in Nat : u = t
    BY <1>5
  <2>3. /\ e \in Entry /\ e.term = u /\ Victory(u, n) \in wins
        /\ diskState[n].currentTerm <= u /\ log[n] = g.made[u] /\ election[n] = Nil
    BY <1>5, <1>6, <1>9, <2>2
  <2>4. PICK k : k = l
    OBVIOUS
  <2>5. Inv /\ Inv' /\ DiskForward /\ Matches(g) /\ GroupInv(g)
    BY <1>1
  <2>. HIDE DEF l, t
  <2>6. PICK h : Extended(g, h, n, u, k)
    BY <2>1, <2>3, <2>4, <2>5, ExtendGroup
  <2>7. Len(l) = Len(log[n]) + 1
    BY <1>8 DEF l
  <2>. QED  BY <2>2, <2>4, <2>6, <2>7 DEF Extended
<1>11. CommitSound(h, l, state[n]) /\ CommitSound(h, l, diskState[n])
  <2>1. GroupType(h) /\ t <= t /\ diskState[n].currentTerm <= diskState[n].currentTerm
    BY <1>5, <1>10 DEF GroupInv
  <2>2. CommitSound(h, l, state[n])
    BY <1>1, <1>5, <1>9, <1>10, <2>1, CommitLonger
  <2>3. CommitSound(h, l, diskState[n])
    BY <1>1, <1>5, <1>9, <1>10, <2>1, CommitLonger
  <2>. QED  BY <2>2, <2>3
<1>. HIDE DEF l, t
<1>12. log'[n] = l /\ \A k \in Node \ {n} : log'[k] = log[k]
  BY <1>1, <1>4 DEF Inv, TypeOK, TypeCore
<1>13. \A v \in s.replicated \cup {n} : h.acks[t][v] >= s.entry.index
  BY <1>5, <1>7, <1>10
<1>14. OwnTerms(g, h, n)
  BY <1>4, <1>9, <1>10 DEF OwnTerms
<1>15. l[s.entry.index] = [term |-> s.entry.term, command |-> s.entry.command]
  BY <1>3, <1>7, <1>8 DEF t
<1>16. CASE CallNextPeer(n, s, l, state[n], progress, net) /\ UNCHANGED <<state, diskState>>
  <2>1. DictsOK(progress) /\ progress[n] # <<>>
    BY <1>1, <1>4 DEF DictsOK, Inv, TypeOK, TypeTasks, CallsTracked, ReplicatorsTrack
  <2>2. /\ submit'[n] # Nil /\ submit'[n].entry = s.entry
        /\ submit'[n].replicated = s.replicated
        /\ \A k \in Node \ {n} : submit'[k] = submit[k]
        /\ acked' = acked
        /\ \A m \in net' : m \in net \/ MessageSound(h, m)'
    <3>1. /\ Victory(state[n].currentTerm, n) \in wins' /\ l = h.made[state[n].currentTerm]
          /\ role'[n] = "leader" /\ s.entry.term = state[n].currentTerm
          /\ s.entry.index = Len(l) /\ s.todo \subseteq Peers(n)
      BY <1>4, <1>7, <1>8, <1>9, <1>10 DEF t
    <3>. QED  BY <1>1, <1>5, <1>7, <1>8, <1>10, <1>11, <1>16, <2>1, <3>1, NextPeerSound
  <2>3. Frame(n)
    BY <1>4, <1>9, <1>12, <1>16, <2>2 DEF Frame
  <2>4. SubmissionSound(h, n)'
    BY <1>4, <1>5, <1>7, <1>13, <1>16, <2>2 DEF SubmissionSound, t
  <2>5. RoleSound(h, n)'
    BY <1>1, <1>4, <1>9, <1>10, <1>12, <1>16 DEF RoleSound, NodeSound, t
  <2>6. CommitSound(h, log[n], state[n])' /\ CommitSound(h, log[n], diskState[n])'
    <3>1. CommitSound(h, log'[n], state'[n]) /\ CommitSound(h, log'[n], diskState'[n])
      BY <1>11, <1>12, <1>16
    <3>. QED  BY <3>1
  <2>7. NodeSound(h, n)'
    BY <2>4, <2>5, <2>6 DEF NodeSound
  <2>8. Sound(h)'
    BY <1>1, <1>10, <1>14, <2>2, <2>3, <2>7, StepSound
  <2>. QED  BY <2>8 DEF SafetyInv
<1>17. CASE EndSubmit(n, s, l, state[n], diskState[n]) /\ UNCHANGED net
  <2>1. /\ submit'[n] = Nil
        /\ \A k \in Node \ {n} : submit'[k] = submit[k]
        /\ \A k \in Node \ {n} : state'[k] = state[k] /\ diskState'[k] = diskState[k]
        /\ state'[n].currentTerm = t
        /\ CommitSound(h, l, state'[n]) /\ CommitSound(h, l, diskState'[n])
        /\ \A a \in acked' : a \in acked \/ EntrySound(h, a)
    <3>0. /\ s.entry.term <= state[n].currentTerm /\ l = h.made[s.entry.term]
          /\ Len(l) = s.entry.index /\ s.entry.index > 0 /\ n \notin s.replicated
          /\ \A v \in s.replicated \cup {n} : h.acks[s.entry.term][v] >= s.entry.index
      BY <1>5, <1>7, <1>8, <1>10, <1>13 DEF t
    <3>1. EntryHeld(h, n, s, l) /\ s.entry.term <= state[n].currentTerm
      BY <1>15, <3>0 DEF EntryHeld
    <3>2. s \in Submission /\ EndSubmit(n, s, l, state[n], diskState[n])
      BY <1>7, <1>17
    <3>3. state[n].currentTerm = t
      BY DEF t
    <3>. QED  BY <1>1, <1>5, <1>8, <1>10, <1>11, <3>1, <3>2, <3>3, EndSubmitSound
  <2>2. Frame(n)
    BY <1>4, <1>9, <1>12, <2>1 DEF Frame, SameSubmission
  <2>3. SubmissionSound(h, n)'
    BY <2>1 DEF SubmissionSound
  <2>4. RoleSound(h, n)'
    BY <1>1, <1>4, <1>9, <1>10, <1>12, <2>1 DEF RoleSound, NodeSound, t
  <2>5. CommitSound(h, log[n], state[n])' /\ CommitSound(h, log[n], diskState[n])'
    <3>1. CommitSound(h, log'[n], state'[n]) /\ CommitSound(h, log'[n], diskState'[n])
      BY <1>12, <2>1
    <3>. QED  BY <3>1
  <2>6. NodeSound(h, n)'
    BY <2>3, <2>4, <2>5 DEF NodeSound
  <2>7. Sound(h)'
    BY <1>1, <1>10, <1>14, <1>17, <2>1, <2>2, <2>6, StepSound
  <2>. QED  BY <2>7 DEF SafetyInv
<1>. QED  BY <1>4, <1>16, <1>17

\* The sole voter's log is its term's, with the entry it submits.
LEMMA SoleSubmitGroup ==
  ASSUME Inv, Inv', DiskBehind, CampaignSafety', Majority = 1, NEW n \in Node,
         NEW g, Matches(g), GroupInv(g), election[n] = Nil,
         NEW u \in Nat, u = Campaigning(n).currentTerm,
         NEW e \in Entry, e.term = u, NEW l, l = Append(log[n], e),
         diskState'[n].currentTerm = u, \A k \in Node \ {n} : diskState'[k] = diskState[k],
         log' = [log EXCEPT ![n] = l], election' = election,
         ballots' = ballots \cup {Vote(u, n, n)}, wins' = wins \cup {Victory(u, n)}
  PROVE  \E h : Extended(g, h, n, u, l)
<1>1. /\ GroupType(g) /\ log[n] \in Seq(Entry) /\ Len(log[n]) \in Nat
      /\ l \in Seq(Entry) /\ Len(l) = Len(log[n]) + 1
  BY NodeTypes, AppendAgrees DEF GroupInv
<1>2. /\ g.made \in [Nat -> Seq(Entry)] /\ g.acks \in [Nat -> [Node -> Nat]]
      /\ g.logs \in [Node -> Seq(Entry)] /\ g.logs = log /\ g.terms \in [Node -> Nat]
  BY <1>1 DEF GroupType, Matches
<1>. DEFINE made == [g.made EXCEPT ![u] = log[n]]
            longer == [g.made EXCEPT ![u] = l]
            row == [g.acks[u] EXCEPT ![n] = Len(l)]
            acks == [g.acks EXCEPT ![u] = row]
<1>3. /\ made \in [Nat -> Seq(Entry)] /\ made[u] = log[n]
      /\ longer \in [Nat -> Seq(Entry)] /\ longer[u] = l
      /\ \A t \in Nat \ {u} : longer[t] = g.made[t]
      /\ longer = [made EXCEPT ![u] = l]
  BY <1>1, <1>2
<1>4. row \in [Node -> Nat] /\ row[n] = Len(l)
  <2>1. g.acks[u] \in [Node -> Nat]
    BY <1>2
  <2>. QED  BY <1>1, <2>1
<1>. HIDE DEF row
<1>5. acks \in [Nat -> [Node -> Nat]] /\ acks[u] = row
  BY <1>2, <1>4
<1>6. acks[u][n] = Len(l)
  BY <1>4, <1>5
<1>. HIDE DEF made, longer, acks
<1>7. PICK k : k = [terms |-> [g.terms EXCEPT ![n] = u], logs |-> g.logs,
                    campaigns |-> g.campaigns, ballots |-> g.ballots \cup {Vote(u, n, n)},
                    wins |-> g.wins \cup {Victory(u, n)}, made |-> made, acks |-> g.acks]
  OBVIOUS
<1>8. /\ k.terms = [g.terms EXCEPT ![n] = u] /\ k.logs = g.logs /\ k.campaigns = g.campaigns
      /\ k.ballots = g.ballots \cup {Vote(u, n, n)} /\ k.wins = g.wins \cup {Victory(u, n)}
      /\ k.made = made /\ k.acks = g.acks
  BY <1>7
<1>9. PICK h : Matches(h)' /\ h.made = longer /\ h.acks = acks
  <2>1. HistoryType(longer, acks)
    BY <1>3, <1>5 DEF HistoryType
  <2>. QED  BY <2>1, NextGroup
<1>10. /\ GroupType(h) /\ h.logs = [k.logs EXCEPT ![n] = l] /\ h.campaigns = k.campaigns
       /\ h.ballots = k.ballots /\ h.wins = k.wins /\ k.wins = wins' /\ k.ballots = ballots'
  BY <1>2, <1>8, <1>9 DEF Matches
<1>11. h.terms = k.terms
  <2>1. \A v \in Node : h.terms[v] = IF v = n THEN u ELSE g.terms[v]
    BY <1>9, GroupOf, NextGroupOf
  <2>2. h.terms \in [Node -> Nat]
    BY <1>10 DEF GroupType
  <2>. QED  BY <1>2, <1>8, <2>1, <2>2
<1>12. GroupType(k)
  <2>1. k.terms \in [Node -> Nat] /\ k.logs \in [Node -> Seq(Entry)] /\ k.campaigns \in [Node -> Nat]
    BY <1>1, <1>2, <1>8 DEF GroupType
  <2>2. /\ k.ballots \subseteq [term : Nat, voter : Node, candidate : Node]
        /\ k.wins \subseteq [term : Nat, node : Node]
    BY <1>10 DEF GroupType
  <2>. QED  BY <1>2, <1>3, <1>8, <2>1, <2>2 DEF GroupType
<1>13. GroupInv(k) /\ Grows(g, k)
  <2>1. /\ k.made = [g.made EXCEPT ![Campaigning(n).currentTerm] = log[n]]
        /\ k.terms = [g.terms EXCEPT ![n] = Campaigning(n).currentTerm]
        /\ k.ballots = g.ballots \cup {Vote(Campaigning(n).currentTerm, n, n)}
        /\ k.wins = g.wins \cup {Victory(Campaigning(n).currentTerm, n)}
    BY <1>8 DEF made
  <2>. QED  BY <1>8, <1>10, <1>12, <2>1, SoleWinGroup
<1>14. Extend(k, h, n, u, e)
  <2>1. /\ Victory(u, n) \in k.wins /\ k.terms[n] <= u /\ k.logs[n] = log[n]
        /\ k.made[u] = log[n] /\ k.campaigns[n] = 0
    <3>1. k.terms[n] = u
      BY <1>2, <1>8
    <3>2. g.logs[n] = log[n] /\ g.campaigns[n] = 0
      BY GroupOf
    <3>. QED  BY <1>3, <1>8, <3>1, <3>2
  <2>2. h.made = [k.made EXCEPT ![u] = Append(k.made[u], e)]
    BY <1>3, <1>8, <1>9, <2>1
  <2>3. h.logs = [k.logs EXCEPT ![n] = Append(k.made[u], e)]
    BY <1>10, <2>1
  <2>4. h.acks = [k.acks EXCEPT ![u] = [k.acks[u] EXCEPT ![n] = Len(k.made[u]) + 1]]
    BY <1>1, <1>8, <1>9, <2>1 DEF acks, row
  <2>. QED  BY <1>10, <1>11, <2>1, <2>2, <2>3, <2>4 DEF Extend
<1>15. GroupInv(h) /\ Grows(k, h)
  BY <1>10, <1>13, <1>14, ExtendKeeps
<1>16. Grows(g, h)
  BY <1>1, <1>10, <1>12, <1>13, <1>15, GrowsTransitive
<1>. QED  BY <1>3, <1>6, <1>9, <1>15, <1>16 DEF Extended

\* The route of a sole voter: it wins its term, appends the command and commits it.
LEMMA SubmitToSoleVoterSound ==
  ASSUME Stepping, NEW n \in Node, NEW c \in Command, SubmitToSoleVoter(n, c), NEW g, Sound(g)
  PROVE  SafetyInv'
<1>1. /\ Inv /\ Inv' /\ DiskForward /\ Attentive /\ CampaignSafety' /\ DiskBehind
      /\ Matches(g) /\ GroupInv(g) /\ GroupType(g) /\ NodeSound(g, n)
  BY DEF Sound, Stepping, GroupInv, ElectionInv
<1>2. PICK st \in DurableState : st = Campaigning(n)
  BY <1>1, CampaignRecord
<1>3. PICK u \in Nat : u = st.currentTerm
  BY DEF DurableState
<1>4. PICK s : s = NewSubmission(n, c, u)
  OBVIOUS
<1>5. PICK e : e = [term |-> u, command |-> c]
  OBVIOUS
<1>6. PICK l : l = Append(log[n], e)
  OBVIOUS
<1>7. /\ Node = {n} /\ submit[n] = Nil /\ role[n] # "leader"
      /\ BecomeLeader(n, u)
      /\ ballots' = ballots \cup {Vote(u, n, n)}
      /\ log' = [log EXCEPT ![n] = l]
      /\ EndSubmit(n, s, l, st, st)
      /\ UNCHANGED <<election, beats, net>>
  BY <1>2, <1>3, <1>4, <1>5, <1>6 DEF SubmitToSoleVoter, LockFree, Ballot, Vote
<1>8. /\ u = state[n].currentTerm + 1 /\ state[n].currentTerm \in Nat
      /\ st.commitIndex = state[n].commitIndex /\ st.lastApplied = state[n].lastApplied
      /\ log[n] \in Seq(Entry) /\ Len(log[n]) \in Nat /\ state[n] \in DurableState
      /\ e \in Entry /\ e.term = u /\ e.command = c
  <2>1. e \in Entry /\ e.term = u /\ e.command = c
    BY <1>5 DEF Entry
  <2>. QED  BY <2>1, <1>1, <1>2, <1>3, CampaignRecord, NodeTypes
<1>9. /\ s \in Submission /\ s.entry.index = Len(log[n]) + 1 /\ s.entry.term = u
      /\ s.entry.command = c /\ s.replicated = {}
  <2>1. s \in Submission
    BY <1>1, <1>4, NewSubmissionType DEF Inv, TypeOK
  <2>. QED  BY <2>1, <1>4 DEF NewSubmission
<1>10. /\ l \in Seq(Entry) /\ Len(l) = Len(log[n]) + 1 /\ l[Len(log[n]) + 1] = e
  BY <1>6, <1>8, AppendAgrees
<1>11. /\ role'[n] = "leader" /\ leaderId'[n] = n /\ log'[n] = l
       /\ wins' = wins \cup {Victory(u, n)}
       /\ submit'[n] = Nil
       /\ \A k \in Node \ {n} : FALSE
  <2>1. submit'[n] = Nil
    BY <1>1, <1>7, EndSubmitFrees
  <2>. QED  BY <1>1, <1>7, <2>1 DEF BecomeLeader, Victory, Inv, TypeOK, TypeCore
<1>12. state'[n].currentTerm = u /\ diskState'[n].currentTerm = u
  <2>1. SameVote(state'[n], st) /\ SameVote(diskState'[n], st)
    BY <1>1, <1>7, <1>9, <1>10, EndSubmitVotes
  <2>. QED  BY <1>3, <2>1 DEF SameVote
<1>13. Undisturbed(n)' /\ election[n] = Nil
  <2>1. Undisturbed(n)'
    BY <1>1, <1>7, <1>11 DEF Attentive
  <2>. QED  BY <2>1, <1>7, <1>11 DEF Undisturbed
<1>14. Majority = 1
  <2>1. Cardinality(Node) = 1
    BY <1>7, FS_Singleton
  <2>. QED  BY <2>1 DEF Majority
<1>15. PICK h : /\ Matches(h)' /\ GroupInv(h) /\ Grows(g, h)
                /\ h.made[u] = l
                /\ \A t \in Nat \ {u} : h.made[t] = g.made[t]
                /\ h.acks[u][n] = Len(l)
  <2>1. u = Campaigning(n).currentTerm /\ \A k \in Node \ {n} : diskState'[k] = diskState[k]
    BY <1>2, <1>3, <1>11
  <2>2. PICK h : Extended(g, h, n, u, l)
    BY <1>1, <1>6, <1>7, <1>8, <1>11, <1>12, <1>13, <1>14, <2>1, SoleSubmitGroup
  <2>. QED  BY <2>2 DEF Extended
<1>16. CommitSound(h, l, st)
  <2>1. CommitSound(g, log[n], state[n]) /\ GroupType(h) /\ state[n].currentTerm <= st.currentTerm
    BY <1>1, <1>3, <1>8, <1>15 DEF NodeSound, GroupInv
  <2>. QED  BY <1>1, <1>6, <1>8, <1>15, <2>1, CommitLonger, SMTT(20)
<1>17. /\ CommitSound(h, l, state'[n]) /\ CommitSound(h, l, diskState'[n])
       /\ \A a \in acked' : a \in acked \/ EntrySound(h, a)
  <2>1. EntryHeld(h, n, s, l) /\ s.entry.term <= st.currentTerm
    <3>1. l[s.entry.index] = e /\ e = [term |-> s.entry.term, command |-> s.entry.command]
      BY <1>5, <1>9, <1>10
    <3>2. /\ s.entry.term <= st.currentTerm /\ l = h.made[s.entry.term]
          /\ Len(l) = s.entry.index /\ s.entry.index > 0 /\ n \notin s.replicated
      BY <1>3, <1>8, <1>9, <1>10, <1>15
    <3>3. \A v \in s.replicated \cup {n} : v = n /\ h.acks[u][n] >= s.entry.index
      BY <1>8, <1>9, <1>10, <1>15
    <3>. QED  BY <1>9, <3>1, <3>2, <3>3 DEF EntryHeld
  <2>. QED  BY <1>1, <1>7, <1>9, <1>10, <1>15, <1>16, <2>1, EndSubmitSound
<1>18. Frame(n)
  <2>1. wins \subseteq wins' /\ submit[n] = Nil /\ election'[n] = Nil
    BY <1>7, <1>11, <1>13
  <2>. QED  BY <2>1, <1>11 DEF Frame
<1>19. RoleSound(h, n)' /\ SubmissionSound(h, n)'
  <2>1. Victory(state'[n].currentTerm, n) \in wins' /\ log'[n] = h.made[state'[n].currentTerm]
    BY <1>11, <1>12, <1>15
  <2>. QED  BY <1>11, <1>13, <2>1, NewLeader
<1>20. CommitSound(h, log[n], state[n])' /\ CommitSound(h, log[n], diskState[n])'
  <2>1. CommitSound(h, log'[n], state'[n]) /\ CommitSound(h, log'[n], diskState'[n])
    BY <1>11, <1>17
  <2>. QED  BY <2>1
<1>21. NodeSound(h, n)' /\ OwnTerms(g, h, n)
  <2>1. OwnTerms(g, h, n)
    BY <1>11, <1>15 DEF OwnTerms
  <2>. QED  BY <1>19, <1>20, <2>1 DEF NodeSound
<1>22. Sound(h)'
  BY <1>1, <1>7, <1>15, <1>17, <1>18, <1>21, StepSound
<1>. QED  BY <1>22 DEF SafetyInv

\* What a node's submission is sure of while it waits for an answer.
LEMMA SubmissionKnown ==
  ASSUME Inv, SubmissionInv, NEW n \in Node, submit[n] # Nil, NEW g, NodeSound(g, n)
  PROVE  /\ role[n] = "leader" /\ n \notin submit[n].replicated
         /\ submit[n].entry.term = state[n].currentTerm
         /\ submit[n].entry.term \in Nat /\ submit[n].entry.index \in Nat
         /\ submit[n].entry.index > 0 /\ Len(log[n]) = submit[n].entry.index
         /\ log[n][submit[n].entry.index]
              = [term |-> submit[n].entry.term, command |-> submit[n].entry.command]
         /\ log[n] = g.made[submit[n].entry.term]
         /\ Victory(submit[n].entry.term, n) \in wins
         /\ \A v \in submit[n].replicated \cup {n} :
              g.acks[submit[n].entry.term][v] >= submit[n].entry.index
<1>1. /\ role[n] = "leader" /\ n \notin submit[n].replicated
      /\ submit[n].entry.term = state[n].currentTerm /\ submit[n].entry.index > 0
      /\ \A v \in submit[n].replicated \cup {n} :
           g.acks[submit[n].entry.term][v] >= submit[n].entry.index
  BY DEF NodeSound, SubmissionSound
<1>2. /\ log[n] = g.made[submit[n].entry.term]
      /\ Victory(submit[n].entry.term, n) \in wins
  BY <1>1 DEF NodeSound, RoleSound
<1>3. /\ Len(log[n]) = submit[n].entry.index
      /\ log[n][submit[n].entry.index]
           = [term |-> submit[n].entry.term, command |-> submit[n].entry.command]
  BY DEF SubmissionInv, EntryLast
<1>4. submit[n].entry.term \in Nat /\ submit[n].entry.index \in Nat
  BY NodeTypes
<1>. QED  BY <1>1, <1>2, <1>3, <1>4

\* The loop goes on after a call, at a node that still leads.
GoesOn(g, h, n, s, base) ==
  /\ Matches(h)' /\ GroupInv(h) /\ Grows(g, h) /\ h.made = g.made
  /\ s \in Submission /\ s.entry = submit[n].entry /\ s.todo \subseteq Peers(n)
  /\ EntryHeld(h, n, s, log[n])
  /\ \A k \in base : k \in net \/ \E o \in net : IsRequest(o) /\ k = Orphan(o)
  /\ UNCHANGED <<state, diskState, role, leaderId, log, election, beats, ballots, wins>>

LEMMA ResumeCalls ==
  ASSUME Stepping, NEW n \in Node, submit[n] # Nil, NEW g, Sound(g),
         NEW h, NEW s, NEW base, GoesOn(g, h, n, s, base),
         NEW prog, DictsOK(prog), CallNextPeer(n, s, log[n], state[n], prog, base)
  PROVE  SafetyInv'
<1>. /\ Matches(h)' /\ GroupInv(h) /\ Grows(g, h) /\ h.made = g.made
     /\ s \in Submission /\ s.entry = submit[n].entry /\ s.todo \subseteq Peers(n)
     /\ EntryHeld(h, n, s, log[n])
     /\ \A k \in base : k \in net \/ \E o \in net : IsRequest(o) /\ k = Orphan(o)
     /\ UNCHANGED <<state, diskState, role, leaderId, log, election, beats, ballots, wins>>
  BY DEF GoesOn
<1>1. /\ Inv /\ Inv' /\ DiskForward /\ Attentive /\ CampaignSafety' /\ SubmissionInv
      /\ Matches(g) /\ GroupInv(g) /\ GroupType(g) /\ NodeSound(g, n) /\ GroupType(h)
  BY DEF Sound, Stepping, GroupInv
<1>2. /\ role[n] = "leader" /\ s.entry.term = state[n].currentTerm
      /\ s.entry.index > 0 /\ Len(log[n]) = s.entry.index
      /\ log[n] = h.made[state[n].currentTerm] /\ Victory(state[n].currentTerm, n) \in wins
  <2>1. /\ role[n] = "leader" /\ submit[n].entry.term = state[n].currentTerm
        /\ submit[n].entry.index > 0 /\ Len(log[n]) = submit[n].entry.index
        /\ log[n] = g.made[submit[n].entry.term] /\ Victory(submit[n].entry.term, n) \in wins
    BY <1>1, SubmissionKnown
  <2>. QED  BY <2>1
<1>3. state[n] \in DurableState /\ log[n] \in Seq(Entry) /\ progress[n] # <<>>
  BY <1>1, NodeTypes DEF Inv, CallsTracked, ReplicatorsTrack
<1>4. CommitSound(h, log[n], state[n])' /\ CommitSound(h, log[n], diskState[n])'
  BY <1>1, CommitStill
<1>5. CommitSound(h, log[n], state[n])
  <2>1. CommitSound(h, log'[n], state'[n])
    BY <1>4
  <2>. QED  BY <2>1
<1>6. /\ submit'[n] # Nil /\ submit'[n].entry = s.entry
      /\ submit'[n].replicated = s.replicated
      /\ \A k \in Node \ {n} : submit'[k] = submit[k]
      /\ acked' = acked
      /\ \A m \in net' : m \in base \/ MessageSound(h, m)'
  <2>1. Victory(state[n].currentTerm, n) \in wins' /\ role'[n] = "leader"
    BY <1>2
  <2>. QED  BY <1>1, <1>2, <1>3, <1>5, <2>1, NextPeerSound
<1>7. Frame(n)
  BY <1>6 DEF Frame, SameSubmission
<1>8. SubmissionSound(h, n)'
  BY <1>2, <1>6 DEF SubmissionSound, EntryHeld
<1>9. RoleSound(h, n)'
  BY <1>1, RoleStill DEF NodeSound
<1>10. NodeSound(h, n)' /\ OwnTerms(g, h, n)
  BY <1>4, <1>8, <1>9 DEF NodeSound, OwnTerms
<1>11. \A m \in net' :
         \/ m \in net
         \/ \E o \in net : IsRequest(o) /\ m = Orphan(o)
         \/ MessageSound(h, m)'
  BY <1>6
<1>12. Sound(h)'
  BY <1>1, <1>6, <1>7, <1>10, <1>11, StepSound
<1>. QED  BY <1>12 DEF SafetyInv

\* The loop ends, at a node that still leads or was deposed by the last answer.
LEMMA ResumeEnds ==
  ASSUME Stepping, NEW n \in Node, submit[n] # Nil,
         NEW g, Sound(g), NEW h, Matches(h)', GroupInv(h), Grows(g, h), h.made = g.made,
         NEW s \in Submission, s.entry = submit[n].entry, EntryHeld(h, n, s, log[n]),
         NEW st \in DurableState, NEW ds \in DurableState,
         st.commitIndex = state[n].commitIndex, st.lastApplied = state[n].lastApplied,
         \/ /\ st = state[n] /\ ds = diskState[n] /\ UNCHANGED <<role, leaderId>>
         \/ /\ ds = st /\ st.currentTerm > state[n].currentTerm
            /\ role'[n] = "follower" /\ leaderId'[n] = Nil
            /\ \A k \in Node \ {n} : role'[k] = role[k] /\ leaderId'[k] = leaderId[k],
         \A k \in net' : k \in net \/ \E o \in net : IsRequest(o) /\ k = Orphan(o),
         EndSubmit(n, s, log[n], st, ds),
         UNCHANGED <<log, election, beats, ballots, wins>>
  PROVE  SafetyInv'
<1>1. /\ Inv /\ Inv' /\ DiskForward /\ Attentive /\ CampaignSafety' /\ SubmissionInv
      /\ Matches(g) /\ GroupInv(g) /\ GroupType(g) /\ NodeSound(g, n) /\ GroupType(h)
  BY DEF Sound, Stepping, GroupInv
<1>2. s.entry.term = state[n].currentTerm /\ s.entry.term \in Nat
  <2>1. submit[n].entry.term = state[n].currentTerm /\ submit[n].entry.term \in Nat
    BY <1>1, SubmissionKnown
  <2>. QED  BY <2>1
<1>3. /\ state[n] \in DurableState /\ diskState[n] \in DurableState /\ log[n] \in Seq(Entry)
      /\ state[n].currentTerm \in Nat /\ diskState[n].currentTerm \in Nat
  BY <1>1, NodeTypes
<1>4. st.currentTerm \in Nat /\ state[n].currentTerm <= st.currentTerm
  BY <1>3 DEF DurableState
<1>5. CommitSound(h, log[n], st)
  <2>1. CommitSound(g, log[n], state[n])
    BY <1>1 DEF NodeSound
  <2>. QED  BY <1>1, <1>3, <1>4, <2>1, CommitSoundOn
<1>6. CommitSound(h, log[n], ds)
  <2>1. CASE ds = st
    BY <1>5, <2>1
  <2>2. CASE ds = diskState[n]
    <3>1. CommitSound(g, log[n], diskState[n])
          /\ diskState[n].currentTerm <= diskState[n].currentTerm
      BY <1>1, <1>3 DEF NodeSound
    <3>2. CommitSound(h, log[n], diskState[n])
      BY <1>1, <1>3, <3>1, CommitSoundOn
    <3>. QED  BY <2>2, <3>2
  <2>. QED  BY <2>1, <2>2
<1>7. /\ submit'[n] = Nil
      /\ \A k \in Node \ {n} : submit'[k] = submit[k]
      /\ \A k \in Node \ {n} : state'[k] = state[k] /\ diskState'[k] = diskState[k]
      /\ state'[n].currentTerm = st.currentTerm
      /\ CommitSound(h, log[n], state'[n]) /\ CommitSound(h, log[n], diskState'[n])
      /\ \A e \in acked' : e \in acked \/ EntrySound(h, e)
  <2>1. s.entry.term <= st.currentTerm
    BY <1>2, <1>4
  <2>2. PICK l \in Seq(Entry) : l = log[n]
    BY <1>3
  <2>3. /\ EndSubmit(n, s, l, st, ds) /\ CommitSound(h, l, st) /\ CommitSound(h, l, ds)
        /\ EntryHeld(h, n, s, l)
    BY <1>5, <1>6, <2>2
  <2>4. /\ submit'[n] = Nil
        /\ \A k \in Node \ {n} : submit'[k] = submit[k]
        /\ \A k \in Node \ {n} : state'[k] = state[k] /\ diskState'[k] = diskState[k]
        /\ state'[n].currentTerm = st.currentTerm
        /\ CommitSound(h, l, state'[n]) /\ CommitSound(h, l, diskState'[n])
        /\ \A e \in acked' : e \in acked \/ EntrySound(h, e)
    <3>1. Inv
      BY <1>1
    <3>. QED  BY <2>1, <2>3, <3>1, EndSubmitSound
  <2>. QED  BY <2>2, <2>4
<1>8. Frame(n)
  BY <1>7 DEF Frame, SameSubmission
<1>9. RoleSound(h, n)' /\ SubmissionSound(h, n)'
  <2>1. CASE st = state[n] /\ UNCHANGED <<role, leaderId>>
    <3>1. RoleSound(h, n)'
      BY <1>1, <1>7, <2>1, RoleStill DEF NodeSound
    <3>. QED  BY <3>1, <1>7 DEF SubmissionSound
  <2>2. CASE st.currentTerm > state[n].currentTerm /\ role'[n] = "follower" /\ leaderId'[n] = Nil
    <3>1. state'[n].currentTerm # state[n].currentTerm
      BY <1>3, <1>4, <1>7, <2>2
    <3>2. Undisturbed(n)'
      BY <1>1, <3>1 DEF Attentive
    <3>. QED  BY <2>2, <3>2, RoleFollows
  <2>. QED  BY <2>1, <2>2
<1>10. CommitSound(h, log[n], state[n])' /\ CommitSound(h, log[n], diskState[n])'
  <2>1. CommitSound(h, log'[n], state'[n]) /\ CommitSound(h, log'[n], diskState'[n])
    BY <1>7
  <2>. QED  BY <2>1
<1>11. NodeSound(h, n)' /\ OwnTerms(g, h, n)
  BY <1>9, <1>10 DEF NodeSound, OwnTerms
<1>12. Sound(h)'
  BY <1>1, <1>7, <1>8, <1>11, StepSound
<1>. QED  BY <1>12 DEF SafetyInv

\* A call of the submission returned and the loop goes on or ends.
LEMMA ResumeSound ==
  ASSUME Stepping, NEW n \in Node, NEW m \in net, m.task = "submit", Caller(m) = n,
         NEW g, Sound(g), NEW replicated \in SUBSET Node, n \notin replicated,
         \A v \in replicated : g.acks[submit[n].entry.term][v] >= submit[n].entry.index,
         NEW st \in DurableState, NEW ds \in DurableState,
         st.commitIndex = state[n].commitIndex, st.lastApplied = state[n].lastApplied,
         \/ /\ st = state[n] /\ ds = diskState[n] /\ UNCHANGED <<role, leaderId>>
         \/ /\ ds = st /\ st.currentTerm > state[n].currentTerm
            /\ role'[n] = "follower" /\ leaderId'[n] = Nil
            /\ \A k \in Node \ {n} : role'[k] = role[k] /\ leaderId'[k] = leaderId[k],
         NEW prog, DictsOK(prog), NEW base,
         \A k \in base : k \in net \/ \E o \in net : IsRequest(o) /\ k = Orphan(o),
         Resume(n, replicated, st, ds, prog, base),
         UNCHANGED <<log, election, beats, diskLog, crashes, ballots, wins>>
  PROVE  SafetyInv'
<1>1. /\ Inv /\ Inv' /\ DiskForward /\ Attentive /\ CampaignSafety' /\ SubmissionInv
      /\ Matches(g) /\ GroupInv(g) /\ GroupType(g) /\ NodeSound(g, n)
  BY DEF Sound, Stepping, GroupInv
<1>2. /\ submit[n] \in Submission /\ submit[n] # Nil /\ submit[n].todo \subseteq Peers(n)
  BY <1>1, SubmitCall, NilIsNoTask
<1>3. PICK h : Matches(h)' /\ GroupInv(h) /\ Grows(g, h) /\ h.made = g.made /\ h.acks = g.acks
  <2>1. \A k \in Node : \/ election'[k] = Nil
                        \/ election[k] # Nil /\ election'[k].term = election[k].term
    OBVIOUS
  <2>. QED  BY <1>1, <2>1, AdvanceStep
<1>4. PICK s : s = [submit[n] EXCEPT !.replicated = replicated]
  OBVIOUS
<1>5. /\ s \in Submission /\ s.entry = submit[n].entry /\ s.todo = submit[n].todo
      /\ s.replicated = replicated
  BY <1>2, <1>4 DEF Submission
<1>6. EntryHeld(h, n, s, log[n])
  <2>1. /\ submit[n].entry.index > 0 /\ Len(log[n]) = submit[n].entry.index
        /\ log[n][submit[n].entry.index]
             = [term |-> submit[n].entry.term, command |-> submit[n].entry.command]
        /\ log[n] = g.made[submit[n].entry.term]
        /\ g.acks[submit[n].entry.term][n] >= submit[n].entry.index
    BY <1>1, <1>2, SubmissionKnown
  <2>. QED  BY <1>3, <1>5, <2>1 DEF EntryHeld
<1>7. CASE /\ CallNextPeer(n, s, log[n], st, prog, base)
           /\ state' = [state EXCEPT ![n] = st]
           /\ diskState' = [diskState EXCEPT ![n] = ds]
  <2>1. /\ submit'[n] # Nil /\ state'[n] = st /\ diskState'[n] = ds
        /\ \A k \in Node \ {n} : state'[k] = state[k] /\ diskState'[k] = diskState[k]
        /\ state \in [Node -> DurableState] /\ diskState \in [Node -> DurableState]
        /\ state[n].currentTerm \in Nat /\ st.currentTerm \in Nat
    <3>1. submit'[n].entry = s.entry /\ submit' \in [Node -> {Nil} \cup Submission]
      BY <1>1, <1>5, <1>7, CallNextPeerEntry DEF Inv, TypeOK, TypeTasks
    <3>2. submit'[n] # Nil
      <4>1. PICK p \in s.todo : submit' = [submit EXCEPT ![n] = [s EXCEPT !.todo = s.todo \ {p}]]
        BY <1>7 DEF CallNextPeer
      <4>2. [s EXCEPT !.todo = s.todo \ {p}] \in Submission
        BY <1>5 DEF Submission
      <4>. QED  BY <1>1, <4>1, <4>2, NilIsNoTask DEF Inv, TypeOK, TypeTasks
    <3>3. state \in [Node -> DurableState] /\ diskState \in [Node -> DurableState]
      BY <1>1 DEF Inv, TypeOK, TypeCore
    <3>. QED  BY <1>7, <3>2, <3>3 DEF DurableState
  <2>2. ~(st.currentTerm > state[n].currentTerm)
    <3>. SUFFICES ASSUME st.currentTerm > state[n].currentTerm PROVE FALSE
      OBVIOUS
    <3>1. state'[n].currentTerm # state[n].currentTerm
      BY <2>1
    <3>2. Undisturbed(n)'
      BY <1>1, <3>1 DEF Attentive
    <3>. QED  BY <2>1, <3>2 DEF Undisturbed
  <2>3. st = state[n] /\ ds = diskState[n] /\ UNCHANGED <<role, leaderId>>
    BY <2>2
  <2>4. state' = state /\ diskState' = diskState
    BY <1>7, <2>1, <2>3
  <2>5. CallNextPeer(n, s, log[n], state[n], prog, base) /\ s.todo \subseteq Peers(n)
    BY <1>2, <1>5, <1>7, <2>3
  <2>6. GoesOn(g, h, n, s, base)
    BY <1>3, <1>5, <1>6, <2>3, <2>4, <2>5 DEF GoesOn
  <2>. QED  BY <1>2, <2>5, <2>6, ResumeCalls
<1>8. CASE EndSubmit(n, s, log[n], st, ds) /\ net' = base
  BY <1>2, <1>3, <1>5, <1>6, <1>8, ResumeEnds
<1>. QED  BY <1>4, <1>7, <1>8 DEF Resume

\* The answer to a submission's call.
LEMMA HandleSubmitReplySound ==
  ASSUME Stepping, NEW n \in Node, NEW m \in net, HandleSubmitReply(n, m), NEW g, Sound(g)
  PROVE  SafetyInv'
<1>1. /\ m.type = "AppendReply" /\ m.task = "submit" /\ m.dest = n
      /\ UNCHANGED <<log, election, beats, diskLog, crashes, ballots, wins>>
  BY DEF HandleSubmitReply
<1>2. /\ Inv /\ SubmissionInv /\ NodeSound(g, n) /\ MessageSound(g, m) /\ TypeTasks
      /\ Caller(m) = n /\ m.source \in Peers(n) /\ m.gen \in 1 .. Len(progress[n])
      /\ m.matchIndex \in Nat /\ m.term \in Nat
  <2>1. Inv /\ SubmissionInv /\ NodeSound(g, n) /\ MessageSound(g, m) /\ TypeTasks
    BY DEF Sound, Stepping, Inv, TypeOK
  <2>. QED  BY <1>1, <2>1, ReplyKind
<1>3. /\ submit[n] # Nil /\ submit[n].replicated \in SUBSET Node /\ m.source \in Node \ {n}
  BY <1>1, <1>2, SubmitCall, NilIsNoTask DEF Peers
<1>4. /\ n \notin submit[n].replicated
      /\ \A v \in submit[n].replicated : g.acks[submit[n].entry.term][v] >= submit[n].entry.index
  BY <1>2, <1>3, SubmissionKnown
<1>5. state[n] \in DurableState /\ diskState[n] \in DurableState /\ state[n].currentTerm \in Nat
  BY <1>2, NodeTypes
<1>6. \A k \in net \ {m} : k \in net \/ \E o \in net : IsRequest(o) /\ k = Orphan(o)
  OBVIOUS
<1>7. CASE Replicate(n, m)
  <2>1. DictsOK(ProgressAfter(n, m))
    <3>1. \A k \in Node : Len(ProgressAfter(n, m)[k]) >= Len(progress[k])
      <4>. SUFFICES ASSUME NEW k \in Node
                    PROVE  Len(ProgressAfter(n, m)[k]) >= Len(progress[k])
        OBVIOUS
      <4>1. Len(ProgressAfter(n, m)[k]) = Len(progress[k])
        BY <1>2, ProgressAfterType
      <4>2. Len(progress[k]) \in Nat
        BY <1>2 DEF TypeTasks
      <4>. QED  BY <4>1, <4>2
    <3>. QED  BY <1>2, <3>1, ProgressAfterType DEF DictsOK
  <2>2. PICK replicated \in SUBSET Node :
          replicated = Replicated(n, m) /\ replicated \subseteq submit[n].replicated \cup {m.source}
    BY <1>3 DEF Replicated
  <2>3. g.acks[submit[n].entry.term][m.source] >= submit[n].entry.index
    BY <1>1, <1>2, <1>7 DEF MessageSound, Replicate
  <2>4. /\ n \notin replicated
        /\ \A v \in replicated : g.acks[submit[n].entry.term][v] >= submit[n].entry.index
    BY <1>3, <1>4, <2>2, <2>3
  <2>5. /\ Resume(n, replicated, state[n], diskState[n], ProgressAfter(n, m), net \ {m})
        /\ UNCHANGED <<role, leaderId>>
    BY <1>7, <2>2 DEF Replicate
  <2>. QED  BY <1>1, <1>2, <1>5, <1>6, <2>1, <2>4, <2>5, ResumeSound
<1>8. CASE DeposedBySubmit(n, m)
  <2>1. DictsOK(progress)
    BY <1>2 DEF DictsOK, TypeTasks
  <2>2. PICK st \in DurableState : st = Observe(state[n], m.term)
    BY <1>2, Observed
  <2>3. /\ st.commitIndex = state[n].commitIndex /\ st.lastApplied = state[n].lastApplied
        /\ st.currentTerm > state[n].currentTerm
    <3>1. m.term > state[n].currentTerm
      BY <1>8 DEF DeposedBySubmit, Deposes
    <3>2. PICK u \in Nat : u = m.term
      BY <1>2
    <3>3. u > state[n].currentTerm /\ u >= state[n].currentTerm /\ st = Observe(state[n], u)
      BY <1>5, <2>2, <3>1, <3>2
    <3>4. /\ st.commitIndex = state[n].commitIndex /\ st.lastApplied = state[n].lastApplied
          /\ st.currentTerm = u
      BY <1>5, <3>3, ObserveKeeps
    <3>. QED  BY <3>3, <3>4
  <2>4. /\ role'[n] = "follower" /\ leaderId'[n] = Nil
        /\ \A k \in Node \ {n} : role'[k] = role[k] /\ leaderId'[k] = leaderId[k]
    BY <1>2, <1>8 DEF DeposedBySubmit, StepDown, Inv, TypeOK, TypeCore
  <2>5. Resume(n, submit[n].replicated, st, st, progress, net \ {m})
    BY <1>8, <2>2 DEF DeposedBySubmit
  <2>. QED  BY <1>1, <1>2, <1>3, <1>4, <1>6, <2>1, <2>3, <2>4, <2>5, ResumeSound
<1>9. CASE Retry(n, m)
  BY <1>1, <1>9, RetrySound
<1>. QED  BY <1>7, <1>8, <1>9 DEF HandleSubmitReply

LEMMA SubmitCallFailsSound ==
  ASSUME Stepping, NEW n \in Node, NEW m \in net, SubmitCallFails(n, m), NEW g, Sound(g)
  PROVE  SafetyInv'
<1>1. /\ m.task = "submit" /\ Caller(m) = n
      /\ UNCHANGED <<log, role, leaderId, progress, election, beats, diskLog, crashes, ballots, wins>>
  BY DEF SubmitCallFails, Calls
<1>2. Inv /\ SubmissionInv /\ NodeSound(g, n) /\ TypeTasks
  BY DEF Sound, Stepping, Inv, TypeOK
<1>3. submit[n] # Nil /\ submit[n].replicated \in SUBSET Node
  BY <1>1, <1>2, SubmitCall, NilIsNoTask
<1>4. /\ n \notin submit[n].replicated
      /\ \A v \in submit[n].replicated : g.acks[submit[n].entry.term][v] >= submit[n].entry.index
  BY <1>2, <1>3, SubmissionKnown
<1>5. state[n] \in DurableState /\ diskState[n] \in DurableState
  BY <1>2, NodeTypes
<1>6. DictsOK(progress)
  BY <1>2 DEF DictsOK, TypeTasks
<1>7. PICK left \in Leftovers({m}) :
        Resume(n, submit[n].replicated, state[n], diskState[n], progress, (net \ {m}) \cup left)
  BY DEF SubmitCallFails
<1>8. \A k \in (net \ {m}) \cup left : k \in net \/ \E o \in net : IsRequest(o) /\ k = Orphan(o)
  BY LeftoversOld
<1>. QED  BY <1>1, <1>3, <1>4, <1>5, <1>6, <1>7, <1>8, ResumeSound

-----------------------------------------------------------------------------
(* Taking over what a leader sends.                                        *)

\* The request m is a leader's and fits the log l.
Fits(g, l, m) ==
  GroupInv(g) /\ Rooted(g, l) /\ Payload(m) /\ Carried(g, m) /\ PrevMatches(l, m) /\ Won(g, m.term)

LEMMA FitsTaken ==
  ASSUME NEW g, NEW l \in Seq(Entry), NEW m, Fits(g, l, m)
  PROVE  /\ m.term \in Nat /\ m.leaderCommit \in Nat
         /\ g.made[m.term] \in Seq(Entry)
         /\ Extent(m) \in 0 .. Len(g.made[m.term]) /\ Extent(m) \in Nat
         /\ Merged(l, m) = Taken(l, g.made[m.term], Extent(m))
         /\ Merged(l, m) \in Seq(Entry) /\ Len(Merged(l, m)) \in Nat
         /\ Agree(Merged(l, m), g.made[m.term], Extent(m))
         /\ \A k \in Extent(m) + 1 .. Len(g.made[m.term]) : g.made[m.term][k].term = m.term
         /\ m.leaderCommit <= Extent(m)
         /\ Committed(g, g.made[m.term], m.leaderCommit, m.term)
<1>1. /\ GroupInv(g) /\ Rooted(g, l) /\ Payload(m) /\ Carried(g, m) /\ PrevMatches(l, m)
      /\ m.term \in Nat /\ m.leaderCommit \in Nat /\ GroupType(g)
  BY DEF Fits, Payload, GroupInv
<1>2. /\ Usable(m) /\ Extent(m) \in 0 .. Len(g.made[m.term])
      /\ Merged(l, m) = Taken(l, g.made[m.term], Extent(m))
  BY <1>1, MergedIsTaken
<1>3. g.made[m.term] \in Seq(Entry) /\ Len(g.made[m.term]) \in Nat
  BY <1>1, MadeShape
<1>4. /\ \A k \in Extent(m) + 1 .. Len(g.made[m.term]) : g.made[m.term][k].term = m.term
      /\ m.leaderCommit <= Extent(m)
      /\ Committed(g, g.made[m.term], m.leaderCommit, m.term)
  BY <1>1, <1>2 DEF Carried
<1>5. /\ Merged(l, m) \in Seq(Entry) /\ Len(Merged(l, m)) \in Nat
      /\ Agree(Merged(l, m), g.made[m.term], Extent(m))
  BY <1>2, <1>3, TakenShape
<1>. QED  BY <1>1, <1>2, <1>3, <1>4, <1>5

\* What a record says is committed stays in the log.
LEMMA MergedCommits ==
  ASSUME NEW g, NEW l \in Seq(Entry), NEW m, Fits(g, l, m),
         NEW a \in DurableState, a.currentTerm <= m.term, CommitSound(g, l, a)
  PROVE  CommitSound(g, Merged(l, m), a)
<1>1. a.currentTerm \in Nat /\ a.commitIndex \in Nat /\ GroupInv(g) /\ Won(g, m.term)
  BY DEF DurableState, Fits
<1>2. /\ m.term \in Nat /\ Extent(m) \in 0 .. Len(g.made[m.term])
      /\ Merged(l, m) = Taken(l, g.made[m.term], Extent(m))
      /\ \A k \in Extent(m) + 1 .. Len(g.made[m.term]) : g.made[m.term][k].term = m.term
  BY FitsTaken
<1>3. Committed(g, l, a.commitIndex, a.currentTerm) /\ a.lastApplied <= a.commitIndex
  BY DEF CommitSound
<1>4. Committed(g, Taken(l, g.made[m.term], Extent(m)), a.commitIndex, a.currentTerm)
  BY <1>1, <1>2, <1>3, TakenCommitted
<1>. QED  BY <1>2, <1>3, <1>4 DEF CommitSound

\* What the leader says is committed is in the log that the node now has.
LEMMA AppendedSound ==
  ASSUME NEW g, NEW l \in Seq(Entry), NEW m, Fits(g, l, m),
         NEW st \in DurableState, Accepted(st, l, m), CommitSound(g, l, st)
  PROVE  /\ CommitSound(g, Merged(l, m), StateAfterAppend(st, l, m))
         /\ StateAfterAppend(st, l, m).currentTerm = m.term
         /\ StateAfterAppend(st, l, m) \in DurableState
<1>1. /\ st.currentTerm \in Nat /\ st.commitIndex \in Nat /\ st.lastApplied \in Nat
      /\ GroupInv(g) /\ GroupType(g) /\ Payload(m)
  BY DEF DurableState, Fits, GroupInv
<1>2. /\ m.term \in Nat /\ m.leaderCommit \in Nat /\ Extent(m) \in Nat
      /\ g.made[m.term] \in Seq(Entry)
      /\ Merged(l, m) \in Seq(Entry) /\ Len(Merged(l, m)) \in Nat
      /\ Agree(Merged(l, m), g.made[m.term], Extent(m))
      /\ m.leaderCommit <= Extent(m)
      /\ Committed(g, g.made[m.term], m.leaderCommit, m.term)
  BY FitsTaken
<1>3. st.currentTerm <= m.term
  BY <1>1, <1>2 DEF Accepted, Stale
<1>4. PICK seen \in DurableState :
        /\ seen = Observe(st, m.term) /\ seen.currentTerm = m.term
        /\ seen.commitIndex = st.commitIndex /\ seen.lastApplied = st.lastApplied
  BY <1>1, <1>2, <1>3, ObserveKeeps
<1>5. PICK new \in Seq(Entry) : new = Merged(l, m)
  BY <1>2
<1>6. Committed(g, new, st.commitIndex, m.term) /\ st.lastApplied <= st.commitIndex
  <2>1. CommitSound(g, new, st)
    BY <1>3, <1>5, MergedCommits
  <2>2. Committed(g, new, st.commitIndex, st.currentTerm) /\ st.lastApplied <= st.commitIndex
    BY <2>1 DEF CommitSound
  <2>3. st.commitIndex <= Len(new) /\ Len(new) \in Nat
    BY <1>1, <1>2, <1>5, <2>2, CommittedWithin
  <2>4. Agree(new, new, st.commitIndex)
    BY <1>1, <2>3, AgreeReflexive
  <2>5. st.commitIndex <= st.commitIndex
    BY <1>1
  <2>. QED  BY <1>1, <1>2, <1>3, <2>2, <2>3, <2>4, <2>5, CommittedAlong
<1>7. Committed(g, new, m.leaderCommit, m.term) /\ m.leaderCommit <= Len(new)
  <2>1. /\ Len(new) \in Nat /\ Len(g.made[m.term]) \in Nat
        /\ Agree(new, g.made[m.term], m.leaderCommit)
    <3>1. Agree(new, g.made[m.term], Extent(m)) /\ Len(new) \in Nat
      BY <1>2, <1>5
    <3>2. Len(g.made[m.term]) \in Nat
      BY <1>2, LogShape
    <3>. QED  BY <1>2, <3>1, <3>2, AgreeLess
  <2>2. m.leaderCommit <= m.leaderCommit /\ m.term <= m.term
    BY <1>2
  <2>3. Committed(g, new, m.leaderCommit, m.term)
    BY <1>1, <1>2, <2>1, <2>2, CommittedAlong
  <2>. QED  BY <2>1, <2>3 DEF Agree
<1>8. CASE m.leaderCommit > st.commitIndex
  <2>1. StateAfterAppend(st, l, m) = [seen EXCEPT !.commitIndex = m.leaderCommit]
    <3>1. Smaller(m.leaderCommit, Len(new)) = m.leaderCommit
      BY <1>7 DEF Smaller
    <3>. QED  BY <1>4, <1>5, <1>8, <3>1 DEF StateAfterAppend
  <2>2. PICK end : end = [seen EXCEPT !.commitIndex = m.leaderCommit]
    OBVIOUS
  <2>3. /\ end \in DurableState /\ end.commitIndex = m.leaderCommit
        /\ end.currentTerm = m.term /\ end.lastApplied = st.lastApplied
    BY <1>2, <1>4, <2>2 DEF DurableState
  <2>4. end.lastApplied <= end.commitIndex
    BY <1>1, <1>2, <1>6, <1>8, <2>3
  <2>. QED  BY <1>5, <1>7, <2>1, <2>2, <2>3, <2>4 DEF CommitSound
<1>9. CASE ~(m.leaderCommit > st.commitIndex)
  <2>1. StateAfterAppend(st, l, m) = seen
    BY <1>4, <1>9 DEF StateAfterAppend
  <2>. QED  BY <1>4, <1>5, <1>6, <2>1 DEF CommitSound
<1>. QED  BY <1>8, <1>9

\* The node n takes over the log of the leader that sent m, and acknowledges it
\* if the term is on its disk.
LEMMA AcceptGroup ==
  ASSUME Inv, Inv', DiskForward, NEW n \in Node, NEW g, Matches(g), GroupInv(g),
         NEW m, Payload(m), Victory(m.term, m.source) \in wins, Carried(g, m),
         PrevMatches(log[n], m), diskState[n].currentTerm <= m.term,
         log' = [log EXCEPT ![n] = Merged(log[n], m)],
         election'[n] = Nil, \A k \in Node : election'[k] \in {Nil, election[k]},
         UNCHANGED <<ballots, wins>>,
         NEW saved \in BOOLEAN, saved => diskState'[n].currentTerm >= m.term
  PROVE  \E h : /\ Matches(h)' /\ GroupInv(h) /\ Grows(g, h) /\ h.made = g.made
                /\ saved => h.acks[m.term][n] >= Extent(m)
<1>1. /\ GroupType(g) /\ g.logs[n] = log[n] /\ log[n] \in Seq(Entry)
      /\ g.terms[n] = diskState[n].currentTerm
  BY GroupOf, NodeTypes DEF GroupInv
<1>2. Won(g, m.term) /\ Rooted(g, log[n])
  BY <1>1 DEF Won, Victory, Matches, GroupInv, LogsRooted
<1>3. Fits(g, log[n], m)
  BY <1>2 DEF Fits
<1>4. PICK u \in Nat, k \in Nat :
        /\ u = m.term /\ k = Extent(m) /\ k \in 0 .. Len(g.made[u])
        /\ Merged(log[n], m) = Taken(log[n], g.made[u], k)
        /\ \A j \in k + 1 .. Len(g.made[u]) : g.made[u][j].term = u
  <2>1. /\ m.term \in Nat /\ Extent(m) \in Nat
        /\ Extent(m) \in 0 .. Len(g.made[m.term])
        /\ Merged(log[n], m) = Taken(log[n], g.made[m.term], Extent(m))
        /\ \A j \in Extent(m) + 1 .. Len(g.made[m.term]) : g.made[m.term][j].term = m.term
    <3>1. PICK l \in Seq(Entry) : l = log[n]
      BY <1>1
    <3>. QED  BY <1>3, <3>1, FitsTaken
  <2>. QED  BY <2>1
<1>5. /\ g.made \in [Nat -> Seq(Entry)] /\ g.acks \in [Nat -> [Node -> Nat]]
      /\ g.acks[u] \in [Node -> Nat] /\ g.acks[u][n] \in Nat
  BY <1>1 DEF GroupType
<1>. DEFINE to == IF g.acks[u][n] >= k THEN g.acks[u][n] ELSE k
            row == [g.acks[u] EXCEPT ![n] = to]
            raised == [g.acks EXCEPT ![u] = row]
<1>6. row \in [Node -> Nat] /\ row[n] >= k
  <2>1. to \in Nat /\ to >= k
    <3>1. g.acks[u][n] \in Nat /\ k \in Nat
      BY <1>5
    <3>. QED  BY <3>1
  <2>. HIDE DEF to
  <2>. QED  BY <1>5, <2>1
<1>. HIDE DEF row
<1>7. raised \in [Nat -> [Node -> Nat]] /\ raised[u] = row
  BY <1>5, <1>6
<1>8. PICK acks \in [Nat -> [Node -> Nat]] : acks = IF saved THEN raised ELSE g.acks
  BY <1>5, <1>7
<1>9. PICK h : Matches(h)' /\ h.made = g.made /\ h.acks = acks
  <2>1. HistoryType(g.made, acks)
    BY <1>5, <1>8 DEF HistoryType
  <2>. QED  BY <2>1, NextGroup
<1>10. /\ GroupType(h) /\ h.logs = log' /\ h.ballots = g.ballots /\ h.wins = g.wins
       /\ g.logs = log /\ h.terms[n] = diskState'[n].currentTerm
  BY <1>9, GroupOf, NextGroupOf DEF Matches
<1>11. TermsForward(g, h)
  BY <1>9, DisksForward
<1>12. CampaignsEnd(g, h) /\ h.campaigns[n] = 0
  <2>1. \A c \in Node : h.campaigns[c] \in {0, g.campaigns[c]}
    BY <1>9, GroupOf, NextGroupOf
  <2>. QED  BY <1>9, <2>1, NextGroupOf DEF CampaignsEnd
<1>13. h.logs = [g.logs EXCEPT ![n] =
          IF Agree(g.logs[n], g.made[u], k) THEN g.logs[n] ELSE SubSeq(g.made[u], 1, k)]
  BY <1>1, <1>4, <1>10 DEF Taken
<1>14. \/ h.acks = g.acks
       \/ /\ h.terms[n] >= u
          /\ h.acks = [g.acks EXCEPT ![u] = [g.acks[u] EXCEPT ![n] =
               IF g.acks[u][n] >= k THEN g.acks[u][n] ELSE k]]
  BY <1>4, <1>8, <1>9, <1>10 DEF raised, row, to
<1>15. Accept(g, h, n, u, k)
  BY <1>1, <1>2, <1>4, <1>9, <1>10, <1>11, <1>12, <1>13, <1>14 DEF Accept
<1>16. GroupInv(h) /\ Grows(g, h)
  BY <1>10, <1>15, AcceptKeeps
<1>17. saved => h.acks[m.term][n] >= Extent(m)
  BY <1>4, <1>6, <1>7, <1>8, <1>9
<1>. QED  BY <1>9, <1>16, <1>17

-----------------------------------------------------------------------------
(* The steps of handle_append_entries.                                     *)

\* A node that follows a leader's request with its lock free has no task.
LEMMA ListenerIdle ==
  ASSUME Attentive, NEW n \in Node, NEW g, NodeSound(g, n), submit[n] = Nil,
         role'[n] = "follower", UNCHANGED <<election, beats, submit>>
  PROVE  election[n] = Nil /\ beats[n] = {}
<1>1. CASE role[n] = "follower"
  BY <1>1 DEF NodeSound, RoleSound
<1>2. CASE role[n] # "follower"
  BY <1>2 DEF Attentive, Undisturbed
<1>. QED  BY <1>1, <1>2

\* What the caller is told.
LEMMA AppendReplySound ==
  ASSUME Inv, NEW n \in Node, NEW m \in net, m.type = "AppendEntries", m.dest = n,
         NEW g, MessageSound(g, m), NEW h, GroupType(h),
         \A k \in Node \ {n} : role'[k] = role[k] /\ submit'[k] = submit[k],
         NEW reply, reply.type \in {"AppendReply", "ServerError"},
         reply.task = m.task, reply.dest = m.source,
         reply.type = "AppendReply" /\ reply.success =>
           reply.term = m.term /\ reply.source = n /\ h.acks[m.term][n] >= Extent(m)
  PROVE  MessageSound(h, reply)'
<1>1. /\ m \in AppendEntries /\ m.source \in Node \ {n} /\ Tracked(m) /\ m.term \in Nat
      /\ Len(m.entries) \in Nat /\ m.prevLogIndex \in Nat
  <2>1. m \in Message /\ Tracked(m)
    BY TrackedAll DEF Inv, TypeOK, TypeNet, AllTracked
  <2>2. m \in AppendEntries
    BY <2>1, MessageKinds
  <2>. QED  BY <2>1, <2>2 DEF Tracked, AppendEntries, Term, Index
<1>2. Caller(m) = m.source /\ Caller(reply) = m.source
  BY DEF Caller, IsRequest
<1>3. m.task = "heartbeat" => role'[m.source] = "leader"
  BY <1>1, <1>2 DEF MessageSound
<1>4. ASSUME m.task = "submit", reply.type = "AppendReply", reply.success
      PROVE  /\ reply.term = submit'[m.source].entry.term
             /\ h.acks[reply.term][reply.source] >= submit'[m.source].entry.index
  <2>1. /\ m.term = submit[m.source].entry.term
        /\ Extent(m) >= submit[m.source].entry.index
    BY <1>4 DEF MessageSound
  <2>2. submit[m.source] # Nil
    BY <1>1, <1>2, <1>4 DEF Tracked
  <2>3. submit[m.source].entry.index \in Nat
    BY <1>1, <2>2, NodeTypes
  <2>4. Extent(m) \in Nat /\ h.acks[m.term][n] \in Nat
    BY <1>1, AckShape DEF Extent
  <2>5. h.acks[m.term][n] >= submit[m.source].entry.index
    BY <1>4, <2>1, <2>3, <2>4
  <2>6. submit'[m.source] = submit[m.source]
    BY <1>1
  <2>. QED  BY <1>4, <2>1, <2>5, <2>6
<1>. QED  BY <1>2, <1>3, <1>4 DEF MessageSound

\* A request of an earlier term, or that does not fit the log.
LEMMA RefusedSound ==
  ASSUME Stepping, NEW n \in Node, NEW m \in net, HandleAppendEntries(n, m),
         ~Accepted(state[n], log[n], m), NEW g, Sound(g)
  PROVE  SafetyInv'
<1>1. /\ Inv /\ Inv' /\ DiskForward /\ Attentive /\ CampaignSafety'
      /\ Matches(g) /\ GroupInv(g) /\ GroupType(g) /\ NodeSound(g, n) /\ MessageSound(g, m)
  BY DEF Sound, Stepping, GroupInv
<1>2. /\ m.type = "AppendEntries" /\ m.dest = n /\ submit[n] = Nil
      /\ UNCHANGED <<election, beats, submit, ballots, wins, acked>>
  BY DEF HandleAppendEntries, LockFree, tasks, history
<1>3. PICK u \in Nat : u = m.term
  BY <1>1, <1>2, MessageKinds DEF Inv, TypeOK, TypeNet, AppendEntries, Term
<1>4. PICK st \in DurableState : st = Observe(state[n], u)
  BY <1>1, Observed
<1>5. PICK reply : reply = AppendAnswer(n, m, log[n], st)
  OBVIOUS
<1>6. /\ log' = [log EXCEPT ![n] = log[n]] /\ state' = [state EXCEPT ![n] = st]
      /\ diskState' = [diskState EXCEPT ![n] = st] /\ net' = Answer(m, reply)
  BY <1>3, <1>4, <1>5 DEF HandleAppendEntries, LogAfterAppend, StateAfterAppend
<1>7. /\ log' = log /\ state'[n] = st /\ diskState'[n] = st
      /\ \A k \in Node \ {n} : state'[k] = state[k] /\ diskState'[k] = diskState[k]
  BY <1>1, <1>6 DEF Inv, TypeOK, TypeCore
<1>8. /\ st.commitIndex = state[n].commitIndex /\ st.lastApplied = state[n].lastApplied
      /\ state[n].currentTerm <= st.currentTerm /\ st.currentTerm \in Nat
      /\ state[n].currentTerm \in Nat
  <2>1. state[n] \in DurableState /\ state[n].currentTerm \in Nat
    BY <1>1, NodeTypes
  <2>2. /\ st.commitIndex = state[n].commitIndex /\ st.lastApplied = state[n].lastApplied
        /\ state[n].currentTerm <= st.currentTerm
    BY <1>4, <2>1, ObserveKeeps
  <2>3. st.currentTerm \in Nat
    BY DEF DurableState
  <2>. QED  BY <2>1, <2>2, <2>3
<1>9. \/ Stale(state[n], m) /\ UNCHANGED <<role, leaderId>>
      \/ /\ ~Stale(state[n], m) /\ role'[n] = "follower" /\ leaderId'[n] = m.source
         /\ \A k \in Node \ {n} : role'[k] = role[k] /\ leaderId'[k] = leaderId[k]
  BY <1>1 DEF HandleAppendEntries, Inv, TypeOK, TypeCore
<1>10. Frame(n)
  BY <1>2, <1>7, <1>9 DEF Frame
<1>11. PICK h : Matches(h)' /\ GroupInv(h) /\ Grows(g, h) /\ h.made = g.made /\ h.acks = g.acks
  <2>1. \A k \in Node : \/ election'[k] = Nil
                        \/ election[k] # Nil /\ election'[k].term = election[k].term
    BY <1>2
  <2>. QED  BY <1>1, <1>2, <1>7, <2>1, AdvanceStep
<1>12. GroupType(h)
  BY <1>11 DEF GroupInv
<1>13. RoleSound(h, n)' /\ SubmissionSound(h, n)'
  <2>1. CASE Stale(state[n], m) /\ UNCHANGED <<role, leaderId>>
    <3>1. st.currentTerm = state[n].currentTerm
      BY <1>3, <1>4, <1>8, <2>1 DEF Stale, Observe
    <3>2. RoleSound(h, n)'
      BY <1>1, <1>2, <1>7, <1>11, <2>1, <3>1, RoleStill DEF NodeSound
    <3>. QED  BY <1>2, <3>2 DEF SubmissionSound
  <2>2. CASE ~Stale(state[n], m) /\ role'[n] = "follower" /\ leaderId'[n] = m.source
    <3>1. election[n] = Nil /\ beats[n] = {}
      BY <1>1, <1>2, <2>2, ListenerIdle
    <3>2. st.currentTerm = m.term
      <4>1. u >= state[n].currentTerm /\ state[n] \in DurableState
        BY <1>1, <1>3, <1>8, <2>2, NodeTypes DEF Stale
      <4>. QED  BY <1>3, <1>4, <4>1, ObserveKeeps
    <3>3. Victory(state'[n].currentTerm, leaderId'[n]) \in wins'
      BY <1>1, <1>2, <1>7, <2>2, <3>2 DEF MessageSound
    <3>. QED  BY <1>2, <2>2, <3>1, <3>3 DEF RoleSound, SubmissionSound
  <2>. QED  BY <1>9, <2>1, <2>2
<1>14. CommitSound(h, log[n], state[n])' /\ CommitSound(h, log[n], diskState[n])'
  BY <1>1, <1>7, <1>8, <1>11, <1>12, CommitObserved
<1>15. NodeSound(h, n)' /\ OwnTerms(g, h, n)
  BY <1>11, <1>13, <1>14 DEF NodeSound, OwnTerms
<1>16. MessageSound(h, reply)'
  <2>1. /\ reply.type = "AppendReply" /\ reply.task = m.task /\ reply.dest = m.source
        /\ ~reply.success
    BY <1>5 DEF AppendAnswer
  <2>2. \A k \in Node \ {n} : role'[k] = role[k] /\ submit'[k] = submit[k]
    BY <1>2, <1>9
  <2>. QED  BY <1>1, <1>2, <1>12, <2>1, <2>2, AppendReplySound
<1>17. \A k \in net' : k \in net \/ MessageSound(h, k)'
  <2>1. net' \subseteq net \cup {reply}
    BY <1>6 DEF Answer
  <2>. QED  BY <1>16, <2>1
<1>18. Sound(h)'
  BY <1>1, <1>2, <1>10, <1>11, <1>15, <1>17, StepSound
<1>. QED  BY <1>18 DEF SafetyInv

\* A request that fits: the log file is written, then what is newly committed
\* is applied, then the state file, unless applying raises.
LEMMA AcceptedSound ==
  ASSUME Stepping, NEW n \in Node, NEW m \in net, HandleAppendEntries(n, m),
         Accepted(state[n], log[n], m), NEW g, Sound(g)
  PROVE  SafetyInv'
<1>1. /\ Inv /\ Inv' /\ DiskForward /\ Attentive /\ CampaignSafety' /\ DiskBehind
      /\ Matches(g) /\ GroupInv(g) /\ GroupType(g) /\ NodeSound(g, n) /\ MessageSound(g, m)
  BY DEF Sound, Stepping, GroupInv, ElectionInv
<1>2. /\ m.type = "AppendEntries" /\ m.dest = n /\ submit[n] = Nil
      /\ UNCHANGED <<election, beats, submit, ballots, wins, acked>>
      /\ ~Stale(state[n], m) /\ PrevMatches(log[n], m)
  BY DEF HandleAppendEntries, LockFree, tasks, history, Accepted
<1>3. Payload(m) /\ m.source \in Node /\ m.term \in Nat
  <2>1. m \in AppendEntries
    BY <1>1, <1>2, MessageKinds DEF Inv, TypeOK, TypeNet
  <2>. QED  BY <2>1 DEF AppendEntries, Payload, Term, Index
<1>4. Victory(m.term, m.source) \in wins /\ Carried(g, m)
  BY <1>1, <1>2 DEF MessageSound
<1>5. PICK l \in Seq(Entry) : l = log[n]
  BY <1>1, NodeTypes
<1>6. Fits(g, l, m)
  <2>1. g.wins = wins /\ g.logs[n] = l
    BY <1>1, <1>5, GroupOf
  <2>2. Won(g, m.term) /\ Rooted(g, l)
    BY <1>1, <1>4, <2>1 DEF Won, Victory, GroupInv, LogsRooted
  <2>. QED  BY <1>1, <1>2, <1>3, <1>4, <1>5, <2>2 DEF Fits
<1>7. PICK merged \in Seq(Entry) : merged = Merged(l, m)
  BY <1>6, FitsTaken
<1>8. PICK a \in DurableState : a = state[n]
  BY <1>1, NodeTypes
<1>9. PICK st \in DurableState :
        st = StateAfterAppend(a, l, m) /\ st.currentTerm = m.term /\ CommitSound(g, merged, st)
  <2>1. Accepted(a, l, m) /\ CommitSound(g, l, a)
    BY <1>1, <1>5, <1>8 DEF NodeSound
  <2>. QED  BY <1>6, <1>7, <2>1, AppendedSound
<1>10. PICK end \in DurableState :
         end = StateAfterApply(store[n], st, merged) /\ end.currentTerm = m.term
         /\ CommitSound(g, merged, end)
  BY <1>9, AppliedSound, StateAfterApplyType
<1>11. PICK raises \in BOOLEAN : raises <=> ApplyRaises(store[n], st, merged)
  OBVIOUS
<1>12. PICK reply : reply = IF raises THEN Failure(n, m) ELSE AppendAnswer(n, m, merged, end)
  OBVIOUS
<1>13. LogAfterAppend(state[n], log[n], m) = merged /\ StateAfterAppend(state[n], log[n], m) = st
  BY <1>5, <1>7, <1>8, <1>9 DEF LogAfterAppend
<1>14. /\ log' = [log EXCEPT ![n] = merged] /\ state' = [state EXCEPT ![n] = end]
       /\ diskState' = IF raises THEN diskState ELSE [diskState EXCEPT ![n] = end]
       /\ net' = Answer(m, reply)
       /\ role' = [role EXCEPT ![n] = "follower"] /\ leaderId' = [leaderId EXCEPT ![n] = m.source]
  BY <1>2, <1>10, <1>11, <1>12, <1>13 DEF HandleAppendEntries
<1>15. /\ log'[n] = merged /\ state'[n] = end
       /\ diskState'[n] = IF raises THEN diskState[n] ELSE end
       /\ role'[n] = "follower" /\ leaderId'[n] = m.source
       /\ \A k \in Node \ {n} : /\ state'[k] = state[k] /\ diskState'[k] = diskState[k]
                                /\ log'[k] = log[k] /\ role'[k] = role[k]
                                /\ leaderId'[k] = leaderId[k]
  BY <1>1, <1>14 DEF Inv, TypeOK, TypeCore
<1>16. election[n] = Nil /\ beats[n] = {}
  BY <1>1, <1>2, <1>15, ListenerIdle
<1>17. Frame(n)
  BY <1>2, <1>15, <1>16 DEF Frame
<1>18. diskState[n].currentTerm <= m.term
  <2>1. diskState[n].currentTerm <= state[n].currentTerm
    BY <1>1, NodeTypes DEF DiskBehind, Rises, SameVote
  <2>2. state[n].currentTerm <= m.term
    BY <1>1, <1>2, <1>3, NodeTypes DEF Stale
  <2>. QED  BY <1>1, <1>3, <2>1, <2>2, NodeTypes
<1>19. PICK saved \in BOOLEAN : saved = ~raises
  OBVIOUS
<1>20. PICK h : /\ Matches(h)' /\ GroupInv(h) /\ Grows(g, h) /\ h.made = g.made
                /\ saved => h.acks[m.term][n] >= Extent(m)
  <2>1. log' = [log EXCEPT ![n] = Merged(log[n], m)]
    BY <1>5, <1>7, <1>14
  <2>2. election'[n] = Nil /\ \A k \in Node : election'[k] \in {Nil, election[k]}
    BY <1>2, <1>16
  <2>3. saved => diskState'[n].currentTerm >= m.term
    <3>1. m.term >= m.term
      BY <1>3
    <3>. QED  BY <1>10, <1>15, <1>19, <3>1
  <2>. QED  BY <1>1, <1>2, <1>3, <1>4, <1>18, <2>1, <2>2, <2>3, AcceptGroup
<1>21. GroupType(h)
  BY <1>20 DEF GroupInv
<1>22. RoleSound(h, n)' /\ SubmissionSound(h, n)'
  BY <1>2, <1>4, <1>10, <1>15, <1>16 DEF RoleSound, SubmissionSound
<1>23. CommitSound(h, log[n], state[n])'
  BY <1>1, <1>10, <1>15, <1>20, <1>21, CommitSoundOn DEF DurableState
<1>24. CommitSound(h, log[n], diskState[n])'
  <2>1. PICK d \in DurableState : d = diskState[n]
    BY <1>1, NodeTypes
  <2>2. CommitSound(g, merged, d)
    BY <1>1, <1>5, <1>6, <1>7, <1>18, <2>1, MergedCommits DEF NodeSound
  <2>3. CommitSound(h, merged, d)
    BY <1>1, <1>20, <1>21, <2>2, CommitSoundOn DEF DurableState
  <2>4. CommitSound(h, merged, end)
    BY <1>15, <1>23
  <2>. QED  BY <1>15, <2>1, <2>3, <2>4
<1>25. NodeSound(h, n)' /\ OwnTerms(g, h, n)
  BY <1>20, <1>22, <1>23, <1>24 DEF NodeSound, OwnTerms
<1>26. MessageSound(h, reply)'
  <2>1. /\ reply.type \in {"AppendReply", "ServerError"} /\ reply.task = m.task
        /\ reply.dest = m.source
        /\ reply.type = "AppendReply" => saved /\ reply.term = m.term /\ reply.source = n
    BY <1>10, <1>12, <1>19 DEF AppendAnswer, Failure
  <2>2. \A k \in Node \ {n} : role'[k] = role[k] /\ submit'[k] = submit[k]
    BY <1>2, <1>15
  <2>. QED  BY <1>1, <1>2, <1>20, <1>21, <2>1, <2>2, AppendReplySound
<1>27. \A k \in net' : k \in net \/ MessageSound(h, k)'
  <2>1. net' \subseteq net \cup {reply}
    BY <1>14 DEF Answer
  <2>. QED  BY <1>26, <2>1
<1>28. Sound(h)'
  BY <1>1, <1>2, <1>17, <1>20, <1>25, <1>27, StepSound
<1>. QED  BY <1>28 DEF SafetyInv

LEMMA HandleAppendEntriesSound ==
  ASSUME Stepping, NEW n \in Node, NEW m \in net, HandleAppendEntries(n, m), NEW g, Sound(g)
  PROVE  SafetyInv'
BY RefusedSound, AcceptedSound

-----------------------------------------------------------------------------
(* Crashes.                                                                *)

\* A process started again from files that are sound.
LEMMA ReloadSound ==
  ASSUME Stepping, NEW n \in Node, NEW ds \in DurableState, NEW l \in Seq(Entry), NEW docs,
         Reload(n, ds, l, docs), NEW g, Sound(g),
         NEW h, Matches(h)', GroupInv(h), Grows(g, h), OwnTerms(g, h, n), CommitSound(h, l, ds),
         \A k \in net' :
           \/ k \in net
           \/ \E o \in net : IsRequest(o) /\ k = Orphan(o)
           \/ MessageSound(h, k)'
  PROVE  SafetyInv'
<1>1. /\ Inv /\ Inv' /\ DiskForward /\ Attentive /\ CampaignSafety'
  BY DEF Stepping
<1>2. /\ state'[n] = ds /\ diskState'[n] = ds /\ log'[n] = l
      /\ role'[n] = "follower" /\ leaderId'[n] = Nil
      /\ \A k \in Node \ {n} : /\ state'[k] = state[k] /\ diskState'[k] = diskState[k]
                               /\ log'[k] = log[k] /\ role'[k] = role[k]
                               /\ leaderId'[k] = leaderId[k]
  BY <1>1 DEF Reload, Inv, TypeOK, TypeCore
<1>3. /\ election'[n] = Nil /\ beats'[n] = {} /\ submit'[n] = Nil
      /\ \A k \in Node \ {n} : /\ election'[k] = election[k] /\ beats'[k] = beats[k]
                               /\ submit'[k] = submit[k]
  BY <1>1 DEF Reload, Inv, TypeOK, TypeTasks
<1>4. UNCHANGED <<ballots, wins, acked>>
  BY DEF Reload, history
<1>5. Frame(n)
  BY <1>2, <1>3, <1>4 DEF Frame, SameSubmission
<1>6. RoleSound(h, n)' /\ SubmissionSound(h, n)'
  BY <1>2, <1>3 DEF RoleSound, SubmissionSound
<1>7. NodeSound(h, n)'
  BY <1>2, <1>6 DEF NodeSound
<1>8. \A e \in acked' : e \in acked
  BY <1>4
<1>9. Sound(h)'
  BY <1>1, <1>5, <1>7, <1>8, StepSound
<1>. QED  BY <1>9 DEF SafetyInv

\* A crash that leaves the log as it was.
LEMMA ReloadSameLog ==
  ASSUME Stepping, NEW n \in Node, NEW ds \in DurableState, NEW docs,
         Reload(n, ds, diskLog[n], docs), Abandon(OwnCalls(n)),
         NEW a \in DurableState, a = state[n] \/ a = diskState[n],
         ds.commitIndex = a.commitIndex, ds.lastApplied = a.lastApplied,
         a.currentTerm <= ds.currentTerm, NEW g, Sound(g)
  PROVE  SafetyInv'
<1>1. /\ Inv /\ Inv' /\ DiskForward /\ LogSaved
      /\ Matches(g) /\ GroupInv(g) /\ GroupType(g) /\ NodeSound(g, n)
  BY DEF Sound, Stepping, GroupInv, SubmissionInv
<1>2. PICK l \in Seq(Entry) : l = log[n]
  BY <1>1, NodeTypes
<1>3. diskLog[n] = l /\ CommitSound(g, l, a)
  BY <1>1, <1>2 DEF LogSaved, NodeSound
<1>4. /\ log' = log /\ UNCHANGED <<ballots, wins>>
      /\ \A k \in Node : election'[k] \in {Nil, election[k]}
  BY <1>1, <1>2, <1>3 DEF Reload, history, Inv, TypeOK, TypeCore, TypeTasks
<1>5. PICK h : Matches(h)' /\ GroupInv(h) /\ Grows(g, h) /\ h.made = g.made
  <2>1. \A k \in Node : \/ election'[k] = Nil
                        \/ election[k] # Nil /\ election'[k].term = election[k].term
    BY <1>4
  <2>. QED  BY <1>1, <1>4, <2>1, AdvanceStep
<1>6. CommitSound(h, l, ds)
  BY <1>1, <1>3, <1>5, CommitSoundOn DEF GroupInv
<1>7. \A k \in net' : k \in net \/ \E o \in net : IsRequest(o) /\ k = Orphan(o)
  BY OwnCallsOfNet, AbandonOld
<1>8. OwnTerms(g, h, n)
  BY <1>5 DEF OwnTerms
<1>. QED  BY <1>3, <1>5, <1>6, <1>7, <1>8, ReloadSound

LEMMA RestartSound ==
  ASSUME Stepping, NEW n \in Node, Restart(n), NEW g, Sound(g)
  PROVE  SafetyInv'
<1>1. PICK ds \in DurableState : ds = diskState[n]
  BY NodeTypes DEF Stepping
<1>2. Reload(n, ds, diskLog[n], store[n]) /\ Abandon(OwnCalls(n))
  BY <1>1 DEF Restart
<1>3. ds.currentTerm <= ds.currentTerm
  BY DEF DurableState
<1>. QED  BY <1>1, <1>2, <1>3, ReloadSameLog

\* A sole voter, killed with its entry in the log file.
LEMMA CrashInSoleSubmitSound ==
  ASSUME Stepping, NEW n \in Node, NEW c \in Command, CrashInSoleSubmit(n, c), NEW g, Sound(g)
  PROVE  SafetyInv'
<1>1. /\ Inv /\ Inv' /\ DiskForward /\ DiskBehind
      /\ Matches(g) /\ GroupInv(g) /\ GroupType(g) /\ NodeSound(g, n)
  BY DEF Sound, Stepping, GroupInv, ElectionInv
<1>2. /\ state[n] \in DurableState /\ diskState[n] \in DurableState
      /\ log[n] \in Seq(Entry) /\ Len(log[n]) \in Nat
  BY <1>1, NodeTypes
<1>3. PICK t \in Nat : t = state[n].currentTerm
  BY <1>2 DEF DurableState
<1>4. PICK e \in Entry : e = [term |-> t, command |-> c] /\ e.term = t
  <2>1. [term |-> t, command |-> c] \in Entry
    BY <1>3 DEF Entry
  <2>. QED  BY <2>1
<1>5. PICK l \in Seq(Entry) : l = Append(log[n], e)
  BY <1>2, AppendAgrees
<1>6. PICK ds \in DurableState : ds = diskState[n]
  BY <1>2
<1>7. PICK docs : Reload(n, ds, l, docs)
  BY <1>3, <1>4, <1>5, <1>6 DEF CrashInSoleSubmit
<1>8. /\ Victory(t, n) \in wins /\ log[n] = g.made[t] /\ election[n] = Nil
      /\ CommitSound(g, log[n], diskState[n]) /\ diskState[n].currentTerm <= t
  <2>1. role[n] = "leader"
    BY DEF CrashInSoleSubmit
  <2>2. diskState[n].currentTerm <= t
    <3>1. diskState[n].currentTerm \in Nat
      BY <1>2 DEF DurableState
    <3>. QED  BY <1>1, <1>3, <3>1 DEF DiskBehind, Rises, SameVote
  <2>. QED  BY <1>1, <1>3, <2>1, <2>2 DEF NodeSound, RoleSound
<1>9. log' = [log EXCEPT ![n] = l] /\ UNCHANGED <<election, ballots, wins>>
  <2>1. \A k \in Node : election'[k] = election[k]
    BY <1>1, <1>7, <1>8 DEF Reload, Inv, TypeOK, TypeTasks
  <2>2. election' = election
    BY <1>1, <1>7, <2>1 DEF Reload, Inv, TypeOK, TypeTasks
  <2>. QED  BY <1>7, <2>2 DEF Reload, history
<1>10. PICK h : Extended(g, h, n, t, l)
  BY <1>1, <1>4, <1>5, <1>8, <1>9, ExtendGroup
<1>11. Matches(h)' /\ GroupInv(h) /\ Grows(g, h) /\ OwnTerms(g, h, n)
  BY <1>8, <1>9, <1>10 DEF Extended, OwnTerms
<1>12. CommitSound(h, l, ds)
  <2>1. GroupType(h) /\ ds.currentTerm <= ds.currentTerm
    BY <1>11 DEF GroupInv, DurableState
  <2>. QED  BY <1>1, <1>2, <1>5, <1>6, <1>8, <1>11, <2>1, CommitLonger
<1>13. Abandon(OwnCalls(n))
  BY DEF CrashInSoleSubmit
<1>14. \A k \in net' : k \in net \/ \E o \in net : IsRequest(o) /\ k = Orphan(o)
  BY <1>13, OwnCallsOfNet, AbandonOld
<1>. QED  BY <1>7, <1>11, <1>12, <1>14, ReloadSound

LEMMA CrashInSubmitSound ==
  ASSUME Stepping, NEW n \in Node, NEW m \in net, CrashInSubmit(n, m), NEW g, Sound(g)
  PROVE  SafetyInv'
<1>1. Inv
  BY DEF Stepping
<1>2. state[n] \in DurableState /\ diskState[n] \in DurableState
  BY <1>1, NodeTypes
<1>3. Abandon(OwnCalls(n))
  BY DEF CrashInSubmit
<1>4. PICK answered \in {m.type = "AppendReply", FALSE} :
        \E docs : Reload(n, IF answered /\ Deposes(n, m) THEN Observe(state[n], m.term)
                            ELSE diskState[n], diskLog[n], docs)
  <2>. HIDE DEF Reload
  <2>. QED  BY DEF CrashInSubmit
<1>5. PICK docs : Reload(n, IF answered /\ Deposes(n, m) THEN Observe(state[n], m.term)
                            ELSE diskState[n], diskLog[n], docs)
  BY <1>4
<1>6. CASE answered /\ Deposes(n, m)
  <2>1. m.term \in Nat
    BY <1>1, <1>4, <1>6, MessageKinds DEF Inv, TypeOK, TypeNet, AppendReply, Term
  <2>2. PICK u \in Nat : u = m.term
    BY <2>1
  <2>3. PICK ds \in DurableState : ds = Observe(state[n], u)
    BY <1>1, Observed
  <2>4. Reload(n, ds, diskLog[n], docs)
    BY <1>5, <1>6, <2>2, <2>3
  <2>5. /\ ds.commitIndex = state[n].commitIndex /\ ds.lastApplied = state[n].lastApplied
        /\ state[n].currentTerm <= ds.currentTerm
    <3>1. /\ ds.commitIndex = state[n].commitIndex /\ ds.lastApplied = state[n].lastApplied
          /\ ds.currentTerm >= state[n].currentTerm
      BY <1>2, <2>3, ObserveKeeps
    <3>. QED  BY <1>2, <3>1 DEF DurableState
  <2>. QED  BY <1>2, <1>3, <2>4, <2>5, ReloadSameLog
<1>7. CASE ~(answered /\ Deposes(n, m))
  <2>1. PICK ds \in DurableState : ds = diskState[n]
    BY <1>2
  <2>2. Reload(n, ds, diskLog[n], docs)
    BY <1>5, <1>7, <2>1
  <2>3. ds.currentTerm <= ds.currentTerm
    BY DEF DurableState
  <2>. QED  BY <1>3, <2>1, <2>2, <2>3, ReloadSameLog
<1>. QED  BY <1>6, <1>7

\* Killed after the log file was written.
LEMMA CrashInAppendSound ==
  ASSUME Stepping, NEW n \in Node, NEW m \in net, CrashInAppend(n, m), NEW g, Sound(g)
  PROVE  SafetyInv'
<1>1. /\ Inv /\ Inv' /\ DiskForward /\ DiskBehind
      /\ Matches(g) /\ GroupInv(g) /\ GroupType(g) /\ NodeSound(g, n) /\ MessageSound(g, m)
  BY DEF Sound, Stepping, GroupInv, ElectionInv
<1>2. /\ m.type = "AppendEntries" /\ m.dest = n
      /\ Accepted(state[n], log[n], m) /\ ~Stale(state[n], m) /\ PrevMatches(log[n], m)
  BY DEF CrashInAppend, Accepted
<1>3. Payload(m) /\ m.source \in Node /\ m.term \in Nat
  <2>1. m \in AppendEntries
    BY <1>1, <1>2, MessageKinds DEF Inv, TypeOK, TypeNet
  <2>. QED  BY <2>1 DEF AppendEntries, Payload, Term, Index
<1>4. Victory(m.term, m.source) \in wins /\ Carried(g, m)
  BY <1>1, <1>2 DEF MessageSound
<1>5. PICK l \in Seq(Entry) : l = log[n]
  BY <1>1, NodeTypes
<1>6. Fits(g, l, m)
  <2>1. g.wins = wins /\ g.logs[n] = l
    BY <1>1, <1>5, GroupOf
  <2>2. Won(g, m.term) /\ Rooted(g, l)
    BY <1>1, <1>4, <2>1 DEF Won, Victory, GroupInv, LogsRooted
  <2>. QED  BY <1>1, <1>2, <1>3, <1>4, <1>5, <2>2 DEF Fits
<1>7. PICK merged \in Seq(Entry) : merged = Merged(l, m)
  BY <1>6, FitsTaken
<1>8. PICK ds \in DurableState : ds = diskState[n]
  BY <1>1, NodeTypes
<1>9. PICK docs : Reload(n, ds, merged, docs)
  <2>1. LogAfterAppend(state[n], log[n], m) = merged
    BY <1>2, <1>5, <1>7 DEF LogAfterAppend
  <2>. HIDE DEF Reload
  <2>. QED  BY <1>8, <2>1 DEF CrashInAppend
<1>10. ds.currentTerm <= m.term
  <2>1. diskState[n].currentTerm <= state[n].currentTerm
    BY <1>1, NodeTypes DEF DiskBehind, Rises, SameVote
  <2>2. state[n].currentTerm <= m.term
    BY <1>1, <1>2, <1>3, NodeTypes DEF Stale
  <2>. QED  BY <1>1, <1>3, <1>8, <2>1, <2>2, NodeTypes
<1>11. /\ log' = [log EXCEPT ![n] = merged] /\ UNCHANGED <<ballots, wins>>
       /\ election'[n] = Nil /\ \A k \in Node : election'[k] \in {Nil, election[k]}
       /\ \A k \in Node \ {n} : role'[k] = role[k] /\ submit'[k] = submit[k]
  BY <1>1, <1>9 DEF Reload, history, Inv, TypeOK, TypeCore, TypeTasks
<1>12. PICK saved \in BOOLEAN : ~saved
  OBVIOUS
<1>13. PICK h : /\ Matches(h)' /\ GroupInv(h) /\ Grows(g, h) /\ h.made = g.made
                /\ saved => h.acks[m.term][n] >= Extent(m)
  <2>2. log' = [log EXCEPT ![n] = Merged(log[n], m)] /\ diskState[n].currentTerm <= m.term
    BY <1>5, <1>7, <1>8, <1>10, <1>11
  <2>3. /\ election'[n] = Nil /\ \A k \in Node : election'[k] \in {Nil, election[k]}
        /\ UNCHANGED <<ballots, wins>>
    BY <1>11
  <2>4. saved => diskState'[n].currentTerm >= m.term
    BY <1>12
  <2>. QED  BY <1>1, <1>2, <1>3, <1>4, <2>2, <2>3, <2>4, AcceptGroup
<1>14. GroupType(h)
  BY <1>13 DEF GroupInv
<1>15. CommitSound(h, merged, ds)
  <2>1. CommitSound(g, merged, ds)
    BY <1>1, <1>5, <1>6, <1>7, <1>8, <1>10, MergedCommits DEF NodeSound
  <2>. QED  BY <1>1, <1>13, <1>14, <2>1, CommitSoundOn DEF DurableState
<1>16. PICK reply : reply = Failure(n, m)
  OBVIOUS
<1>17. MessageSound(h, reply)'
  <2>1. reply.type = "ServerError" /\ reply.task = m.task /\ reply.dest = m.source
    BY <1>16 DEF Failure
  <2>. QED  BY <1>1, <1>2, <1>11, <1>14, <2>1, AppendReplySound
<1>18. \A k \in net' :
         \/ k \in net
         \/ \E o \in net : IsRequest(o) /\ k = Orphan(o)
         \/ MessageSound(h, k)'
  <2>1. PICK left \in Leftovers(OwnCalls(n)) :
          net' = (Answer(m, reply) \ OwnCalls(n)) \cup left
    BY <1>16 DEF CrashInAppend
  <2>2. net' \subseteq net \cup {reply} \cup left
    BY <2>1 DEF Answer
  <2>3. \A k \in left : \E o \in net : IsRequest(o) /\ k = Orphan(o)
    BY OwnCallsOfNet, LeftoversOld
  <2>. QED  BY <1>17, <2>2, <2>3
<1>19. OwnTerms(g, h, n)
  BY <1>13 DEF OwnTerms
<1>. QED  BY <1>9, <1>13, <1>15, <1>18, <1>19, ReloadSound

-----------------------------------------------------------------------------
(* Every step.                                                             *)

LEMMA InitSafety == Init => SafetyInv
<1>. SUFFICES ASSUME Init
              PROVE  SafetyInv
  OBVIOUS
<1>. DEFINE g == [terms |-> [n \in Node |-> diskState[n].currentTerm], logs |-> log,
                  campaigns |-> [n \in Node |-> 0], ballots |-> ballots, wins |-> wins,
                  made |-> [t \in Nat |-> <<>>], acks |-> [t \in Nat |-> [v \in Node |-> 0]]]
<1>1. /\ g.terms = [n \in Node |-> 0] /\ g.logs = [n \in Node |-> <<>>] /\ g.logs = log
      /\ g.campaigns = [n \in Node |-> 0] /\ g.ballots = {} /\ g.wins = {}
      /\ g.ballots = ballots /\ g.wins = wins
      /\ g.made = [t \in Nat |-> <<>>] /\ g.acks = [t \in Nat |-> [v \in Node |-> 0]]
      /\ g.terms = [n \in Node |-> diskState[n].currentTerm]
  BY DEF Init, InitialState
<1>. HIDE DEF g
<1>2. <<>> \in Seq(Entry) /\ Len(<<>>) = 0
  BY EmptySeq
<1>3. GroupType(g)
  BY <1>1, <1>2 DEF GroupType
<1>4. Matches(g)
  BY <1>1, <1>3 DEF Matches, Init
<1>5. GroupInv(g)
  <2>1. WinsCounted(g) /\ BallotsKnown(g) /\ CampaignsOpen(g) /\ LateCampaignsLost(g)
        /\ VotersKept(g)
    BY <1>1 DEF WinsCounted, BallotsKnown, CampaignsOpen, LateCampaignsLost, VotersKept
  <2>2. MadeByWinners(g) /\ LeadersKept(g)
    BY <1>1 DEF MadeByWinners, LeadersKept, Won
  <2>3. Rooted(g, <<>>)
    BY <1>2 DEF Rooted
  <2>4. MadeRooted(g) /\ LogsRooted(g)
    BY <1>1, <1>2, <2>3 DEF MadeRooted, LogsRooted
  <2>5. AcksMade(g) /\ AcksKept(g)
    BY <1>1, <1>2 DEF AcksMade, AcksKept, AckKept
  <2>. QED  BY <1>3, <2>1, <2>2, <2>4, <2>5 DEF GroupInv
<1>6. ASSUME NEW n \in Node
      PROVE  NodeSound(g, n)
  <2>1. SubmissionSound(g, n) /\ RoleSound(g, n)
    BY DEF Init, SubmissionSound, RoleSound
  <2>2. /\ state[n].commitIndex = 0 /\ state[n].lastApplied = 0
        /\ diskState[n].commitIndex = 0 /\ diskState[n].lastApplied = 0
    BY DEF Init, InitialState
  <2>. QED  BY <2>1, <2>2 DEF NodeSound, CommitSound, Committed
<1>7. net = {} /\ acked = {}
  BY DEF Init
<1>. QED  BY <1>4, <1>5, <1>6, <1>7 DEF Sound, SafetyInv

LEMMA StutterSafety ==
  ASSUME SafetyInv, UNCHANGED vars
  PROVE  SafetyInv'
<1>1. PICK g : Sound(g)
  BY DEF SafetyInv
<1>2. Matches(g)'
  BY <1>1 DEF Sound, Matches, vars
<1>3. \A n \in Node : NodeSound(g, n)'
  BY <1>1 DEF Sound, NodeSound, SubmissionSound, RoleSound, vars
<1>4. ASSUME NEW m \in net'
      PROVE  MessageSound(g, m)'
  <2>1. MessageSound(g, m)
    BY <1>1, <1>4 DEF Sound, vars
  <2>. QED  BY <2>1 DEF MessageSound, vars
<1>5. GroupInv(g) /\ \A e \in acked' : EntrySound(g, e)
  BY <1>1 DEF Sound, vars
<1>6. Sound(g)'
  BY <1>2, <1>3, <1>4, <1>5 DEF Sound
<1>. QED  BY <1>6 DEF SafetyInv

LEMMA StepSafety ==
  ASSUME Stepping, SafetyInv, Next
  PROVE  SafetyInv'
<1>1. PICK g : Sound(g)
  BY DEF SafetyInv
<1>2. ASSUME NEW n \in Node, ElectionStep(n)
      PROVE  SafetyInv'
  <2>1. ASSUME StartElection(n)
        PROVE  SafetyInv'
    BY <1>1, <2>1, CampaignSound, SoleElectionSound
  <2>. QED  BY <1>1, <1>2, <2>1, HandleRequestVoteSound, HandleVoteReplySound, VoteCallFailsSound
            DEF ElectionStep
<1>3. ASSUME NEW n \in Node, HeartbeatStep(n)
      PROVE  SafetyInv'
  BY <1>1, <1>3, HeartbeatSound, SendHeartbeatSound, HandleHeartbeatReplySound,
     HeartbeatCallFailsSound DEF HeartbeatStep
<1>4. ASSUME NEW n \in Node, SubmitStep(n)
      PROVE  SafetyInv'
  BY <1>1, <1>4, SubmitCommandSound, SubmitToSoleVoterSound, HandleSubmitReplySound,
     SubmitCallFailsSound DEF SubmitStep
<1>5. ASSUME NEW n \in Node, CrashStep(n)
      PROVE  SafetyInv'
  BY <1>1, <1>5, RestartSound, CrashInAppendSound, CrashInSubmitSound, CrashInSoleSubmitSound
  DEF CrashStep
<1>6. ASSUME NEW n \in Node, AppendStep(n)
      PROVE  SafetyInv'
  BY <1>1, <1>6, HandleAppendEntriesSound DEF AppendStep
<1>. QED  BY <1>2, <1>3, <1>4, <1>5, <1>6 DEF Next

LEMMA AlwaysKnown == Spec => []Known
<1>1. Inv /\ SubmissionInv /\ [Next]_vars => SubmissionInv'
  BY StepSubmissionInv
<1>. QED  BY <1>1, InitSubmissionInv, AlwaysElectionInv, RuntimeImplementsElections,
          AbstractElectionsSafe, PTL DEF Spec, Known

LEMMA CalmIsSpec == Calm => Spec
<1>1. [Next /\ Attentive]_vars => [Next]_vars
  OBVIOUS
<1>. QED  BY <1>1, PTL DEF Calm, Spec

\* What the proofs of Raft's safety rest on.
LEMMA AlwaysSafe == Calm => [](Known /\ SafetyInv)
<1>1. Init => SafetyInv
  BY InitSafety
<1>2. Known /\ Known' /\ SafetyInv /\ [Next /\ Attentive]_vars => SafetyInv'
  <2>. SUFFICES ASSUME Known, Known', SafetyInv, [Next /\ Attentive]_vars
                PROVE  SafetyInv'
    OBVIOUS
  <2>1. CASE UNCHANGED vars
    BY <2>1, StutterSafety
  <2>2. CASE Next /\ Attentive
    <3>1. DiskForward
      BY <2>2, StepGood DEF Known, GoodStep
    <3>2. Stepping
      BY <2>2, <3>1 DEF Known, Stepping
    <3>. QED  BY <2>2, <3>2, StepSafety
  <2>. QED  BY <2>1, <2>2
<1>. QED  BY <1>1, <1>2, AlwaysKnown, CalmIsSpec, PTL DEF Calm

-----------------------------------------------------------------------------
(* What it means.                                                          *)

\* What a state with a history shows of one that is won.
LEMMA WonHasMajority ==
  ASSUME NEW g, Sound(g), NEW t, NEW n, Victory(t, n) \in wins
  PROVE  E!HasMajority(ballots, [term |-> t, node |-> n])
<1>1. WinsCounted(g) /\ g.wins = wins /\ g.ballots = ballots
  BY DEF Sound, GroupInv, Matches
<1>2. PICK Q \in Majorities : \A v \in Q : Vote(t, v, n) \in ballots
  BY <1>1 DEF WinsCounted, Victory
<1>3. PICK w : w = [term |-> t, node |-> n]
  OBVIOUS
<1>4. \A v \in Q : Ballot(w.term, v, w.node) \in ballots
  BY <1>2, <1>3 DEF Ballot, Vote
<1>5. Q \in SUBSET Node /\ Cardinality(Q) >= Majority
  BY DEF Majorities
<1>. QED  BY <1>3, <1>4, <1>5, VotesAreMajority

LEMMA SafeLeaders == Known /\ SafetyInv => LeaderElected /\ LeaderHintSound
<1>. SUFFICES ASSUME Known, NEW g, Sound(g)
              PROVE  LeaderElected /\ LeaderHintSound
  BY DEF SafetyInv
<1>1. \A n \in Node : RoleSound(g, n)
  BY DEF Sound, NodeSound
<1>. QED  BY <1>1, WonHasMajority DEF RoleSound, LeaderElected, LeaderHintSound

LEMMA SafeRequests == Known /\ SafetyInv => OnlyLeadersReplicate
<1>. SUFFICES ASSUME NEW g, Sound(g), NEW m \in net, m.type = "AppendEntries"
              PROVE  E!HasMajority(ballots, [term |-> m.term, node |-> m.source])
  BY DEF SafetyInv, OnlyLeadersReplicate
<1>1. Victory(m.term, m.source) \in wins
  BY DEF Sound, MessageSound
<1>. QED  BY <1>1, WonHasMajority

LEMMA SafeLogs == Known /\ SafetyInv => LogMatching
<1>. SUFFICES ASSUME Known, NEW g, Sound(g), NEW a \in Node, NEW b \in Node,
                     NEW i \in 1 .. Smaller(Len(log[a]), Len(log[b])),
                     log[a][i].term = log[b][i].term
              PROVE  SubSeq(log[a], 1, i) = SubSeq(log[b], 1, i)
  BY DEF SafetyInv, LogMatching
<1>1. PICK l \in Seq(Entry), c \in Seq(Entry) : l = log[a] /\ c = log[b]
  BY NodeTypes DEF Known
<1>2. Rooted(g, l) /\ Rooted(g, c)
  BY <1>1 DEF Sound, Matches, GroupInv, LogsRooted
<1>3. i \in 1 .. Len(l) /\ i \in 1 .. Len(c)
  BY <1>1 DEF Smaller
<1>4. \A j \in 1 .. i : l[j] = c[j]
  BY <1>1, <1>2, <1>3, RootedMatch
<1>5. /\ SubSeq(l, 1, i) \in Seq(Entry) /\ Len(SubSeq(l, 1, i)) = i
      /\ SubSeq(c, 1, i) \in Seq(Entry) /\ Len(SubSeq(c, 1, i)) = i
      /\ \A j \in 1 .. i : SubSeq(l, 1, i)[j] = l[j] /\ SubSeq(c, 1, i)[j] = c[j]
  BY <1>3
<1>6. SubSeq(l, 1, i) = SubSeq(c, 1, i)
  BY <1>4, <1>5, SeqEqual
<1>. QED  BY <1>1, <1>6

LEMMA SafeApplied == Known /\ SafetyInv => StateMachineSafety
<1>. SUFFICES ASSUME Known, NEW g, Sound(g)
              PROVE  StateMachineSafety
  BY DEF SafetyInv
<1>1. GroupInv(g) /\ GroupType(g) /\ Inv
  BY DEF Sound, GroupInv, Known
<1>2. ASSUME NEW n \in Node
      PROVE  /\ Committed(g, log[n], state[n].commitIndex, state[n].currentTerm)
             /\ state[n].lastApplied <= state[n].commitIndex
             /\ state[n].commitIndex <= Len(log[n])
  <2>1. /\ Committed(g, log[n], state[n].commitIndex, state[n].currentTerm)
        /\ state[n].lastApplied <= state[n].commitIndex
    BY DEF Sound, NodeSound, CommitSound
  <2>2. PICK l \in Seq(Entry), k \in Nat, t \in Nat :
          l = log[n] /\ k = state[n].commitIndex /\ t = state[n].currentTerm
    BY <1>1, NodeTypes
  <2>3. k <= Len(l)
    BY <1>1, <2>1, <2>2, CommittedWithin
  <2>. QED  BY <2>1, <2>2, <2>3
<1>3. ASSUME NEW n \in Node
      PROVE  /\ Len(Applied(n)) = state[n].lastApplied
             /\ \A i \in 1 .. Len(Applied(n)) : Applied(n)[i] = log[n][i]
  <2>1. PICK l \in Seq(Entry), k \in Nat : l = log[n] /\ k = state[n].lastApplied
    BY <1>1, NodeTypes
  <2>2. k <= Len(l)
    BY <1>1, <1>2, <2>1, NodeTypes
  <2>3. Len(SubSeq(l, 1, k)) = k /\ \A i \in 1 .. k : SubSeq(l, 1, k)[i] = l[i]
    BY <2>2
  <2>. QED  BY <2>1, <2>3 DEF Applied
<1>4. ASSUME NEW a \in Node, NEW b \in Node,
             NEW i \in 1 .. Smaller(Len(Applied(a)), Len(Applied(b)))
      PROVE  Applied(a)[i] = Applied(b)[i]
  <2>1. PICK k \in Nat, t \in Nat, j \in Nat, u \in Nat :
          /\ k = state[a].commitIndex /\ t = state[a].currentTerm
          /\ j = state[b].commitIndex /\ u = state[b].currentTerm
    BY <1>1, NodeTypes
  <2>2. /\ state[a].lastApplied \in Nat /\ state[b].lastApplied \in Nat
        /\ Len(Applied(a)) = state[a].lastApplied /\ Len(Applied(b)) = state[b].lastApplied
        /\ state[a].lastApplied <= k /\ state[b].lastApplied <= j
    BY <1>1, <1>2, <1>3, <2>1, NodeTypes
  <2>3. i \in 1 .. Len(Applied(a)) /\ i \in 1 .. Len(Applied(b))
        /\ i \in Nat /\ 0 < i /\ i <= k /\ i <= j
    <3>1. PICK x \in Nat, y \in Nat :
            x = Len(Applied(a)) /\ y = Len(Applied(b)) /\ x <= k /\ y <= j
      BY <2>2
    <3>2. i \in 1 .. Smaller(x, y)
      BY <3>1
    <3>3. i \in Nat /\ 0 < i /\ i <= x /\ i <= y
      BY <3>2 DEF Smaller
    <3>. QED  BY <3>1, <3>3
  <2>4. log[a][i] = log[b][i]
    <3>1. Committed(g, log[a], k, t) /\ Committed(g, log[b], j, u)
      BY <1>2, <2>1
    <3>. QED  BY <1>1, <2>3, <3>1, CommittedAgree
  <2>. QED  BY <1>3, <2>3, <2>4
<1>. QED  BY <1>2, <1>4 DEF StateMachineSafety

\* An entry of the log made by its leader is there in any log that agrees.
LEMMA EntryThere ==
  ASSUME NEW g, NEW e \in SubmittedEntry, EntrySound(g, e), NEW l \in Seq(Entry),
         GroupType(g), Agree(l, g.made[e.term], e.index)
  PROVE  Holds(l, e)
<1>1. e.term \in Nat /\ e.index \in Nat
  BY DEF SubmittedEntry
<1>2. PICK c \in Seq(Entry) : c = g.made[e.term]
  BY <1>1, MadeShape
<1>3. e.index \in 1 .. Len(c) /\ c[e.index].term = e.term /\ c[e.index].command = e.command
  BY <1>2 DEF EntrySound, Direct
<1>4. c[e.index] = [term |-> e.term, command |-> e.command]
  <2>1. c[e.index] \in Entry
    BY <1>2, <1>3
  <2>. QED  BY <1>3, <2>1 DEF Entry
<1>5. e.index <= Len(l) /\ l[e.index] = c[e.index]
  BY <1>2, <1>3 DEF Agree
<1>. QED  BY <1>4, <1>5 DEF Holds

LEMMA SafeLeaderLogs == Known /\ SafetyInv => LeaderCompleteness
<1>. SUFFICES ASSUME Known, NEW g, Sound(g), NEW e \in acked, NEW n \in Node,
                     role[n] = "leader", state[n].currentTerm >= e.term
              PROVE  Holds(log[n], e)
  BY DEF SafetyInv, LeaderCompleteness
<1>1. GroupInv(g) /\ GroupType(g) /\ EntrySound(g, e) /\ e \in SubmittedEntry /\ Inv
  BY DEF Sound, GroupInv, Known, Inv, TypeOK, TypeHistory
<1>2. PICK s \in Nat, i \in Nat, u \in Nat :
        s = e.term /\ i = e.index /\ u = state[n].currentTerm /\ s <= u
  BY <1>1, NodeTypes DEF SubmittedEntry
<1>3. Victory(u, n) \in wins /\ log[n] = g.made[u]
  BY <1>2 DEF Sound, NodeSound, RoleSound
<1>4. Won(g, u)
  BY <1>3 DEF Won, Victory, Sound, Matches
<1>5. Agree(g.made[u], g.made[s], i)
  BY <1>1, <1>2, <1>4, LeadersHold DEF EntrySound
<1>6. log[n] \in Seq(Entry)
  BY <1>1, NodeTypes
<1>. QED  BY <1>1, <1>2, <1>3, <1>5, <1>6, EntryThere

LEMMA SafeFiles == Known /\ SafetyInv => AckedDurable
<1>. SUFFICES ASSUME Known, NEW g, Sound(g), NEW e \in acked
              PROVE  Cardinality({n \in Node : Holds(diskLog[n], e)}) >= Majority
  BY DEF SafetyInv, AckedDurable
<1>1. /\ GroupInv(g) /\ GroupType(g) /\ EntrySound(g, e) /\ e \in SubmittedEntry
      /\ Inv /\ LogSaved /\ AcksKept(g) /\ g.logs = log
  BY DEF Sound, GroupInv, Known, Inv, TypeOK, TypeHistory, SubmissionInv, Matches
<1>2. PICK s \in Nat, i \in Nat : s = e.term /\ i = e.index
  BY <1>1 DEF SubmittedEntry
<1>3. Direct(g, s, i) /\ Chosen(g, s, i)
  BY <1>1, <1>2 DEF EntrySound
<1>4. PICK Q \in Majorities : \A v \in Q : g.acks[s][v] >= i
  BY <1>3 DEF Chosen
<1>5. Q \in SUBSET Node /\ Cardinality(Q) >= Majority
  BY DEF Majorities
<1>6. ASSUME NEW v \in Q
      PROVE  Holds(diskLog[v], e)
  <2>1. v \in Node /\ g.acks[s][v] >= i /\ g.acks[s][v] \in Nat
    BY <1>1, <1>4, <1>5, AckShape
  <2>2. i \in 1 .. g.acks[s][v]
    <3>1. i \in 1 .. Len(g.made[s])
      BY <1>3 DEF Direct
    <3>. QED  BY <1>2, <2>1, <3>1
  <2>3. PICK l \in Seq(Entry) : l = log[v]
    BY <1>1, <2>1, NodeTypes
  <2>4. Kept(g, l, s, i)
    BY <1>1, <1>3, <2>1, <2>2, <2>3 DEF AcksKept, AckKept
  <2>5. Agree(l, g.made[s], i)
    BY <1>1, <1>3, <2>4, ChosenKept
  <2>6. Holds(l, e)
    BY <1>1, <1>2, <2>5, EntryThere
  <2>. QED  BY <1>1, <2>1, <2>3, <2>6 DEF LogSaved
<1>7. {n \in Node : Holds(diskLog[n], e)} \in Majorities
  <2>1. PICK S \in SUBSET Node : S = {n \in Node : Holds(diskLog[n], e)}
    OBVIOUS
  <2>2. Q \in SUBSET S
    BY <1>5, <1>6, <2>1
  <2>. QED  BY <1>5, <2>1, <2>2, MajorityAbove
<1>. QED  BY <1>7 DEF Majorities

\* A node that leads in raft_runtime.py has the votes of a majority in the term
\* it acts in, while no role or term changes under a suspended task.
THEOREM LeadersAlwaysElected == Calm => []LeaderElected
<1>1. Known /\ SafetyInv => LeaderElected
  BY SafeLeaders
<1>. QED  BY <1>1, AlwaysSafe, PTL

\* The leader that a node names to clients (leader_id in status and in refusals)
\* was elected in the node's term.
THEOREM LeaderHintAlwaysSound == Calm => []LeaderHintSound
<1>1. Known /\ SafetyInv => LeaderHintSound
  BY SafeLeaders
<1>. QED  BY <1>1, AlwaysSafe, PTL

\* A request to append entries, abandoned or retried ones included, comes from a
\* node that its term elected.
THEOREM OnlyLeadersEverReplicate == Calm => []OnlyLeadersReplicate
<1>1. Known /\ SafetyInv => OnlyLeadersReplicate
  BY SafeRequests
<1>. QED  BY <1>1, AlwaysSafe, PTL

\* Two logs of a shard group with the same term at an index are the same up to
\* that index, whatever handle_append_entries was sent, late or twice.
THEOREM LogsAlwaysMatch == Calm => []LogMatching
<1>1. Known /\ SafetyInv => LogMatching
  BY SafeLogs
<1>. QED  BY <1>1, AlwaysSafe, PTL

\* No two nodes of a shard group apply different commands at an index.
THEOREM StateMachinesAlwaysSafe == Calm => []StateMachineSafety
<1>1. Known /\ SafetyInv => StateMachineSafety
  BY SafeApplied
<1>. QED  BY <1>1, AlwaysSafe, PTL

\* A write that submit_command answered "ok" is in the log of every later leader.
THEOREM LeadersAlwaysComplete == Calm => []LeaderCompleteness
<1>1. Known /\ SafetyInv => LeaderCompleteness
  BY SafeLeaderLogs
<1>. QED  BY <1>1, AlwaysSafe, PTL

\* A write that submit_command answered "ok" stays in the log files of a majority,
\* whatever crashes and elections follow.
THEOREM AckedAlwaysDurable == Calm => []AckedDurable
<1>1. Known /\ SafetyInv => AckedDurable
  BY SafeFiles
<1>. QED  BY <1>1, AlwaysSafe, PTL

-----------------------------------------------------------------------------
(* The documents of a node that has not crashed.                           *)

\* The documents are what the first k entries of the log wrote.
Written(docs, k, l) ==
  k <= Len(l) /\ Len(docs) = k /\ \A i \in 1 .. k : docs[i] = l[i].command

StoreInv ==
  crashes = 0 => \A n \in Node : Written(store[n], state[n].lastApplied, log[n])

\* What is applied is written after what was, in the order of the log.
LEMMA ApplyWritten ==
  ASSUME NEW docs \in Seq(Command), NEW st \in DurableState, NEW l \in Seq(Entry),
         Written(docs, st.lastApplied, l)
  PROVE  Written(StoreAfterApply(docs, st, l), StateAfterApply(docs, st, l).lastApplied, l)
<1>1. /\ st.lastApplied \in Nat /\ st.commitIndex \in Nat /\ Len(l) \in Nat
  BY DEF DurableState
<1>2. PICK k \in Nat : k = st.lastApplied
  BY <1>1
<1>3. PICK batch \in Seq(Command) : batch = Unapplied(st, l)
  BY UnappliedType
<1>4. /\ Len(batch) \in Nat /\ k + Len(batch) <= Len(l)
      /\ \A i \in 1 .. Len(batch) : batch[i] = l[k + i].command
  <2>1. PICK N \in Int : N = Smaller(st.commitIndex, Len(l)) - k /\ k + N <= Len(l)
    <3>1. PICK x \in Nat, y \in Nat : x = st.commitIndex /\ y = Len(l)
      BY <1>1
    <3>2. Smaller(x, y) \in Nat /\ Smaller(x, y) <= y
      BY <3>1 DEF Smaller
    <3>3. Smaller(x, y) - k \in Int /\ k + (Smaller(x, y) - k) <= y
      BY <1>2, <3>1, <3>2
    <3>. QED  BY <3>1, <3>3
  <2>2. batch = [i \in 1 .. N |-> l[k + i].command]
    BY <1>2, <1>3, <2>1 DEF Unapplied
  <2>3. PICK b \in Nat : b = Len(batch)
    BY <1>3, LenProperties
  <2>4. b <= N \/ b = 0
    <3>1. DOMAIN batch = 1 .. b
      <4>1. DOMAIN batch = 1 .. Len(batch)
        BY <1>3, LenProperties
      <4>. QED  BY <2>3, <4>1
    <3>2. DOMAIN batch = 1 .. N
      BY <2>2
    <3>3. b \in 1 .. b => b \in 1 .. N
      BY <3>1, <3>2
    <3>. QED  BY <2>1, <3>3
  <2>5. k <= Len(l)
    BY <1>2 DEF Written
  <2>6. k + b <= Len(l)
    BY <1>1, <2>1, <2>4, <2>5
  <2>7. \A i \in 1 .. b : batch[i] = l[k + i].command
    <3>1. \A i \in 1 .. b : i \in 1 .. N
      BY <2>1, <2>4
    <3>. QED  BY <2>2, <3>1
  <2>. QED  BY <2>3, <2>6, <2>7
<1>5. PICK c \in Nat : c = AppliedCount(docs, batch) /\ c <= Len(batch)
  BY <1>3, <1>4, AppliedCountType
<1>6. PICK sub \in Seq(Command) :
        sub = SubSeq(batch, 1, c) /\ Len(sub) = c /\ \A i \in 1 .. c : sub[i] = batch[i]
  <2>1. \A i \in 1 .. c : batch[i] \in Command
    BY <1>3, <1>4, <1>5, ElementOfSeq
  <2>2. PICK sub : sub = SubSeq(batch, 1, c)
    OBVIOUS
  <2>3. /\ sub \in Seq(Command) /\ Len(sub) = IF 1 <= c THEN c - 1 + 1 ELSE 0
        /\ \A i \in 1 .. c - 1 + 1 : sub[i] = batch[1 + i - 1]
    BY <1>5, <2>1, <2>2, SubSeqProperties
  <2>4. Len(sub) = c
    BY <1>5, <2>3
  <2>5. \A i \in 1 .. c : sub[i] = batch[i]
    BY <1>5, <2>3
  <2>. QED  BY <2>2, <2>3, <2>4, <2>5
<1>7. Len(docs) = k /\ \A i \in 1 .. k : docs[i] = l[i].command
  BY <1>2 DEF Written
<1>8. PICK all \in Seq(Command) :
        /\ all = docs \o sub /\ Len(all) = k + c
        /\ \A i \in 1 .. k + c : all[i] = IF i <= k THEN docs[i] ELSE sub[i - k]
  <2>1. PICK all : all = docs \o sub
    OBVIOUS
  <2>2. /\ all \in Seq(Command) /\ Len(all) = Len(docs) + Len(sub)
        /\ \A i \in 1 .. Len(docs) + Len(sub) :
             all[i] = IF i <= Len(docs) THEN docs[i] ELSE sub[i - Len(docs)]
    BY <1>6, <2>1, ConcatProperties
  <2>3. Len(docs) = k /\ Len(sub) = c
    BY <1>6, <1>7
  <2>4. Len(all) = k + c /\ \A i \in 1 .. k + c : all[i] = IF i <= k THEN docs[i] ELSE sub[i - k]
    BY <2>2, <2>3
  <2>. QED  BY <2>1, <2>2, <2>4
<1>9. \A i \in 1 .. k + c : all[i] = l[i].command
  <2>. SUFFICES ASSUME NEW i \in 1 .. k + c
                PROVE  all[i] = l[i].command
    OBVIOUS
  <2>1. CASE i <= k
    BY <2>1, <1>7, <1>8
  <2>2. CASE i > k
    <3>1. i - k \in 1 .. c /\ i - k \in 1 .. Len(batch) /\ k + (i - k) = i
      <4>1. i \in Nat /\ k \in Nat /\ c \in Nat /\ Len(batch) \in Nat /\ i <= k + c
            /\ c <= Len(batch)
        BY <1>2, <1>4, <1>5
      <4>. QED  BY <2>2, <4>1
    <3>2. all[i] = sub[i - k]
      BY <1>8, <2>2
    <3>3. sub[i - k] = batch[i - k]
      BY <1>6, <3>1
    <3>. QED  BY <1>4, <3>1, <3>2, <3>3
  <2>. QED  BY <2>1, <2>2
<1>10. StoreAfterApply(docs, st, l) = all
  BY <1>3, <1>5, <1>6, <1>8 DEF StoreAfterApply
<1>11. StateAfterApply(docs, st, l).lastApplied = k + c
  BY <1>2, <1>3, <1>5 DEF StateAfterApply, DurableState
<1>. QED  BY <1>4, <1>5, <1>8, <1>9, <1>10, <1>11 DEF Written

LEMMA WrittenOn ==
  ASSUME NEW docs, NEW k \in Nat, NEW l, NEW c, Written(docs, k, l), k <= Len(c),
         \A i \in 1 .. k : c[i] = l[i]
  PROVE  Written(docs, k, c)
BY DEF Written

\* Only node n's documents, log and record may change.
LEMMA StoreMoved ==
  ASSUME StoreInv, crashes' = crashes, NEW n \in Node,
         crashes = 0 => Written(store'[n], state'[n].lastApplied, log'[n]),
         \A k \in Node \ {n} :
           store'[k] = store[k] /\ log'[k] = log[k] /\ state'[k] = state[k]
  PROVE  StoreInv'
BY DEF StoreInv

LEMMA StoreStill ==
  ASSUME StoreInv, UNCHANGED <<crashes, store, log>>, NEW n \in Node,
         state'[n].lastApplied = state[n].lastApplied,
         \A k \in Node \ {n} : state'[k] = state[k]
  PROVE  StoreInv'
<1>1. crashes = 0 => Written(store'[n], state'[n].lastApplied, log'[n])
  BY DEF StoreInv
<1>. QED  BY <1>1, StoreMoved

LEMMA RecordKept ==
  ASSUME Inv, DiskBehind, NEW n \in Node, ElectionStep(n) \/ HeartbeatStep(n)
  PROVE  /\ UNCHANGED <<crashes, store, log>>
         /\ state'[n].lastApplied = state[n].lastApplied
         /\ \A k \in Node \ {n} : state'[k] = state[k]
<1>1. state \in [Node -> DurableState] /\ state[n] \in DurableState
  BY DEF Inv, TypeOK, TypeCore
<1>2. ASSUME NEW m \in net, m.type \in {"RequestVote", "VoteReply", "AppendReply"}
      PROVE  m.term \in Nat /\ (m.type = "RequestVote" => m.source \in Node)
  BY <1>2, MessageKinds DEF Inv, TypeOK, TypeNet, RequestVote, VoteReply, AppendReply, Term
<1>3. CASE StartElection(n)
  <2>1. /\ state' = [state EXCEPT ![n] = Campaigning(n)] /\ UNCHANGED <<crashes, store, log>>
    BY <1>3 DEF StartElection
  <2>2. Campaigning(n).lastApplied = state[n].lastApplied
    BY CampaignRecord
  <2>. QED  BY <1>1, <2>1, <2>2
<1>4. ASSUME NEW m \in net, HandleRequestVote(n, m)
      PROVE  /\ UNCHANGED <<crashes, store, log>>
             /\ state'[n].lastApplied = state[n].lastApplied
             /\ \A k \in Node \ {n} : state'[k] = state[k]
  <2>1. /\ state' = [state EXCEPT ![n] = StateAfterVote(state[n], log[n], m)]
        /\ UNCHANGED <<crashes, store, log>> /\ m.type = "RequestVote"
    BY <1>4 DEF HandleRequestVote
  <2>2. StateAfterVote(state[n], log[n], m).lastApplied = state[n].lastApplied
    <3>1. m.term \in Nat /\ m.source \in Node
      BY <1>2, <2>1
    <3>2. PICK st \in DurableState : st = state[n]
      BY <1>1
    <3>. QED  BY <3>1, <3>2, VoteRecord
  <2>. QED  BY <1>1, <2>1, <2>2
<1>5. ASSUME NEW m \in net, m.type \in {"VoteReply", "AppendReply"},
             state' = [state EXCEPT ![n] = Observe(@, m.term)]
      PROVE  /\ state'[n].lastApplied = state[n].lastApplied
             /\ \A k \in Node \ {n} : state'[k] = state[k]
  <2>1. PICK u \in Nat : u = m.term
    BY <1>2, <1>5
  <2>2. Observe(state[n], u).lastApplied = state[n].lastApplied
    BY <1>1, ObserveKeeps
  <2>. QED  BY <1>1, <1>5, <2>1, <2>2
<1>6. ASSUME NEW m \in net, HandleVoteReply(n, m)
      PROVE  /\ UNCHANGED <<crashes, store, log>>
             /\ state'[n].lastApplied = state[n].lastApplied
             /\ \A k \in Node \ {n} : state'[k] = state[k]
  <2>1. /\ UNCHANGED <<crashes, store, log>> /\ m.type = "VoteReply"
        /\ state' = state \/ state' = [state EXCEPT ![n] = Observe(@, m.term)]
    BY <1>6 DEF HandleVoteReply, LoseElection, WinElection, CountVote, AwaitVotes
  <2>. QED  BY <1>5, <2>1
<1>7. ASSUME NEW m \in net, HandleHeartbeatReply(n, m)
      PROVE  /\ UNCHANGED <<crashes, store, log>>
             /\ state'[n].lastApplied = state[n].lastApplied
             /\ \A k \in Node \ {n} : state'[k] = state[k]
  <2>1. /\ UNCHANGED <<crashes, store, log>> /\ m.type = "AppendReply"
        /\ state' = state \/ state' = [state EXCEPT ![n] = Observe(@, m.term)]
    BY <1>7 DEF HandleHeartbeatReply, EndHeartbeat, DeposedByHeartbeat, Retry
  <2>. QED  BY <1>5, <2>1
<1>8. CASE \/ Heartbeat(n) \/ \E p \in Peers(n) : SendHeartbeat(n, p)
           \/ \E m \in net : HeartbeatCallFails(n, m) \/ VoteCallFails(n, m)
  BY <1>8 DEF Heartbeat, SendHeartbeat, HeartbeatCallFails, VoteCallFails, AwaitVotes, core, disk
<1>. QED  BY <1>3, <1>4, <1>6, <1>7, <1>8 DEF ElectionStep, HeartbeatStep

\* A submission that goes on, or commits its entry and applies it.
LEMMA SubmitWrites ==
  ASSUME Inv, StoreInv, crashes' = crashes, NEW n \in Node,
         NEW st \in DurableState, st.lastApplied = state[n].lastApplied,
         NEW l \in Seq(Entry), log' = [log EXCEPT ![n] = l],
         Len(log[n]) <= Len(l), \A i \in 1 .. Len(log[n]) : l[i] = log[n][i],
         NEW s, s.entry.index \in Nat, NEW ds,
         \/ store' = store /\ state' = [state EXCEPT ![n] = st]
         \/ EndSubmit(n, s, l, st, ds)
  PROVE  StoreInv'
<1>1. /\ state \in [Node -> DurableState] /\ log \in [Node -> Seq(Entry)]
      /\ store \in [Node -> Seq(Command)] /\ store[n] \in Seq(Command)
      /\ log[n] \in Seq(Entry) /\ Len(log[n]) \in Nat /\ Len(l) \in Nat
      /\ st.lastApplied \in Nat
  <2>1. TypeCore
    BY DEF Inv, TypeOK
  <2>2. st.lastApplied \in Nat
    BY DEF DurableState
  <2>3. /\ state \in [Node -> DurableState] /\ log \in [Node -> Seq(Entry)]
        /\ store \in [Node -> Seq(Command)]
    BY <2>1 DEF TypeCore
  <2>4. store[n] \in Seq(Command) /\ log[n] \in Seq(Entry)
    BY <2>3
  <2>. QED  BY <2>2, <2>3, <2>4, LenProperties
<1>2. crashes = 0 => Written(store[n], st.lastApplied, l)
  <2>. SUFFICES ASSUME crashes = 0
                PROVE  Written(store[n], st.lastApplied, l)
    OBVIOUS
  <2>1. Written(store[n], st.lastApplied, log[n])
    BY DEF StoreInv
  <2>2. st.lastApplied <= Len(log[n])
    BY <2>1 DEF Written
  <2>3. st.lastApplied <= Len(l) /\ \A i \in 1 .. st.lastApplied : l[i] = log[n][i]
    BY <1>1, <2>2
  <2>. QED  BY <1>1, <2>1, <2>3, WrittenOn
<1>3. log'[n] = l /\ \A k \in Node \ {n} : log'[k] = log[k]
  BY <1>1
<1>4. ASSUME store' = store, state' = [state EXCEPT ![n] = st]
      PROVE  StoreInv'
  <2>1. state'[n] = st /\ \A k \in Node \ {n} : state'[k] = state[k]
    BY <1>1, <1>4
  <2>. QED  BY <1>2, <1>3, <1>4, <2>1, StoreMoved
<1>5. ASSUME EndSubmit(n, s, l, st, ds)
      PROVE  StoreInv'
  <2>1. PICK committed : committed = [st EXCEPT !.commitIndex = s.entry.index]
    OBVIOUS
  <2>2. committed \in DurableState /\ committed.lastApplied = st.lastApplied
    BY <2>1 DEF DurableState
  <2>3. PICK end, docs : /\ end = StateAfterApply(store[n], committed, l)
                         /\ docs = StoreAfterApply(store[n], committed, l)
    OBVIOUS
  <2>4. \/ store' = store /\ state' = [state EXCEPT ![n] = st]
        \/ store' = [store EXCEPT ![n] = docs] /\ state' = [state EXCEPT ![n] = end]
    BY <1>5, <2>1, <2>3 DEF EndSubmit
  <2>5. CASE store' = [store EXCEPT ![n] = docs] /\ state' = [state EXCEPT ![n] = end]
    <3>1. /\ store'[n] = docs /\ state'[n] = end
          /\ \A k \in Node \ {n} : store'[k] = store[k] /\ state'[k] = state[k]
      BY <1>1, <2>5
    <3>2. crashes = 0 => Written(docs, end.lastApplied, l)
      BY <1>1, <1>2, <2>2, <2>3, ApplyWritten
    <3>. QED  BY <1>3, <3>1, <3>2, StoreMoved
  <2>. QED  BY <1>4, <2>4, <2>5
<1>. QED  BY <1>4, <1>5

LEMMA SubmitStepWrites ==
  ASSUME Known, StoreInv, NEW n \in Node, SubmitStep(n)
  PROVE  StoreInv'
<1>1. Inv /\ DiskBehind /\ TypeCore /\ SubmissionInv
  BY DEF Known, ElectionInv, Inv, TypeOK
<1>2. PICK a \in DurableState : a = state[n]
  BY <1>1, NodeTypes
<1>3. PICK l0 \in Seq(Entry) : l0 = log[n]
  BY <1>1, NodeTypes
<1>4. ASSUME NEW c \in Command, NEW st \in DurableState, st.lastApplied = a.lastApplied,
             NEW s, s = NewSubmission(n, c, st.currentTerm),
             NEW l, l = Append(log[n], [term |-> st.currentTerm, command |-> c]),
             log' = [log EXCEPT ![n] = l], crashes' = crashes, NEW ds,
             \/ store' = store /\ state' = [state EXCEPT ![n] = st]
             \/ EndSubmit(n, s, l, st, ds)
      PROVE  StoreInv'
  <2>1. PICK e \in Entry : e = [term |-> st.currentTerm, command |-> c]
    BY DEF Entry, DurableState
  <2>2. /\ l \in Seq(Entry) /\ Len(l0) <= Len(l) /\ \A i \in 1 .. Len(l0) : l[i] = l0[i]
    BY <1>3, <1>4, <2>1
  <2>3. s.entry.index \in Nat
    BY <1>3, <1>4 DEF NewSubmission
  <2>. QED  BY <1>1, <1>2, <1>3, <1>4, <2>2, <2>3, SubmitWrites
<1>5. ASSUME NEW c \in Command, SubmitCommand(n, c)
      PROVE  StoreInv'
  <2>1. PICK s, l : /\ s = NewSubmission(n, c, a.currentTerm)
                    /\ l = Append(log[n], [term |-> a.currentTerm, command |-> c])
    OBVIOUS
  <2>2. /\ log' = [log EXCEPT ![n] = l] /\ crashes' = crashes
        /\ \/ CallNextPeer(n, s, l, a, progress, net) /\ state' = state
           \/ EndSubmit(n, s, l, a, diskState[n])
    BY <1>2, <1>5, <2>1 DEF SubmitCommand
  <2>3. CallNextPeer(n, s, l, a, progress, net) => store' = store
    BY DEF CallNextPeer
  <2>4. state' = state => state' = [state EXCEPT ![n] = a]
    BY <1>1, <1>2 DEF TypeCore
  <2>. QED  BY <1>4, <2>1, <2>2, <2>3, <2>4
<1>6. ASSUME NEW c \in Command, SubmitToSoleVoter(n, c)
      PROVE  StoreInv'
  <2>1. PICK st \in DurableState : st = Campaigning(n) /\ st.lastApplied = a.lastApplied
    BY <1>1, <1>2, CampaignRecord
  <2>2. PICK s, l : /\ s = NewSubmission(n, c, st.currentTerm)
                    /\ l = Append(log[n], [term |-> st.currentTerm, command |-> c])
    OBVIOUS
  <2>3. log' = [log EXCEPT ![n] = l] /\ crashes' = crashes /\ EndSubmit(n, s, l, st, st)
    BY <1>6, <2>1, <2>2 DEF SubmitToSoleVoter
  <2>. QED  BY <1>4, <2>1, <2>2, <2>3
<1>7. ASSUME NEW m \in net, m.task = "submit", Caller(m) = n, NEW replicated, NEW st \in DurableState,
             st.lastApplied = a.lastApplied, NEW ds, NEW prog, NEW base,
             Resume(n, replicated, st, ds, prog, base), log' = log, crashes' = crashes
      PROVE  StoreInv'
  <2>1. PICK s : s = [submit[n] EXCEPT !.replicated = replicated]
    OBVIOUS
  <2>2. s.entry.index \in Nat
    <3>1. submit[n] \in Submission
      BY <1>1, <1>7, SubmitCall
    <3>2. s.entry = submit[n].entry
      BY <2>1, <3>1 DEF Submission
    <3>. QED  BY <3>1, <3>2 DEF Submission, SubmittedEntry
  <2>3. \/ store' = store /\ state' = [state EXCEPT ![n] = st]
        \/ EndSubmit(n, s, l0, st, ds)
    <3>1. \/ CallNextPeer(n, s, l0, st, prog, base) /\ state' = [state EXCEPT ![n] = st]
          \/ EndSubmit(n, s, l0, st, ds)
      BY <1>3, <1>7, <2>1 DEF Resume
    <3>. QED  BY <3>1 DEF CallNextPeer
  <2>4. log' = [log EXCEPT ![n] = l0] /\ Len(l0) <= Len(l0)
    BY <1>1, <1>3, <1>7 DEF TypeCore
  <2>. QED  BY <1>1, <1>2, <1>3, <1>7, <2>2, <2>3, <2>4, SubmitWrites
<1>8. ASSUME NEW m \in net, HandleSubmitReply(n, m)
      PROVE  StoreInv'
  <2>1. /\ m.type = "AppendReply" /\ m.task = "submit" /\ m.dest = n
        /\ Caller(m) = n /\ log' = log /\ crashes' = crashes
    BY <1>8 DEF HandleSubmitReply, Caller, IsRequest
  <2>2. CASE Replicate(n, m)
    BY <1>2, <1>7, <2>1, <2>2 DEF Replicate
  <2>3. CASE DeposedBySubmit(n, m)
    <3>1. PICK u \in Nat : u = m.term
      BY <1>1, <2>1, MessageKinds DEF Inv, TypeOK, TypeNet, AppendReply, Term
    <3>2. PICK st \in DurableState : st = Observe(state[n], u)
      BY <1>1, Observed
    <3>3. st.lastApplied = a.lastApplied
      BY <1>2, <3>2, ObserveKeeps
    <3>4. Resume(n, submit[n].replicated, st, st, progress, net \ {m})
      BY <2>3, <3>1, <3>2 DEF DeposedBySubmit
    <3>. QED  BY <1>7, <2>1, <3>3, <3>4
  <2>4. CASE Retry(n, m)
    <3>1. store' = store /\ state' = state
      BY <2>4 DEF Retry
    <3>. QED  BY <2>1, <3>1, StoreStill
  <2>. QED  BY <1>8, <2>2, <2>3, <2>4 DEF HandleSubmitReply
<1>9. ASSUME NEW m \in net, SubmitCallFails(n, m)
      PROVE  StoreInv'
  <2>1. m.task = "submit" /\ Caller(m) = n /\ log' = log /\ crashes' = crashes
    BY <1>9 DEF SubmitCallFails, Calls
  <2>2. \E left : Resume(n, submit[n].replicated, a, diskState[n], progress, (net \ {m}) \cup left)
    BY <1>2, <1>9 DEF SubmitCallFails
  <2>. QED  BY <1>7, <2>1, <2>2
<1>. QED  BY <1>5, <1>6, <1>8, <1>9 DEF SubmitStep

\* What a leader sends never changes what is applied.
LEMMA AppendWrites ==
  ASSUME Known, SafetyInv, StoreInv, NEW n \in Node, NEW m \in net, HandleAppendEntries(n, m)
  PROVE  StoreInv'
<1>1. PICK g : Sound(g)
  BY DEF SafetyInv
<1>2. /\ Inv /\ TypeCore /\ DiskBehind /\ Matches(g) /\ GroupInv(g) /\ GroupType(g)
      /\ NodeSound(g, n) /\ MessageSound(g, m)
  BY <1>1 DEF Known, Inv, TypeOK, ElectionInv, Sound, GroupInv
<1>3. m.type = "AppendEntries" /\ m.dest = n /\ crashes' = crashes
  BY DEF HandleAppendEntries
<1>4. Payload(m) /\ m.term \in Nat
  <2>1. m \in AppendEntries
    BY <1>2, <1>3, MessageKinds DEF Inv, TypeOK, TypeNet
  <2>. QED  BY <2>1 DEF AppendEntries, Payload, Term, Index
<1>5. PICK l \in Seq(Entry), a \in DurableState, docs \in Seq(Command) :
        l = log[n] /\ a = state[n] /\ docs = store[n]
  BY <1>2 DEF TypeCore
<1>6. CASE ~Accepted(a, l, m)
  <2>1. PICK st : st = StateAfterAppend(a, l, m)
    OBVIOUS
  <2>2. st.lastApplied = a.lastApplied
    <3>1. st = Observe(a, m.term)
      BY <1>6, <2>1 DEF StateAfterAppend
    <3>. QED  BY <1>4, <3>1, ObserveKeeps
  <2>3. /\ log' = [log EXCEPT ![n] = l] /\ state' = [state EXCEPT ![n] = st] /\ store' = store
    BY <1>5, <1>6, <2>1 DEF HandleAppendEntries, LogAfterAppend
  <2>4. /\ log' = log /\ state'[n] = st /\ \A k \in Node \ {n} : state'[k] = state[k]
    BY <1>2, <1>5, <2>3 DEF TypeCore
  <2>. QED  BY <1>3, <1>5, <2>2, <2>3, <2>4, StoreStill
<1>7. CASE Accepted(a, l, m)
  <2>1. Fits(g, l, m)
    <3>1. Victory(m.term, m.source) \in wins /\ Carried(g, m)
      BY <1>2, <1>3 DEF MessageSound
    <3>2. g.wins = wins /\ g.logs[n] = l
      BY <1>2, <1>5, GroupOf
    <3>3. Won(g, m.term) /\ Rooted(g, l)
      BY <1>2, <3>1, <3>2 DEF Won, Victory, GroupInv, LogsRooted
    <3>. QED  BY <1>2, <1>4, <1>7, <3>1, <3>3 DEF Fits, Accepted
  <2>2. PICK merged \in Seq(Entry) : merged = Merged(l, m)
    BY <2>1, FitsTaken
  <2>3. PICK st \in DurableState : st = StateAfterAppend(a, l, m)
    BY <1>4, StateAfterAppendType
  <2>4. PICK end, all : end = StateAfterApply(docs, st, merged) /\ all = StoreAfterApply(docs, st, merged)
    OBVIOUS
  <2>5. /\ log' = [log EXCEPT ![n] = merged] /\ state' = [state EXCEPT ![n] = end]
        /\ store' = [store EXCEPT ![n] = all]
    BY <1>5, <1>7, <2>2, <2>3, <2>4 DEF HandleAppendEntries, LogAfterAppend
  <2>6. /\ log'[n] = merged /\ state'[n] = end /\ store'[n] = all
        /\ \A k \in Node \ {n} :
             store'[k] = store[k] /\ log'[k] = log[k] /\ state'[k] = state[k]
    BY <1>2, <2>5 DEF TypeCore
  <2>7. st.lastApplied = a.lastApplied
    <3>1. PICK u \in Nat : u = m.term
      BY <1>4
    <3>2. PICK seen : seen = Observe(a, u)
      OBVIOUS
    <3>3. seen \in DurableState /\ seen.lastApplied = a.lastApplied
      BY <3>2, ObserveKeeps
    <3>4. seen.lastApplied = [seen EXCEPT !.commitIndex = Smaller(m.leaderCommit, Len(merged))].lastApplied
      BY <3>3 DEF DurableState
    <3>. QED  BY <1>7, <2>2, <2>3, <3>1, <3>4, <3>2, <3>3 DEF StateAfterAppend
  <2>8. CommitSound(g, l, a) /\ CommitSound(g, merged, a)
    <3>1. CommitSound(g, l, a) /\ a.currentTerm \in Nat
      BY <1>2, <1>5 DEF NodeSound, DurableState
    <3>2. a.currentTerm <= m.term
      BY <1>4, <1>7, <3>1 DEF Accepted, Stale
    <3>. QED  BY <2>1, <2>2, <3>1, <3>2, MergedCommits
  <2>9. a.lastApplied \in Nat /\ a.lastApplied <= Len(merged)
        /\ \A i \in 1 .. a.lastApplied : merged[i] = l[i]
    <3>1. PICK k \in Nat, t \in Nat, d \in Nat :
            k = a.commitIndex /\ t = a.currentTerm /\ d = a.lastApplied /\ d <= k
      BY <2>8 DEF CommitSound, DurableState
    <3>2. Committed(g, l, k, t) /\ Committed(g, merged, k, t)
      BY <2>8, <3>1 DEF CommitSound
    <3>3. k <= Len(merged)
      BY <1>2, <3>2, CommittedWithin
    <3>4. GroupInv(g)
      BY <1>2
    <3>5. ASSUME NEW i \in 1 .. d
          PROVE  merged[i] = l[i]
      <4>1. i \in Nat /\ 0 < i /\ i <= k
        BY <3>1
      <4>. QED  BY <3>1, <3>2, <3>4, <4>1, CommittedAgree, SMTT(20)
    <3>6. Len(merged) \in Nat /\ d <= Len(merged)
      BY <3>1, <3>3, <2>2
    <3>. QED  BY <3>1, <3>5, <3>6
  <2>10. crashes = 0 => Written(all, end.lastApplied, merged)
    <3>. SUFFICES ASSUME crashes = 0
                  PROVE  Written(all, end.lastApplied, merged)
      OBVIOUS
    <3>1. Written(docs, a.lastApplied, l)
      BY <1>5 DEF StoreInv
    <3>2. Written(docs, a.lastApplied, merged)
      BY <2>9, <3>1, WrittenOn
    <3>. QED  BY <2>4, <2>7, <3>2, ApplyWritten
  <2>. QED  BY <1>3, <2>6, <2>10, StoreMoved
<1>. QED  BY <1>6, <1>7

LEMMA StepStore == Known /\ SafetyInv /\ StoreInv /\ [Next]_vars => StoreInv'
<1>. SUFFICES ASSUME Known, SafetyInv, StoreInv, [Next]_vars
              PROVE  StoreInv'
  OBVIOUS
<1>1. Inv /\ DiskBehind
  BY DEF Known, ElectionInv
<1>2. ASSUME NEW n \in Node, ElectionStep(n) \/ HeartbeatStep(n)
      PROVE  StoreInv'
  BY <1>1, <1>2, RecordKept, StoreStill
<1>3. ASSUME NEW n \in Node, CrashStep(n)
      PROVE  StoreInv'
  <2>1. crashes' = crashes + 1
    <3>1. CASE Restart(n)
      BY <3>1 DEF Restart, Reload
    <3>2. ASSUME NEW m \in net, CrashInAppend(n, m)
          PROVE  crashes' = crashes + 1
      BY <3>2 DEF CrashInAppend, Reload
    <3>3. ASSUME NEW m \in net, CrashInSubmit(n, m)
          PROVE  crashes' = crashes + 1
      BY <3>3 DEF CrashInSubmit, Reload
    <3>4. ASSUME NEW c \in Command, CrashInSoleSubmit(n, c)
          PROVE  crashes' = crashes + 1
      BY <3>4 DEF CrashInSoleSubmit, Reload
    <3>. QED  BY <1>3, <3>1, <3>2, <3>3, <3>4 DEF CrashStep
  <2>2. crashes \in Nat
    BY <1>1, BoundAssumption DEF Inv, TypeOK, TypeHistory
  <2>3. crashes' # 0
    BY <2>1, <2>2
  <2>. QED  BY <2>3 DEF StoreInv
<1>4. CASE UNCHANGED vars
  BY <1>4 DEF StoreInv, vars
<1>. QED  BY <1>2, <1>3, <1>4, SubmitStepWrites, AppendWrites DEF Next, AppendStep

LEMMA StoreFollows == Known /\ SafetyInv /\ StoreInv => StoreFollowsLog
<1>. SUFFICES ASSUME Known, StoreInv, crashes = 0, NEW n \in Node
              PROVE  store[n] = [i \in 1 .. Len(Applied(n)) |-> Applied(n)[i].command]
  BY DEF StoreFollowsLog
<1>1. PICK l \in Seq(Entry), k \in Nat, docs \in Seq(Command) :
        l = log[n] /\ k = state[n].lastApplied /\ docs = store[n]
  BY NodeTypes DEF Known, Inv, TypeOK, TypeCore
<1>2. k <= Len(l) /\ Len(docs) = k /\ \A i \in 1 .. k : docs[i] = l[i].command
  BY <1>1 DEF StoreInv, Written
<1>3. PICK applied \in Seq(Entry) :
        applied = SubSeq(l, 1, k) /\ Len(applied) = k /\ \A i \in 1 .. k : applied[i] = l[i]
  <2>1. k \in 0 .. Len(l)
    BY <1>2
  <2>. QED  BY <2>1, PrefixAgrees DEF Agree
<1>4. docs = [i \in 1 .. k |-> docs[i]]
  <2>1. docs \in [1 .. Len(docs) -> Command]
    BY LenProperties
  <2>. QED  BY <1>2, <2>1
<1>5. docs = [i \in 1 .. k |-> applied[i].command]
  BY <1>2, <1>3, <1>4
<1>. QED  BY <1>1, <1>3, <1>5 DEF Applied

\* Until a crash, the documents of a shard are what the applied entries of its
\* log wrote, each once and in order, whatever is truncated, retried or deposed.
THEOREM StoreAlwaysFollowsLog == Calm => []StoreFollowsLog
<1>1. Init => StoreInv
  BY EmptySeq DEF Init, InitialState, StoreInv, Written
<1>2. Known /\ SafetyInv /\ StoreInv /\ [Next]_vars => StoreInv'
  BY StepStore
<1>3. Known /\ SafetyInv /\ StoreInv => StoreFollowsLog
  BY StoreFollows
<1>. QED  BY <1>1, <1>2, <1>3, AlwaysSafe, CalmIsSpec, PTL DEF Calm, Spec
=============================================================================
