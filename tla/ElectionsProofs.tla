-------------------------- MODULE ElectionsProofs ---------------------------
(* The abstract elections are safe, whatever the number of voters. *)
EXTENDS Elections, FiniteSetTheorems, TLAPS

\* Winners have their majority; it is never taken back.
WinsBacked == \A w \in wins : HasMajority(ballots, w)

ElectionsInv ==
  /\ ballots \subseteq Ballot
  /\ wins \subseteq Win
  /\ OneVotePerTerm
  /\ WinsBacked

\* Two majorities of the voters share a voter.
LEMMA MajoritiesMeet ==
  ASSUME IsFiniteSet(Node), NEW A \in SUBSET Node, NEW B \in SUBSET Node,
         2 * Cardinality(A) > Cardinality(Node),
         2 * Cardinality(B) > Cardinality(Node)
  PROVE  A \cap B # {}
<1>1. /\ IsFiniteSet(A) /\ IsFiniteSet(B) /\ IsFiniteSet(A \cup B)
      /\ Cardinality(A \cup B) <= Cardinality(Node)
  BY FS_Subset, A \cup B \in SUBSET Node
<1>2. /\ Cardinality(A) \in Nat /\ Cardinality(B) \in Nat
      /\ Cardinality(Node) \in Nat /\ Cardinality(A \cup B) \in Nat
  BY <1>1, FS_CardinalityType
<1>3. Cardinality(A \cup B) = Cardinality(A) + Cardinality(B) - Cardinality(A \cap B)
  BY <1>1, FS_Union
<1>4. Cardinality(A \cap B) # 0
  BY <1>1, <1>2, <1>3
<1>. QED  BY <1>4, FS_EmptySet

\* A set of ballots that grows keeps its majorities.
LEMMA MajorityGrows ==
  ASSUME IsFiniteSet(Node), NEW few, NEW many, few \subseteq many, NEW w, HasMajority(few, w)
  PROVE  HasMajority(many, w)
<1>1. Supporters(few, w.term, w.node) \in SUBSET Supporters(many, w.term, w.node)
  BY DEF Supporters
<1>2. /\ IsFiniteSet(Supporters(many, w.term, w.node))
      /\ IsFiniteSet(Supporters(few, w.term, w.node))
  BY FS_Subset, Supporters(many, w.term, w.node) \in SUBSET Node,
     Supporters(few, w.term, w.node) \in SUBSET Node DEF Supporters
<1>3. Cardinality(Supporters(few, w.term, w.node))
        <= Cardinality(Supporters(many, w.term, w.node))
  BY <1>1, <1>2, FS_Subset
<1>4. /\ Cardinality(Supporters(few, w.term, w.node)) \in Nat
      /\ Cardinality(Supporters(many, w.term, w.node)) \in Nat
      /\ Cardinality(Node) \in Nat
  BY <1>2, FS_CardinalityType
<1>. QED  BY <1>3, <1>4 DEF HasMajority

\* One vote per voter and majorities that meet leave one winner.
LEMMA InvGivesOneWinner ==
  ASSUME IsFiniteSet(Node), ElectionsInv
  PROVE  OneWinnerPerTerm
<1>. SUFFICES ASSUME NEW v \in wins, NEW w \in wins, v.term = w.term
              PROVE  v.node = w.node
  BY DEF OneWinnerPerTerm
<1>. DEFINE A == Supporters(ballots, v.term, v.node)
            B == Supporters(ballots, w.term, w.node)
<1>1. A \in SUBSET Node /\ B \in SUBSET Node
  BY DEF Supporters
<1>2. 2 * Cardinality(A) > Cardinality(Node) /\ 2 * Cardinality(B) > Cardinality(Node)
  BY DEF ElectionsInv, WinsBacked, HasMajority
<1>3. PICK n \in Node : n \in A /\ n \in B
  BY <1>1, <1>2, MajoritiesMeet
<1>4. /\ [term |-> v.term, voter |-> n, candidate |-> v.node] \in ballots
      /\ [term |-> w.term, voter |-> n, candidate |-> w.node] \in ballots
  BY <1>3 DEF Supporters
<1>. QED  BY <1>4 DEF ElectionsInv, OneVotePerTerm

LEMMA ElectionsInvInit == Init => ElectionsInv
BY DEF Init, ElectionsInv, OneVotePerTerm, WinsBacked

LEMMA ElectionsInvNext ==
  ASSUME IsFiniteSet(Node), ElectionsInv, [Next]_evars
  PROVE  ElectionsInv'
<1>1. CASE Next
  <2>1. ballots \subseteq ballots' /\ ballots' \subseteq Ballot
    BY <1>1 DEF Next, Cast, ElectionsInv
  <2>2. wins' \subseteq Win
    BY <1>1 DEF Next, Elect, ElectionsInv
  <2>3. OneVotePerTerm'
    BY <1>1 DEF Next, Cast, MayCast, ElectionsInv, OneVotePerTerm
  <2>4. WinsBacked'
    <3>. SUFFICES ASSUME NEW w \in wins'
                  PROVE  HasMajority(ballots', w)
      BY DEF WinsBacked, HasMajority, Supporters
    <3>1. CASE w \in wins
      BY <3>1, <2>1, MajorityGrows DEF ElectionsInv, WinsBacked
    <3>2. CASE w \notin wins
      BY <3>2, <1>1 DEF Next, Elect
    <3>. QED  BY <3>1, <3>2
  <2>. QED  BY <2>1, <2>2, <2>3, <2>4 DEF ElectionsInv
<1>2. CASE UNCHANGED evars
  BY <1>2 DEF evars, ElectionsInv, OneVotePerTerm, WinsBacked, HasMajority, Supporters
<1>. QED  BY <1>1, <1>2

\* The elections keep one vote per voter and term, and one winner per term.
THEOREM ElectionsSafe ==
  ASSUME IsFiniteSet(Node)
  PROVE  Spec => [](OneVotePerTerm /\ OneWinnerPerTerm)
<1>1. ElectionsInv => OneVotePerTerm /\ OneWinnerPerTerm
  BY InvGivesOneWinner DEF ElectionsInv
<1>2. ElectionsInv /\ [Next]_evars => ElectionsInv'
  BY ElectionsInvNext
<1>. QED  BY <1>1, <1>2, ElectionsInvInit, PTL DEF Spec
=============================================================================
