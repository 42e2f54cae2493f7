----------------------------- MODULE Elections ------------------------------
(***************************************************************************)
(* What the elections of a shard group promise, with no messages, logs or  *)
(* crashes: a voter casts at most one vote in a term, and a node wins a    *)
(* term only with the votes of a majority.  RaftRuntime implements it.     *)
(***************************************************************************)
EXTENDS Integers, FiniteSets

CONSTANT Node

VARIABLES
  ballots,   \* every vote ever granted: [term, voter, candidate]
  wins       \* every election ever won: [term, node]

evars == <<ballots, wins>>

Ballot == [term : Nat, voter : Node, candidate : Node]
Win == [term : Nat, node : Node]

Supporters(votes, term, node) ==
  {v \in Node : [term |-> term, voter |-> v, candidate |-> node] \in votes}

HasMajority(votes, w) == 2 * Cardinality(Supporters(votes, w.term, w.node)) > Cardinality(Node)

MayCast(b) ==
  \A c \in ballots : c.voter = b.voter /\ c.term = b.term => c.candidate = b.candidate

Init == ballots = {} /\ wins = {}

Cast ==
  \E b \in ballots' : b \in Ballot /\ MayCast(b) /\ ballots' = ballots \cup {b}

Elect ==
  \E w \in wins' : w \in Win /\ HasMajority(ballots', w) /\ wins' = wins \cup {w}

\* A sole voter casts its own vote and wins with it in one step.
Next ==
  /\ Cast \/ UNCHANGED ballots
  /\ Elect \/ UNCHANGED wins

Spec == Init /\ [][Next]_evars

-----------------------------------------------------------------------------
\* A voter supports at most one candidate in a term.
OneVotePerTerm ==
  \A a, b \in ballots : a.voter = b.voter /\ a.term = b.term => a.candidate = b.candidate

\* A term has at most one winner.
OneWinnerPerTerm == \A v, w \in wins : v.term = w.term => v.node = w.node
=============================================================================
