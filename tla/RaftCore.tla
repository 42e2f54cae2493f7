------------------------------ MODULE RaftCore ------------------------------
(***************************************************************************)
(* The pure Raft state machine of one node in one shard group              *)
(* (raft_core.py), as operators on its pieces of state: the durable record *)
(* `st` (term, vote, commit and apply positions) and the log `l`.          *)
(*                                                                         *)
(* A log is a sequence of entries, the entry with index i at position i:   *)
(* every log the program builds starts at index 1 and has no gap.  A       *)
(* document body is abstracted away; a command keeps its type and the id   *)
(* of the document it writes, which decide whether applying it succeeds.   *)
(***************************************************************************)
EXTENDS Integers, Sequences, FiniteSets

CONSTANTS
  Node,      \* the voters of the shard group (`members`)
  Nil,       \* Python's None
  Command    \* the commands a client may submit

ASSUME NodeAssumption == IsFiniteSet(Node) /\ Node # {}
ASSUME NilAssumption == Nil \notin Node
ASSUME CommandAssumption ==
  \A c \in Command : c.type \in {"add_document", "update_document", "delete_document"}

Role == {"follower", "candidate", "leader"}
Entry == [term : Nat, command : Command]

DurableState ==
  [currentTerm : Nat, votedFor : Node \cup {Nil}, commitIndex : Nat, lastApplied : Nat]

InitialState ==
  [currentTerm |-> 0, votedFor |-> Nil, commitIndex |-> 0, lastApplied |-> 0]

\* mutant of Majority: half suffices
Half == Cardinality(Node) \div 2

Majority == Cardinality(Node) \div 2 + 1

LastTerm(l) == IF l = <<>> THEN 0 ELSE l[Len(l)].term

\* The term of a log position, 0 when there is no entry.
TermAt(l, i) == IF i \in 1 .. Len(l) THEN l[i].term ELSE 0

EntriesFrom(l, i) == SubSeq(l, i, Len(l))

-----------------------------------------------------------------------------
(* Terms and votes.                                                        *)

\* mutant of Observe: any other term is adopted
ObserveOther(st, term) ==
  IF term # st.currentTerm THEN [st EXCEPT !.currentTerm = term, !.votedFor = Nil] ELSE st

\* Adopt a higher term, which forgets the vote of the lower one.
Observe(st, term) ==
  IF term > st.currentTerm
  THEN [st EXCEPT !.currentTerm = term, !.votedFor = Nil]
  ELSE st

UpToDate(l, m) ==
  \/ m.lastLogTerm > LastTerm(l)
  \/ m.lastLogTerm = LastTerm(l) /\ m.lastLogIndex >= Len(l)

\* mutants of Grants: the earlier vote, and the candidate's log, are not looked at
GrantsAgain(st, l, m) == m.term >= st.currentTerm /\ UpToDate(l, m)
GrantsAnyLog(st, l, m) ==
  m.term >= st.currentTerm /\ Observe(st, m.term).votedFor \in {Nil, m.source}

Grants(st, l, m) ==
  /\ m.term >= st.currentTerm
  /\ Observe(st, m.term).votedFor \in {Nil, m.source}
  /\ UpToDate(l, m)
  /\ m.source \in Node

StateAfterVote(st, l, m) ==
  IF Grants(st, l, m)
  THEN [Observe(st, m.term) EXCEPT !.votedFor = m.source]
  ELSE Observe(st, m.term)

-----------------------------------------------------------------------------
(* Appending entries.                                                      *)

Stale(st, m) == m.term < st.currentTerm

PrevMatches(l, m) ==
  m.prevLogIndex > 0 =>
    /\ m.prevLogIndex <= Len(l)
    /\ l[m.prevLogIndex].term = m.prevLogTerm

Accepted(st, l, m) == ~Stale(st, m) /\ PrevMatches(l, m)

Conflicts(l, m) ==
  {k \in 1 .. Len(m.entries) :
     /\ m.prevLogIndex + k <= Len(l)
     /\ l[m.prevLogIndex + k].term # m.entries[k].term}

\* The entries of the payload before its first conflict.
Unopposed(l, m) ==
  {k \in 1 .. Len(m.entries) : \A j \in 1 .. k : j \notin Conflicts(l, m)}

\* What stays of the log: all of it, or what precedes the first conflict.
KeptPrefix(l, m) ==
  IF Conflicts(l, m) = {} THEN l
  ELSE SubSeq(l, 1, m.prevLogIndex + Cardinality(Unopposed(l, m)))

\* mutant of Merged: a conflicting tail is kept
MergedNoTruncation(l, m) == l \o SubSeq(m.entries, Len(l) - m.prevLogIndex + 1, Len(m.entries))

\* The loop of handle_append_entries in closed form: truncate at the first
\* entry whose term differs, then append what is missing.
Merged(l, m) ==
  LET kept == KeptPrefix(l, m)
  IN  kept \o SubSeq(m.entries, Len(kept) - m.prevLogIndex + 1, Len(m.entries))

LogAfterAppend(st, l, m) == IF Accepted(st, l, m) THEN Merged(l, m) ELSE l

Smaller(a, b) == IF a <= b THEN a ELSE b

StateAfterAppend(st, l, m) ==
  LET seen == Observe(st, m.term)
  IN  IF Accepted(st, l, m) /\ m.leaderCommit > st.commitIndex
      THEN [seen EXCEPT !.commitIndex = Smaller(m.leaderCommit, Len(Merged(l, m)))]
      ELSE seen

-----------------------------------------------------------------------------
(* Applying committed entries to the documents of the shard.  The document *)
(* store is the sequence of records its JSONL file holds; a document       *)
(* exists when its last record is not a deletion.                          *)

Writes(c, d) == c.id = d /\ c.type # "delete_document"
Deletes(c, d) == c.id = d /\ c.type = "delete_document"

Present(docs, d) ==
  \E i \in 1 .. Len(docs) :
    /\ Writes(docs[i], d)
    /\ \A j \in i + 1 .. Len(docs) : ~Deletes(docs[j], d)

\* Updating or deleting a document that does not exist raises KeyError.
Appliable(docs, c) == c.type = "add_document" \/ Present(docs, c.id)

\* The commands of the committed entries not applied yet.
Unapplied(st, l) ==
  [i \in 1 .. Smaller(st.commitIndex, Len(l)) - st.lastApplied |->
     l[st.lastApplied + i].command]

\* How many of them apply before one raises.
AppliedCount(docs, batch) ==
  Cardinality({k \in 1 .. Len(batch) :
    \A j \in 1 .. k : Appliable(docs \o SubSeq(batch, 1, j - 1), batch[j])})

\* mutant of StoreAfterApply: a record is written before the command is tried
StoreWithRefused(docs, st, l) == docs \o Unapplied(st, l)

StoreAfterApply(docs, st, l) ==
  LET batch == Unapplied(st, l)
  IN  docs \o SubSeq(batch, 1, AppliedCount(docs, batch))

StateAfterApply(docs, st, l) ==
  [st EXCEPT !.lastApplied = @ + AppliedCount(docs, Unapplied(st, l))]

\* One of the entries raised: the caller's remaining statements do not run.
ApplyRaises(docs, st, l) ==
  AppliedCount(docs, Unapplied(st, l)) < Len(Unapplied(st, l))
=============================================================================
