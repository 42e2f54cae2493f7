------------------------------- MODULE Repair -------------------------------
(***************************************************************************)
(* Consistency repair of one shard (repair.py): the coordinator compares   *)
(* the document ids of the primary and of every replica and copies what a  *)
(* replica misses, one document after another, from the primary.           *)
(*                                                                         *)
(* It writes beside the Raft log: meanwhile every node applies the log's   *)
(* commands in their order, but at its own pace, the primary too.          *)
(***************************************************************************)
EXTENDS Integers, Sequences, FiniteSets

CONSTANTS
  Source,      \* the shard's primary
  Replicas,    \* its replicas, in the order of the placement
  Docs,        \* document ids
  Losses,      \* sets of documents that every replica may have lost beforehand
  Commands,    \* logs to apply, of [id, version]; version Absent deletes
  MaxLost      \* bound: calls of the repair that fail

Absent == 0
Copies == {Replicas[i] : i \in DOMAIN Replicas}
Holders == {Source} \cup Copies

ASSUME RepairAssumption ==
  /\ Replicas \in Seq(Copies) /\ Source \notin Copies
  /\ Losses \subseteq SUBSET Docs
  /\ Commands \subseteq Seq([id : Docs, version : Nat])
  /\ MaxLost \in Nat

VARIABLES
  content,    \* the version of every document that every node holds, or Absent
  commands,   \* the log
  applied,    \* how much of it every node applied
  phase,      \* what the repair does next
  ids,        \* the primary's ids, as read
  missing,    \* <<replica, id>>: found missing, and not dealt with yet
  told,       \* how many replicas told their ids
  copy,       \* the document got from the primary: from where to where, and its version
  lost,
  owed,       \* history: <<replica, id>> lost beforehand and not copied or written since
  raced,      \* history: <<replica, id>> posted when the replica had applied a later command on it
  disturbed   \* history: a command was applied or a call failed since the repair began

repairVars ==
  <<content, commands, applied, phase, ids, missing, told, copy, lost, owed, raced, disturbed>>

NoCopy == [to |-> Source, id |-> Source, version |-> Absent, at |-> 0]

RepairInit ==
  /\ commands \in Commands
  /\ \E gone \in Losses :
       /\ content = [n \in Holders |-> [d \in Docs |->
                       IF n \in Copies /\ d \in gone THEN Absent ELSE 1]]
       /\ owed = Copies \X gone
  /\ applied = [n \in Holders |-> 0]
  /\ phase = "primary" /\ ids = {} /\ missing = {} /\ told = 0 /\ copy = NoCopy
  /\ lost = 0 /\ raced = {} /\ disturbed = FALSE

Held(n) == {d \in Docs : content[n][d] # Absent}

\* apply_raft_command; deleting what is not there raises, then and ever after.
ApplyCommand(n) ==
  /\ applied[n] < Len(commands)
  /\ LET command == commands[applied[n] + 1]
     IN /\ command.version = Absent => command.id \in Held(n)
        /\ content' = [content EXCEPT ![n][command.id] = command.version]
        /\ owed' = owed \ {<<n, command.id>>}
  /\ applied' = [applied EXCEPT ![n] = @ + 1]
  /\ disturbed' = (disturbed \/ phase # "primary")
  /\ UNCHANGED <<commands, phase, ids, missing, told, copy, lost, raced>>

\* The call fails.
Lost ==
  /\ lost < MaxLost /\ lost' = lost + 1
  /\ disturbed' = TRUE

\* _check_shard_consistency: without the primary's ids there is nothing to repair.
ReadPrimaryIds ==
  /\ phase = "primary"
  /\ \/ /\ ids' = Held(Source) /\ phase' = (IF Replicas = <<>> THEN "get" ELSE "replica")
        /\ UNCHANGED <<lost, disturbed>>
     \/ Lost /\ phase' = "done" /\ UNCHANGED ids
  /\ UNCHANGED <<content, commands, applied, missing, told, copy, owed, raced>>

Lacking(r) == ids \ Held(r)

\* A replica that does not tell its ids is left out.
ReadReplicaIds ==
  /\ phase = "replica"
  /\ told' = told + 1
  /\ \/ /\ missing' = missing \cup ({Replicas[told']} \X Lacking(Replicas[told']))
        /\ UNCHANGED <<lost, disturbed>>
     \/ Lost /\ UNCHANGED missing
  /\ phase' = IF told' < Len(Replicas) THEN "replica" ELSE "get"
  /\ UNCHANGED <<content, commands, applied, ids, copy, owed, raced>>

Fetched(p) == [to |-> p[1], id |-> p[2], version |-> content[Source][p[2]], at |-> applied[Source]]

\* mutant of GetDocument: a 404 is taken for a document
GetDocumentAnyway(p) ==
  /\ phase = "get" /\ p \in missing
  /\ missing' = missing \ {p}
  /\ phase' = "post"
  /\ copy' = [Fetched(p) EXCEPT !.version = IF @ = Absent THEN 1 ELSE @]
  /\ UNCHANGED <<lost, disturbed, content, commands, applied, ids, told, owed, raced>>

\* The document as the primary holds it now; if it holds it no more, or the call
\* fails, the repair goes on with the next.
GetDocument(p) ==
  /\ phase = "get" /\ p \in missing
  /\ missing' = missing \ {p}
  /\ \/ /\ p[2] \in Held(Source)
        /\ phase' = "post" /\ copy' = Fetched(p)
        /\ UNCHANGED <<lost, disturbed>>
     \/ p[2] \notin Held(Source) /\ UNCHANGED <<phase, copy, lost, disturbed>>
     \/ Lost /\ UNCHANGED <<phase, copy>>
  /\ UNCHANGED <<content, commands, applied, ids, told, owed, raced>>

\* The replica adds the document, whatever it holds under that id by now.
Posted ==
  /\ content' = [content EXCEPT ![copy.to][copy.id] = copy.version]
  /\ owed' = owed \ {<<copy.to, copy.id>>}
  /\ raced' = IF \E k \in copy.at + 1 .. applied[copy.to] : commands[k].id = copy.id
              THEN raced \cup {<<copy.to, copy.id>>} ELSE raced

PostDocument ==
  /\ phase = "post"
  /\ phase' = "get" /\ copy' = NoCopy
  /\ \/ Posted /\ UNCHANGED <<lost, disturbed>>
     \/ Lost /\ (Posted \/ UNCHANGED <<content, owed, raced>>)
  /\ UNCHANGED <<commands, applied, ids, missing, told>>

EndRepair ==
  /\ phase = "get" /\ missing = {}
  /\ phase' = "done"
  /\ UNCHANGED <<content, commands, applied, ids, missing, told, copy, lost, owed, raced, disturbed>>

RepairNext ==
  \/ \E n \in Holders : ApplyCommand(n)
  \/ ReadPrimaryIds \/ ReadReplicaIds
  \/ \E p \in missing : GetDocument(p)
  \/ PostDocument \/ EndRepair

RepairSpec == RepairInit /\ [][RepairNext]_repairVars

-----------------------------------------------------------------------------
\* A replica that is as far in the log as the primary holds the same documents, but
\* for those it had lost and was not given back, and those that the repair posted
\* when the replica had already applied a command that the primary had not when it
\* was asked: only such a race brings a deleted document back or an old version.  And
\* a repair that no failure and no write disturbed leaves nothing missing anywhere.
RepairRestores ==
  /\ \A r \in Copies : applied[r] = applied[Source] =>
       \A d \in Docs : content[r][d] = content[Source][d] \/ <<r, d>> \in owed \cup raced
  /\ phase = "done" /\ ~disturbed => \A r \in Copies : Held(Source) \subseteq Held(r)
=============================================================================
