--------------------------- MODULE MCRaftRuntime ----------------------------
(* Instances of RaftRuntime for TLC. *)
EXTENDS RaftProperties, TLC

Symmetry == Permutations(Node)

OneAdd == {[type |-> "add_document", id |-> 1]}
AddAndDelete == OneAdd \cup {[type |-> "delete_document", id |-> 1]}

\* Everything but heartbeats.
NextNoHeartbeats ==
  \E n \in Node :
    \/ ElectionStep(n)
    \/ SubmitStep(n)
    \/ CrashStep(n)
    \/ AppendStep(n)

Undamaged == crashes = 0 /\ \A m \in net : m.task # "none"
Unwritten == \A n \in Node : log[n] = <<>>

\* Elections with crashes and late requests, or elections and writes.
ElectionsOrWrites == Init /\ [][NextNoHeartbeats /\ (Undamaged' \/ Unwritten')]_vars

CalmNoHeartbeats == Init /\ [][NextNoHeartbeats /\ Attentive]_vars

\* Behaviours in which every leader was elected in its term.
Elected == Init /\ [][NextNoHeartbeats /\ LeaderElected']_vars

\* Fairness of the heartbeats: the loop never stops, every call ends (a round
\* cancels its calls when its time is up, a submission's call times out), and a
\* voter that is called again and again is reached, and its answer read, again
\* and again.
HeartbeatServed(n, p) ==
  \E m \in Calls(n, "heartbeat") : m.dest = p /\ HandleAppendEntries(p, m)

HeartbeatAnswered(n, p) ==
  \E m \in Calls(n, "heartbeat") : m.source = p /\ HandleHeartbeatReply(n, m)

HeartbeatEnds(n, p) ==
  \E m \in Calls(n, "heartbeat") : p \in {m.source, m.dest} /\ HeartbeatCallFails(n, m)

SubmitReturns(n) ==
  \E m \in Calls(n, "submit") : SubmitCallFails(n, m)

Fairness(n) ==
  /\ WF_vars(Heartbeat(n))
  /\ WF_vars(SubmitReturns(n))
  /\ \A p \in Peers(n) :
       /\ WF_vars(SendHeartbeat(n, p))
       /\ WF_vars(HeartbeatEnds(n, p))
       /\ SF_vars(HeartbeatServed(n, p))
       /\ SF_vars(HeartbeatAnswered(n, p))

FairSpec == Spec /\ \A n \in Node : Fairness(n)

\* Only one voter's election timer fires, and only that voter submits and crashes.
\* It is not alone in its group: submissions have peers to call.  The entry is
\* written before the crash, or not at all.
FirstVoter == CHOOSE n \in Node : TRUE

OneCandidateNext ==
  \/ ElectionStep(FirstVoter)
  \/ HeartbeatStep(FirstVoter)
  \/ crashes = 0 /\ \E c \in Command : SubmitCommand(FirstVoter, c)
  \/ \E m \in net : HandleSubmitReply(FirstVoter, m) \/ SubmitCallFails(FirstVoter, m)
  \/ Restart(FirstVoter)
  \/ \E m \in net : CrashInAppend(FirstVoter, m) \/ CrashInSubmit(FirstVoter, m)
  \/ \E n \in Node : AppendStep(n) \/ \E m \in net : HandleRequestVote(n, m)

FairOneCandidate == Init /\ [][OneCandidateNext]_vars /\ Fairness(FirstVoter)
=============================================================================
