------------------------------ MODULE Recovery ------------------------------
(***************************************************************************)
(* What a data node says of the recovery of a shard: the status that       *)
(* raft_runtime.py computes and recovery.py calls ready or not.  Searches, *)
(* reads and the cluster's health look at it.                              *)
(***************************************************************************)
EXTENDS Integers, Sequences, FiniteSets

NoOverride == "none"   \* _recovery_status_override is None
NoIndex == -1           \* an index the node was never told

\* The runtime's fields behind the status: the override, whether an error is
\* recorded, the leader's positions as last heard, and _needs_catchup_confirmation.
FreshRecovery ==
  [override |-> NoOverride, error |-> FALSE, leaderLog |-> NoIndex,
   leaderCommit |-> NoIndex, confirm |-> FALSE]

\* A voter that follows a leader and has not all the leader told it of.
Behind(r, st, length) ==
  \/ r.confirm
  \/ st.lastApplied < st.commitIndex
  \/ length < r.leaderLog
  \/ st.commitIndex < r.leaderCommit

\* _compute_recovery_status; `v` is the voter: its role, whether it knows a
\* leader, whether it is the only voter, its durable record and log length.
RecoveryStatus(r, v) ==
  CASE r.error -> "failed"
    [] ~r.error /\ r.override # NoOverride -> r.override
    [] OTHER ->
         IF v.sole THEN "healthy"
         ELSE IF v.role # "leader" /\ ~v.led THEN "recovering"
         ELSE IF IF v.role = "leader" THEN v.st.lastApplied < v.st.commitIndex
                 ELSE Behind(r, v.st, v.length)
         THEN "catching_up" ELSE "healthy"

-----------------------------------------------------------------------------
(* How the fields change.                                                  *)

ReportRecovery(r, status) == [r EXCEPT !.override = status, !.error = status = "failed"]

\* _become_leader
RecoveryOfLeader(r, st, length) ==
  [r EXCEPT !.leaderLog = length, !.leaderCommit = st.commitIndex, !.confirm = FALSE]

\* install_snapshot_metadata
RecoveryOfInstalled(r, index) ==
  [r EXCEPT !.leaderLog = index, !.leaderCommit = index, !.confirm = TRUE]

\* An accepted append tells where the leader is.
HeardFrom(r, m) ==
  LET sent == m.prevLogIndex + Len(m.entries)
  IN  [r EXCEPT !.leaderLog = IF sent >= m.leaderCommit THEN sent ELSE m.leaderCommit,
                !.leaderCommit = m.leaderCommit]

CaughtUp(r, st, length) ==
  /\ length >= r.leaderLog
  /\ st.commitIndex >= r.leaderCommit
  /\ st.lastApplied >= st.commitIndex

\* mutant of ConfirmCatchUp: reaching the leader's positions is confirmation enough
ConfirmAtOnce(r, moved, st, length) ==
  IF ~CaughtUp(r, st, length) THEN r
  ELSE [r EXCEPT !.confirm = FALSE, !.override = NoOverride]

\* After an accepted append that applied without an error: the one that brings
\* the voter up to date asks for confirmation, the next one gives it.
ConfirmCatchUp(r, moved, st, length) ==
  IF ~CaughtUp(r, st, length) THEN r
  ELSE IF moved THEN [r EXCEPT !.confirm = TRUE]
  ELSE [r EXCEPT !.confirm = FALSE,
                 !.override = IF @ = "failed" THEN @ ELSE NoOverride]

\* shard_is_ready
ShardReady(status) == status = "healthy"
=============================================================================
