---------------------------- MODULE ClusterReads ----------------------------
(***************************************************************************)
(* What the coordinator reads from the nodes: a search or a listing over   *)
(* all shards (coordinator.py) and the cluster's health (health.py).       *)
(*                                                                         *)
(* Both are coroutines of one call after another, and the nodes go down,   *)
(* come back and change their recovery status between any two calls.       *)
(***************************************************************************)
EXTENDS Integers, Sequences, FiniteSets

R == INSTANCE Recovery

CONSTANTS
  Placement,   \* for every shard, its nodes: the primary first (get_search_candidates)
  MaxFlaps     \* bound: changes of a node

Shards == DOMAIN Placement
NodesOf(s) == {Placement[s][i] : i \in DOMAIN Placement[s]}
ReadNodes == UNION {NodesOf(s) : s \in Shards}
Primary(s) == Placement[s][1]
NoNode == "none"

ASSUME PlacementAssumption ==
  /\ Placement \in Seq(Seq(ReadNodes)) /\ Placement # <<>> /\ NoNode \notin ReadNodes
  /\ \A s \in Shards : Len(Placement[s]) = Cardinality(NodesOf(s)) /\ Placement[s] # <<>>
  /\ MaxFlaps \in Nat

VARIABLES
  up,         \* the nodes that answer
  recovery,   \* the recovery status of every shard on every node
  reader,     \* the locals of a search or a listing
  report,     \* the locals of a health collection
  flaps,
  steady,     \* history: <<node, shard>> that answered and was ready since the read began
  quiet,      \* history: no node changed since the collection began
  promised    \* history: what the report said when the read began, while it is quiet

readVars == <<up, recovery, reader, report, flaps, steady, quiet, promised>>

\* A read is at a candidate of a shard, about to ask whether it is ready or to query
\* it; `from` is the node that answered for every shard so far, or NoNode.
Reader(kind, stage, from, candidate) ==
  [kind |-> kind, stage |-> stage, from |-> from, candidate |-> candidate]
NotReading == Reader("none", "idle", <<>>, 1)

Report(stage, asking, found) == [stage |-> stage, asking |-> asking, found |-> found]
NoReport == Report("none", {}, [n \in {} |-> {}])
NothingPromised == [shards |-> {}, all |-> FALSE]

Ready(n, s) == n \in up /\ R!ShardReady(recovery[n][s])
ReadyPairs == {p \in ReadNodes \X Shards : p[1] \in NodesOf(p[2]) /\ Ready(p[1], p[2])}

ReadsInit ==
  /\ up = ReadNodes
  /\ recovery = [n \in ReadNodes |-> [s \in {t \in Shards : n \in NodesOf(t)} |-> "healthy"]]
  /\ reader = NotReading /\ report = NoReport
  /\ flaps = 0 /\ steady = {} /\ quiet = FALSE /\ promised = NothingPromised

\* A node goes down, comes back, or a shard of it changes its recovery status.
NodeChanges ==
  /\ flaps < MaxFlaps
  /\ flaps' = flaps + 1
  /\ \/ \E n \in ReadNodes :
          /\ up' = (up \ {n}) \cup ({n} \ up)
          /\ UNCHANGED recovery
     \/ \E n \in up : \E s \in DOMAIN recovery[n], status \in {"healthy", "catching_up", "failed"} :
          /\ status # recovery[n][s]
          /\ recovery' = [recovery EXCEPT ![n][s] = status]
          /\ UNCHANGED up
  /\ steady' = {p \in steady : p[1] \in up' /\ R!ShardReady(recovery'[p[1]][p[2]])}
  /\ promised' = NothingPromised
  /\ quiet' = FALSE
  /\ UNCHANGED <<reader, report>>

-----------------------------------------------------------------------------
(* Health.                                                                 *)

BeginReport ==
  /\ report.stage \in {"none", "done"}
  /\ report' = Report("health", ReadNodes, NoReport.found)
  /\ quiet' = TRUE /\ promised' = NothingPromised
  /\ UNCHANGED <<up, recovery, reader, flaps, steady>>

\* get /health, then the recovery state of a node that answered; a node that does
\* not answer both counts as down: it has no ready shard.
Collected(n, shards) ==
  LET rest == report.asking \ {n}
  IN  report' = Report(IF rest = {} THEN "done" ELSE "health", rest,
                       [m \in DOMAIN report.found \cup {n} |->
                          IF m = n THEN shards ELSE report.found[m]])

AskHealth(n) ==
  /\ report.stage = "health" /\ n = CHOOSE m \in report.asking : TRUE
  /\ IF n \in up THEN report' = [report EXCEPT !.stage = "recovery"] ELSE Collected(n, {})
  /\ UNCHANGED <<up, recovery, reader, flaps, steady, quiet, promised>>

\* mutant of AskRecovery: a node that answers is taken to be ready
AskRecoveryOfLive(n) ==
  /\ report.stage = "recovery" /\ n = CHOOSE m \in report.asking : TRUE
  /\ Collected(n, IF n \in up THEN DOMAIN recovery[n] ELSE {})
  /\ UNCHANGED <<up, recovery, reader, flaps, steady, quiet, promised>>

AskRecovery(n) ==
  /\ report.stage = "recovery" /\ n = CHOOSE m \in report.asking : TRUE
  /\ Collected(n, IF n \in up THEN {s \in DOMAIN recovery[n] : R!ShardReady(recovery[n][s])} ELSE {})
  /\ UNCHANGED <<up, recovery, reader, flaps, steady, quiet, promised>>

ReadyVoters(s) == Cardinality({n \in NodesOf(s) : s \in report.found[n]})

ShardHealth(s) ==
  IF ReadyVoters(s) = Len(Placement[s]) THEN "healthy"
  ELSE IF ReadyVoters(s) >= Len(Placement[s]) \div 2 + 1 THEN "degraded" ELSE "unavailable"

ClusterHealth ==
  LET all == {ShardHealth(s) : s \in Shards}
  IN  IF all = {} \/ "unavailable" \in all THEN "unavailable"
      ELSE IF all = {"healthy"} THEN "healthy" ELSE "degraded"

-----------------------------------------------------------------------------
(* Reads.                                                                  *)

\* Searches ask whether a node is ready; listings go to the primaries at once.
BeginRead(kind) ==
  /\ reader.kind = "none"
  /\ reader' = Reader(kind, IF kind = "search" THEN "ready" ELSE "query", <<>>, 1)
  /\ steady' = ReadyPairs
  /\ promised' = IF report.stage = "done" /\ quiet
                 THEN [shards |-> {s \in Shards : ShardHealth(s) # "unavailable"},
                       all |-> ClusterHealth = "healthy"]
                 ELSE NothingPromised
  /\ UNCHANGED <<up, recovery, report, flaps, quiet>>

Shard == Len(reader.from) + 1
Candidate == Placement[Shard][reader.candidate]

\* The next shard, with the node that answered for this one.
Answered(n) ==
  LET from == Append(reader.from, n)
  IN  Reader(reader.kind,
             IF Len(from) = Len(Placement) THEN "done"
             ELSE IF reader.kind = "search" THEN "ready" ELSE "query", from, 1)

\* mutant of Failed: a search does not go on to the replicas
FailedAtPrimary ==
  IF reader.kind = "list" THEN [reader EXCEPT !.stage = "raised"] ELSE Answered(NoNode)

\* The next candidate, or a warning for the shard; a listing has no other candidate.
Failed ==
  IF reader.kind = "list" THEN [reader EXCEPT !.stage = "raised"]
  ELSE IF reader.candidate < Len(Placement[Shard])
       THEN [reader EXCEPT !.stage = "ready", !.candidate = @ + 1]
       ELSE Answered(NoNode)

\* _node_shard_ready
AskReady ==
  /\ reader.stage = "ready"
  /\ reader' = IF Ready(Candidate, Shard) THEN [reader EXCEPT !.stage = "query"] ELSE Failed
  /\ UNCHANGED <<up, recovery, report, flaps, steady, quiet, promised>>

\* The node checks its shard again before it answers (ensure_shard_ready).
QueryShard ==
  /\ reader.stage = "query"
  /\ reader' = IF Ready(Candidate, Shard) THEN Answered(Candidate) ELSE Failed
  /\ UNCHANGED <<up, recovery, report, flaps, steady, quiet, promised>>

EndRead ==
  /\ reader.stage \in {"done", "raised"}
  /\ reader' = NotReading /\ steady' = {} /\ promised' = NothingPromised
  /\ UNCHANGED <<up, recovery, report, flaps, quiet>>

ReadsNext ==
  \/ NodeChanges
  \/ BeginReport \/ \E n \in ReadNodes : AskHealth(n) \/ AskRecovery(n)
  \/ \E kind \in {"search", "list"} : BeginRead(kind)
  \/ AskReady \/ QueryShard \/ EndRead

ReadsSpec == ReadsInit /\ [][ReadsNext]_readVars

-----------------------------------------------------------------------------
\* A search leaves a shard out only if every one of its nodes was down or not ready
\* at some time since the search began; a listing fails only if a primary was.
ReadsWhatStays ==
  /\ \A s \in DOMAIN reader.from :
       reader.from[s] = NoNode => \A n \in NodesOf(s) : <<n, s>> \notin steady
  /\ reader.stage = "raised" => <<Primary(Shard), Shard>> \notin steady

\* As long as no node changes, a shard that the health report called healthy or
\* degraded is searched without a warning, and a cluster it called healthy listed.
HealthForetellsReads ==
  /\ \A s \in DOMAIN reader.from : s \in promised.shards => reader.from[s] # NoNode
  /\ promised.all => reader.stage # "raised"
=============================================================================
