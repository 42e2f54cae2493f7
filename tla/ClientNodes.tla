----------------------------- MODULE ClientNodes -----------------------------
(***************************************************************************)
(* The client library's choice of a node (node_manager.py) and the retries *)
(* of a request (api_call.py).                                             *)
(*                                                                         *)
(* Every task sends one request after another; they share the nodes'       *)
(* health marks and the index of the rotation.  Between two calls a task   *)
(* runs on without a pause, so a failure, its mark and the next choice are *)
(* one step.  One task is the synchronous client, several are tasks of the *)
(* asynchronous one.                                                       *)
(***************************************************************************)
EXTENDS Integers, Sequences, FiniteSets

CONSTANTS
  Nodes,          \* the configured nodes, in order
  NearestNodes,   \* what may be configured as the nearest node, NoNearest for none
  NoNearest,
  Tasks,
  NumRetries,     \* config.num_retries
  CheckInterval,  \* config.healthcheck_interval_seconds
  MaxDown         \* bound: times that a node starts or stops failing

Configured == {Nodes[i] : i \in DOMAIN Nodes}

ASSUME ClientAssumption ==
  /\ Nodes \in Seq(Configured) /\ Nodes # <<>> /\ NumRetries \in Nat /\ CheckInterval \in Nat /\ MaxDown \in Nat
  /\ NearestNodes \cap Configured = {}      \* a node object of its own

VARIABLES
  nearest,    \* config.nearest_node
  healthy,    \* Node.healthy
  age,        \* time since Node.last_access_ts, up to one past CheckInterval
  index,      \* NodeManager.node_index
  request,    \* the locals of every task's request
  failing,    \* the nodes whose answers are server errors, or do not come
  downs,
  asked,      \* history: the nodes that every task's request was sent to
  available   \* history: the nodes usable when the request began and ever since

clientVars == <<nearest, healthy, age, index, request, failing, downs, asked, available>>

\* No request is under way; the last one, if any, failed or not.
Idle(last) == [stage |-> IF last = "failed" THEN "failed" ELSE "idle", node |-> Nodes[1], retries |-> 0]
ClientNode == Configured \cup ({nearest} \ {NoNearest})
Free(t) == request[t].stage # "sent"

ClientInit ==
  /\ nearest \in NearestNodes
  /\ healthy = [n \in ClientNode |-> TRUE]
  /\ age = [n \in ClientNode |-> 0]
  /\ index = 1
  /\ request = [t \in Tasks |-> Idle("none")]
  /\ failing = {} /\ downs = 0
  /\ asked = [t \in Tasks |-> {}]
  /\ available = [t \in Tasks |-> {}]

-----------------------------------------------------------------------------
(* NodeManager; `h` and `a` are the health marks and ages it looks at.     *)

\* healthy, or due for a check
Usable(h, a) == {n \in ClientNode : h[n] \/ a[n] > CheckInterval}

Turn(i, k) == ((i - 1 + k) % Len(Nodes)) + 1

\* get_node: the nearest node if it is usable, else the next usable one in turn; if
\* there is none, the one whose turn it is.
GetNode(h, a) ==
  IF nearest \in Usable(h, a) THEN [node |-> nearest, index |-> index]
  ELSE LET turns == {k \in 0 .. Len(Nodes) - 1 : Nodes[Turn(index, k)] \in Usable(h, a)}
           next == CHOOSE k \in turns : \A l \in turns : k <= l
       IN  IF turns = {} THEN [node |-> Nodes[index], index |-> index]
           ELSE [node |-> Nodes[Turn(index, next)], index |-> Turn(index, next + 1)]

-----------------------------------------------------------------------------
(* ApiCall.                                                                *)

\* What stays usable for the requests that are under way.
StillAvailable == [t \in Tasks |-> available[t] \cap Usable(healthy', age')]

Send(t, chosen, retries) ==
  /\ index' = chosen.index
  /\ request' = [request EXCEPT ![t] = [stage |-> "sent", node |-> chosen.node, retries |-> retries]]

Begin(t) ==
  /\ Free(t)
  /\ Send(t, GetNode(healthy, age), 0)
  /\ asked' = [asked EXCEPT ![t] = {request'[t].node}]
  /\ available' = [available EXCEPT ![t] = Usable(healthy, age)]
  /\ UNCHANGED <<nearest, healthy, age, failing, downs>>

\* The request returns or raises; only one that failed is remembered.
End(t, how) ==
  /\ request' = [request EXCEPT ![t] = Idle(how)]
  /\ asked' = [asked EXCEPT ![t] = IF how = "failed" THEN @ ELSE {}]

\* After a success the next node of the rotation is marked healthy, which need not
\* be the one that answered.
Succeed(t) ==
  /\ ~Free(t) /\ request[t].node \notin failing
  /\ LET next == GetNode(healthy, age)
     IN /\ index' = next.index
        /\ healthy' = [healthy EXCEPT ![next.node] = TRUE]
        /\ age' = [age EXCEPT ![next.node] = 0]
  /\ End(t, "done")
  /\ available' = [StillAvailable EXCEPT ![t] = {}]
  /\ UNCHANGED <<nearest, failing, downs>>

\* Any other error of the server's is raised; the node's mark stays.
Refused(t) ==
  /\ ~Free(t) /\ request[t].node \notin failing
  /\ End(t, "refused")
  /\ available' = [available EXCEPT ![t] = {}]
  /\ UNCHANGED <<nearest, healthy, age, index, failing, downs>>

\* mutant of ServerFails: the node that failed keeps its mark
ServerFailsUnmarked(t) ==
  /\ ~Free(t) /\ request[t].node \in failing
  /\ UNCHANGED <<healthy, age>>
  /\ IF request[t].retries < NumRetries
     THEN /\ Send(t, GetNode(healthy, age), request[t].retries + 1)
          /\ asked' = [asked EXCEPT ![t] = @ \cup {request'[t].node}]
     ELSE End(t, "failed") /\ UNCHANGED index
  /\ available' = available
  /\ UNCHANGED <<nearest, failing, downs>>

\* mutant of ServerFails: the retries are not counted
ServerFailsUncounted(t) ==
  /\ ~Free(t) /\ request[t].node \in failing
  /\ healthy' = [healthy EXCEPT ![request[t].node] = FALSE]
  /\ age' = [age EXCEPT ![request[t].node] = 0]
  /\ Send(t, GetNode(healthy', age'), request[t].retries)
  /\ asked' = [asked EXCEPT ![t] = @ \cup {request'[t].node}]
  /\ available' = [StillAvailable EXCEPT ![t] = @ \cup (available[t] \cap {request[t].node})]
  /\ UNCHANGED <<nearest, failing, downs>>

\* A server error marks the node and, if there are retries left, chooses again.
ServerFails(t) ==
  /\ ~Free(t) /\ request[t].node \in failing
  /\ healthy' = [healthy EXCEPT ![request[t].node] = FALSE]
  /\ age' = [age EXCEPT ![request[t].node] = 0]
  /\ IF request[t].retries < NumRetries
     THEN /\ Send(t, GetNode(healthy', age'), request[t].retries + 1)
          /\ asked' = [asked EXCEPT ![t] = @ \cup {request'[t].node}]
     ELSE End(t, "failed") /\ UNCHANGED index
  /\ available' = [StillAvailable EXCEPT ![t] = @ \cup (available[t] \cap {request[t].node})]
  /\ UNCHANGED <<nearest, failing, downs>>

NodeFails(n) ==
  /\ downs < MaxDown /\ downs' = downs + 1
  /\ failing' = (failing \ {n}) \cup ({n} \ failing)
  /\ UNCHANGED <<nearest, healthy, age, index, request, asked, available>>

SecondPasses ==
  /\ \E n \in ClientNode : age[n] <= CheckInterval
  /\ age' = [n \in ClientNode |-> IF age[n] <= CheckInterval THEN age[n] + 1 ELSE age[n]]
  /\ available' = [t \in Tasks |->
       IF asked[t] \cap (Usable(healthy, age') \ Usable(healthy, age)) = {} THEN available[t] ELSE {}]
  /\ UNCHANGED <<nearest, healthy, index, request, failing, downs, asked>>

ClientNext ==
  \/ \E t \in Tasks : Begin(t) \/ Succeed(t) \/ Refused(t) \/ ServerFails(t)
  \/ \E n \in ClientNode : NodeFails(n)
  \/ SecondPasses

\* Every call ends (connection_timeout_seconds), and the application goes on asking.
ClientFairness ==
  \A t \in Tasks : WF_clientVars(Begin(t)) /\ WF_clientVars(Succeed(t) \/ ServerFails(t))

ClientSpec == ClientInit /\ [][ClientNext]_clientVars /\ ClientFairness

-----------------------------------------------------------------------------
\* With a retry for every node but one, a request fails only after it asked every
\* node that was healthy or due for a check when it began and stayed so.
FailsOnlyWhenAllTried ==
  \A t \in Tasks :
    request[t].stage = "failed" /\ NumRetries + 1 >= Cardinality(ClientNode)
      => available[t] \subseteq asked[t]

\* Every request ends, also when no node answers.
RequestsEnd == \A t \in Tasks : ~Free(t) ~> Free(t)

=============================================================================
