----------------------------- MODULE MCServices -----------------------------
(* Instances for TLC of the components that share no state with one another.  *)
(* A behaviour plays one of them, the scene, and leaves the others at rest.   *)
EXTENDS MCRaftRuntime, AppendLoop, NodeDirectory, ClusterReads, Repair, ClientNodes,
        ClientRequests, SearchIndex, TypoDistance, Deployment

VARIABLE scene

Scenes ==
  {"alone", "loop", "directory", "reads", "repair", "client",
   "requests", "index", "typo", "deployment"}

\* Two shards, on three nodes and on two.
TwoShards == <<<<"n1", "n2", "n3">>, <<"n2", "n3">>>>

\* Two replicas, and logs of up to two commands on two documents.
TwoReplicas == <<"r1", "r2">>
NoneOneOrAll == {{}, {"a"}, {"a", "b"}}
UpToTwoCommands ==
  LET command == {[id |-> "a", version |-> 2], [id |-> "a", version |-> Absent],
                  [id |-> "b", version |-> 2]}
  IN  {<<>>} \cup (command \X command)

TwoNodes == <<"n1", "n2">>
NearOrNone == {"none", "near"}
OddNames == {<<"a">>, <<"search">>, <<"a", "items">>}

Texts == {[words |-> <<"x">>, rank |-> 1], [words |-> <<"x", "x", "y">>, rank |-> NoRank],
          [words |-> <<"y">>, rank |-> 1], [words |-> <<"x", "y">>, rank |-> 2]}
ByParity == [d \in DocumentIds |-> d % 2]
TwoQueries == {<<"x">>, <<"x", "y">>}

allVars ==
  <<scene, vars, lvars, directoryVars, readVars, repairVars, clientVars, requestVars, indexVars,
    typoVars, deployVars>>

\* A component at rest is in one of its initial states, always the same.
ServicesInit ==
  /\ scene \in Scenes
  /\ Init /\ DirectoryInit /\ ReadsInit /\ RequestsInit /\ IndexInit /\ DeploymentInit
  /\ scene = "loop" \/ (before = <<>> /\ payload = [prevLogIndex |-> 0, entries |-> <<>>])
  /\ LoopInit
  /\ scene = "repair" \/ (commands = <<>> /\ owed = {})
  /\ RepairInit
  /\ scene = "client" \/ nearest = NoNearest
  /\ ClientInit
  /\ scene = "typo" \/ (left = <<>> /\ right = <<>> /\ bound = 1)
  /\ TypoInit

\* The scene is about one component, and the others stay as they are.
In(name) ==
  /\ scene = name /\ UNCHANGED scene
  /\ name # "alone" => UNCHANGED vars
  /\ name # "loop" => UNCHANGED lvars
  /\ name # "directory" => UNCHANGED directoryVars
  /\ name # "reads" => UNCHANGED readVars
  /\ name # "repair" => UNCHANGED repairVars
  /\ name # "client" => UNCHANGED clientVars
  /\ name # "requests" => UNCHANGED requestVars
  /\ name # "index" => UNCHANGED indexVars
  /\ name # "typo" => UNCHANGED typoVars
  /\ name # "deployment" => UNCHANGED deployVars

ServicesNext ==
  \/ In("alone") /\ Next
  \/ In("loop") /\ LoopStep
  \/ In("directory") /\ DirectoryNext
  \/ In("reads") /\ ReadsNext
  \/ In("repair") /\ RepairNext
  \/ In("client") /\ ClientNext
  \/ In("requests") /\ RequestsNext
  \/ In("index") /\ IndexNext
  \/ In("typo") /\ TypoNext
  \/ In("deployment") /\ DeploymentNext

\* DirectoryFairness and ClientFairness, each in its scene.
ServicesFairness ==
  /\ WF_allVars(In("directory") /\ Tick)
  /\ \A n \in Member : WF_allVars(In("directory") /\ RegistrarStep(n))
  /\ \A t \in Tasks :
       /\ WF_allVars(In("client") /\ Begin(t))
       /\ WF_allVars(In("client") /\ (Succeed(t) \/ ServerFails(t)))

Services == ServicesInit /\ [][ServicesNext]_allVars /\ ServicesFairness

\* The coordinator and a node on one host, both with the default data directory.
TwoProcesses == <<"c", "n1">>
OneHost == <<"h">>
Together == [p \in Process |-> "h"]
DefaultDir == [p \in Process |-> ".data/typesense_lite"]

DeploymentOnly == scene = "deployment" /\ Services
ClientOnly == scene = "client" /\ Services
=============================================================================
