----------------------------- MODULE Deployment -----------------------------
(***************************************************************************)
(* The deployment scripts (deploy_cluster.py, deploy_plan.py) and the      *)
(* processes they start over ssh (run_node.py, the start-up of server.py). *)
(*                                                                         *)
(* A script is a list of commands, run one after another up to the first   *)
(* that fails.  A start command leaves a launcher behind, run_node.py,     *)
(* whose pid goes to a file; the launcher starts the server as a child of  *)
(* its own and ends with it.  A stop command kills the launcher that the   *)
(* file names: nothing passes the signal on to the server.                 *)
(***************************************************************************)
EXTENDS Integers, Sequences

CONSTANTS
  Processes,    \* the coordinator, then the data nodes in the inventory's order
  Hosts,        \* the hosts, sorted
  HostOf,       \* the host of every process
  DataDirOf,    \* the data directory of every process, the same for all that leave it out
  MaxScripts,   \* bound: runs of the script
  MaxTrouble    \* bound: commands that fail and servers that crash

Process == {Processes[k] : k \in DOMAIN Processes}
Coordinator == Processes[1]
Host == {Hosts[k] : k \in DOMAIN Hosts}

\* server.pid is in the data directory: processes of a host with one directory share it.
PidFileOf(p) == <<HostOf[p], DataDirOf[p]>>
PidFile == {PidFileOf(p) : p \in Process}

ASSUME DeploymentAssumption ==
  /\ Processes \in Seq(Process) /\ Processes # <<>>
  /\ Hosts \in Seq(Host) /\ HostOf \in [Process -> Host]
  /\ MaxScripts \in Nat /\ MaxTrouble \in Nat

VARIABLES
  shipped,     \* the hosts that have the cluster config
  pidFile,     \* the launcher that every server.pid names, or NoPid
  launchers,   \* the launchers that run, of [pid, process]
  booting,     \* the servers that start, of [pid, process, pull]
  servers,     \* the launcher of every process's server that listens, or NoPid
  script,      \* the script under way with the commands left to run, or how the last one ended
  scripts, started, trouble,
  overwritten  \* history: launchers whose pid file a later start wrote over

deployVars ==
  <<shipped, pidFile, launchers, booting, servers, script, scripts, started, trouble, overwritten>>

NoPid == 0
Ended(how) == [command |-> how, pull |-> FALSE, todo |-> <<>>]
Running == script.todo # <<>>
Up(p) == servers[p] # NoPid

DeploymentInit ==
  /\ script = Ended("none")
  /\ shipped = {}
  /\ pidFile = [f \in PidFile |-> NoPid]
  /\ servers = [p \in Process |-> NoPid]
  /\ launchers = {} /\ booting = {} /\ overwritten = {}
  /\ scripts = 0 /\ started = 0 /\ trouble = 0

-----------------------------------------------------------------------------
(* The scripts.                                                            *)

ToEach(do, targets) == [k \in DOMAIN targets |-> [do |-> do, at |-> targets[k]]]

\* deploy: the config goes to every host, or to the coordinator's if the nodes are
\* to pull it; then the code, the processes in order, and a wait for the coordinator.
DeployCommands(pull) ==
  ToEach("ship", IF pull THEN <<HostOf[Coordinator]>> ELSE Hosts)
    \o ToEach("sync", Hosts) \o ToEach("start", Processes) \o ToEach("wait", <<Coordinator>>)
StopCommands == ToEach("stop", Processes)

BeginScript(command, pull, todo) ==
  /\ ~Running /\ scripts < MaxScripts
  /\ scripts' = scripts + 1
  /\ script' = [command |-> command, pull |-> pull, todo |-> todo]
  /\ UNCHANGED <<shipped, pidFile, launchers, booting, servers, started, trouble, overwritten>>

Ship(h) ==
  /\ shipped' = shipped \cup {h}
  /\ UNCHANGED <<pidFile, launchers, booting, started, overwritten>>

\* mutant of Start: without the data directory made first, the pid goes nowhere
StartUnnamed(p) ==
  /\ started' = started + 1
  /\ launchers' = launchers \cup {[pid |-> started', process |-> p]}
  /\ booting' = booting \cup {[pid |-> started', process |-> p, pull |-> script.pull /\ p # Coordinator]}
  /\ UNCHANGED <<shipped, pidFile, overwritten>>

\* mkdir -p; nohup run_node.py & echo $! > server.pid
Start(p) ==
  /\ started' = started + 1
  /\ launchers' = launchers \cup {[pid |-> started', process |-> p]}
  /\ booting' = booting \cup {[pid |-> started', process |-> p, pull |-> script.pull /\ p # Coordinator]}
  /\ pidFile' = [pidFile EXCEPT ![PidFileOf(p)] = started']
  /\ overwritten' = overwritten \cup {pidFile[PidFileOf(p)]}
  /\ UNCHANGED shipped

Named(p) == {l \in launchers : l.pid = pidFile[PidFileOf(p)]}

\* if [ -f server.pid ]; then kill && rm; fi
Kill(p) ==
  /\ pidFile[PidFileOf(p)] # NoPid => Named(p) # {}
  /\ launchers' = launchers \ Named(p)
  /\ pidFile' = [pidFile EXCEPT ![PidFileOf(p)] = NoPid]
  /\ UNCHANGED <<shipped, booting, started, overwritten>>

Untouched == UNCHANGED <<shipped, pidFile, launchers, booting, started, overwritten>>

Effect(command) ==
  \/ command.do = "ship" /\ Ship(command.at)
  \/ command.do = "sync" /\ Untouched
  \/ command.do = "start" /\ Start(command.at)
  \/ command.do = "wait" /\ Up(Coordinator) /\ Untouched
  \/ command.do = "stop" /\ Kill(command.at)

RunCommand ==
  /\ Running
  /\ Effect(Head(script.todo))
  /\ script' = IF Len(script.todo) = 1 THEN Ended(script.command)
               ELSE [script EXCEPT !.todo = Tail(@)]
  /\ UNCHANGED <<servers, scripts, trouble>>

\* A command that fails ends the script: kill finds no such process, the coordinator
\* is not healthy in time, or ssh fails, before or after the command was run.
CommandFails ==
  /\ Running /\ script' = Ended("failed")
  /\ LET command == Head(script.todo)
     IN \/ /\ \/ command.do = "stop" /\ pidFile[PidFileOf(command.at)] # NoPid /\ Named(command.at) = {}
              \/ command.do = "wait" /\ ~Up(Coordinator)
           /\ Untouched /\ UNCHANGED trouble
        \/ /\ trouble < MaxTrouble /\ trouble' = trouble + 1
           /\ Untouched \/ Effect(command)
  /\ UNCHANGED <<servers, scripts>>

-----------------------------------------------------------------------------
(* The processes.                                                          *)

\* The config file is on the host, or the coordinator answers the node that pulls it.
FindsConfig(b) == IF b.pull THEN Up(Coordinator) ELSE HostOf[b.process] \in shipped

\* The server loads its config and binds its port, or ends, and its launcher with it.
Boot(b) ==
  /\ booting' = booting \ {b}
  /\ IF FindsConfig(b) /\ ~Up(b.process)
     THEN /\ servers' = [servers EXCEPT ![b.process] = b.pid]
          /\ UNCHANGED launchers
     ELSE /\ launchers' = {l \in launchers : l.pid # b.pid}
          /\ UNCHANGED servers
  /\ UNCHANGED <<shipped, pidFile, script, scripts, started, trouble, overwritten>>

CrashServer(p) ==
  /\ Up(p) /\ trouble < MaxTrouble /\ trouble' = trouble + 1
  /\ servers' = [servers EXCEPT ![p] = NoPid]
  /\ launchers' = {l \in launchers : l.pid # servers[p]}
  /\ UNCHANGED <<shipped, pidFile, booting, script, scripts, started, overwritten>>

DeploymentNext ==
  \/ \E pull \in BOOLEAN : BeginScript("deployed", pull, DeployCommands(pull))
  \/ BeginScript("stopped", FALSE, StopCommands)
  \/ RunCommand \/ CommandFails
  \/ \E b \in booting : Boot(b)
  \/ \E p \in Process : CrashServer(p)

DeploymentSpec == DeploymentInit /\ [][DeploymentNext]_deployVars

-----------------------------------------------------------------------------
\* Whatever scripts failed halfway before, a stop that succeeds leaves no launcher but
\* those whose server.pid a later start wrote over.  The exception is the code's: no
\* start looks for a running launcher, and server.pid may be another process's too.
StopEndsLaunchers ==
  script.command = "stopped" /\ ~Running => {l.pid : l \in launchers} \subseteq overwritten

\* "stop -- terminate every role and clean up PID files": after it nothing serves.
StopEndsServers == script.command = "stopped" /\ ~Running => \A p \in Process : ~Up(p)
=============================================================================
