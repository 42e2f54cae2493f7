---------------------------- MODULE NodeDirectory ----------------------------
(***************************************************************************)
(* The coordinator's directory of live nodes (node_directory.py) and the   *)
(* registrar of every data node (node_registrar.py).                       *)
(*                                                                         *)
(* Time is the age of every record and the time every registrar has left   *)
(* to sleep: ages stop one past the timeout, where nothing depends on them *)
(* any more.  The three calls of a registrar may be lost before or after   *)
(* the coordinator served them.                                            *)
(***************************************************************************)
EXTENDS Integers, FiniteSets

CONSTANTS
  Member,        \* the data nodes
  AliveTimeout,  \* NodeDirectory.alive_timeout
  Interval,      \* NodeRegistrar._interval
  MaxBackoff,    \* the longest pause between two registrations
  MaxOutages     \* bound: lost calls, node kills and coordinator restarts

ASSUME DirectoryAssumption ==
  /\ AliveTimeout \in Nat \ {0} /\ Interval \in Nat \ {0}
  /\ MaxBackoff \in Nat \ {0} /\ MaxOutages \in Nat

Unlisted == -1
Old == AliveTimeout + 1

VARIABLES
  seen,        \* age of every node's last_seen in the directory, or Unlisted
  registrar,   \* every registrar's loop: what it does next, its sleep, its backoff
  heard,       \* history: age of the last call that a registrar had answered with success
  forgotten,   \* history: nodes registered before the coordinator restarted
  outages

directoryVars == <<seen, registrar, heard, forgotten, outages>>

Loop(next, sleep, backoff) == [next |-> next, sleep |-> sleep, backoff |-> backoff]
Down == Loop("down", 0, 1)

DirectoryInit ==
  /\ seen = [n \in Member |-> Unlisted]
  /\ registrar = [n \in Member |-> Down]
  /\ heard = [n \in Member |-> Old]
  /\ forgotten = {}
  /\ outages = 0

Lesser(a, b) == IF a < b THEN a ELSE b
Older(age) == IF age = Unlisted THEN age ELSE Lesser(age + 1, Old)

\* A unit of time passes; a registrar that woke up acts before more does.
Tick ==
  /\ \A n \in Member : registrar[n].next = "down" \/ registrar[n].sleep > 0
  /\ seen' = [n \in Member |-> Older(seen[n])]
  /\ heard' = [n \in Member |-> Older(heard[n])]
  /\ registrar' = [n \in Member |->
       [registrar[n] EXCEPT !.sleep = IF @ > 0 THEN @ - 1 ELSE @]]
  /\ UNCHANGED <<forgotten, outages>>

Outage == outages < MaxOutages /\ outages' = outages + 1

StartNode(n) ==
  /\ registrar[n] = Down
  /\ registrar' = [registrar EXCEPT ![n] = Loop("register", 0, 1)]
  /\ UNCHANGED <<seen, heard, forgotten, outages>>

StopNode(n) ==
  /\ registrar[n].next # "down" /\ Outage
  /\ registrar' = [registrar EXCEPT ![n] = Down]
  /\ UNCHANGED <<seen, heard, forgotten>>

\* mutant: the loop ends with the first registration that fails
AwakeOnce(n, next) == registrar[n].next = next /\ registrar[n].sleep = 0 /\ registrar[n].backoff = 1
Awake(n, next) == registrar[n].next = next /\ registrar[n].sleep = 0

\* register adds the entry or refreshes it.
Register(n, served, answered) ==
  /\ Awake(n, "register") /\ (answered => served)
  /\ IF answered THEN UNCHANGED outages ELSE Outage
  /\ seen' = [seen EXCEPT ![n] = IF served THEN 0 ELSE @]
  /\ forgotten' = IF served THEN forgotten \ {n} ELSE forgotten
  /\ heard' = [heard EXCEPT ![n] = IF answered THEN 0 ELSE @]
  /\ registrar' = [registrar EXCEPT ![n] =
       IF answered THEN Loop("beat", Interval, 1)
       ELSE Loop("register", @.backoff, Lesser(2 * @.backoff, MaxBackoff))]

\* heartbeat refreshes an entry that is there; the 404 of one that is not is only
\* logged, and the registrar goes on beating.
Beat(n, served, answered) ==
  /\ Awake(n, "beat") /\ (answered => served)
  /\ IF answered THEN UNCHANGED outages ELSE Outage
  /\ LET known == served /\ seen[n] # Unlisted
     IN /\ seen' = [seen EXCEPT ![n] = IF known THEN 0 ELSE @]
        /\ heard' = [heard EXCEPT ![n] = IF known /\ answered THEN 0 ELSE @]
  /\ registrar' = [registrar EXCEPT ![n] = Loop("beat", Interval, 1)]
  /\ UNCHANGED forgotten

\* mutant: an entry as old as the timeout is dropped
ExpiredEarly == {n \in Member : seen[n] >= AliveTimeout}

\* cleanup_expired, called only when somebody asks for the live nodes
Expired == {n \in Member : seen[n] > AliveTimeout}

CleanupExpired ==
  /\ Expired # {}
  /\ seen' = [n \in Member |-> IF n \in Expired THEN Unlisted ELSE seen[n]]
  /\ UNCHANGED <<registrar, heard, forgotten, outages>>

\* The directory is in the coordinator's memory only.
RestartCoordinator ==
  /\ Outage
  /\ seen' = [n \in Member |-> Unlisted]
  /\ forgotten' = {n \in Member : seen[n] # Unlisted} \cup forgotten
  /\ UNCHANGED <<registrar, heard>>

RegistrarStep(n) ==
  \E served, answered \in BOOLEAN : Register(n, served, answered) \/ Beat(n, served, answered)

DirectoryNext ==
  \/ Tick
  \/ \E n \in Member : StartNode(n) \/ StopNode(n) \/ RegistrarStep(n)
  \/ CleanupExpired
  \/ RestartCoordinator

\* Time passes, and a registrar that is awake acts.
DirectoryFairness ==
  /\ WF_directoryVars(Tick)
  /\ \A n \in Member : WF_directoryVars(RegistrarStep(n))

DirectorySpec == DirectoryInit /\ [][DirectoryNext]_directoryVars /\ DirectoryFairness

-----------------------------------------------------------------------------
\* A node whose last heartbeat or registration succeeded no longer than the timeout
\* ago is in the directory, whoever asked for the live nodes meanwhile and when,
\* unless the coordinator restarted and forgot it.
BeatsKeepListed ==
  \A n \in Member :
    registrar[n].next = "beat" /\ heard[n] <= AliveTimeout /\ n \notin forgotten
      => seen[n] # Unlisted

\* A node whose registrations fail, or are served and not answered, goes on trying
\* until it beats or is stopped.
RegistersEventually ==
  \A n \in Member : registrar[n].next = "register" ~> registrar[n].next # "register"
=============================================================================
