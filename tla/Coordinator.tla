----------------------------- MODULE Coordinator -----------------------------
(***************************************************************************)
(* The coordinator's writes to one shard (coordinator.py) and the leader   *)
(* directory they share (leader_directory.py).                             *)
(*                                                                         *)
(* Each write is a coroutine that looks the leader up, posts its command   *)
(* and tries again after a failure, up to Attempts times.  The coroutines  *)
(* interleave at every HTTP call, and all read and write the one cached    *)
(* leader.  The shard group is external: voters that say they lead, a log  *)
(* at each of them, the entries that are committed for good, elections     *)
(* that only a voter whose log holds all of those can win.                 *)
(***************************************************************************)
EXTENDS Integers, Sequences, FiniteSets, SequencesExt

CONSTANTS
  Voters,        \* the shard's voters, the primary first (get_shard_voters)
  Write,         \* the clients' writes
  Kind,          \* what each of them does: "add", "update" or "delete" ...
  Target,        \* ... this document
  Given,         \* the documents that are there at the start
  None,
  Batches,       \* lists of writes that a client may post as one import
  Attempts,      \* RAFT_SUBMIT_ATTEMPTS
  MaxChanges,    \* bound: changes of leadership
  MaxFaults      \* bound: calls that fail, answers that are lost, majorities missed

Voter == {Voters[i] : i \in DOMAIN Voters}

ASSUME CoordinatorAssumption ==
  /\ Voters \in Seq(Voter) /\ Voters # <<>>
  /\ Kind \in [Write -> {"add", "update", "delete"}]
  /\ None \notin Voter
  /\ Attempts \in Nat \ {0} /\ MaxChanges \in Nat /\ MaxFaults \in Nat

VARIABLES
  chief,      \* the voter a majority follows, or None
  claims,     \* voters whose role is leader: the chief, and others not yet deposed
  named,      \* the leader_id of every voter
  log,        \* the log of every voter
  committed,  \* the entries that are committed, in their order
  cached,     \* LeaderDirectory._leaders of the shard, or None
  batch,      \* the writes posted as one import, in its order
  task,       \* the locals of every write's coroutine
  posts,      \* posted commands not served yet
  replies,    \* their answers
  changes, faults,
  after,      \* history: the writes that had been answered "ok" when a write began
  troubled,   \* history: writes that ran while a call failed or two or none led
  toll        \* history: for every change of leadership that a write ran through, and for
              \* those before it began, as many as there were writes running then

group == <<chief, claims, named, log, committed, batch>>
wire == <<posts, replies>>
counters == <<changes, faults>>
past == <<after, toll>>
ghosts == <<past, troubled>>
coordinatorVars == <<chief, claims, named, log, committed, cached, batch, task, posts, replies,
          changes, faults, after, troubled, toll>>

Idle == [stage |-> "idle", attempt |-> 0, todo |-> <<>>, hint |-> None, leader |-> None]
Ended == {"idle", "ok", "failed", "raised"}
Running(w) == task[w].stage \notin Ended
Runners == {w \in Write : Running(w)}

CoordinatorInit ==
  /\ chief \in Voter \cup {None}
  /\ claims = {chief} \ {None}
  /\ named = [v \in Voter |-> chief]
  /\ log = [v \in Voter |-> <<>>] /\ committed = <<>>
  /\ cached \in {chief, None}
  /\ batch \in Batches
  /\ task = [w \in Write |-> Idle]
  /\ posts = {} /\ replies = {}
  /\ changes = 0 /\ faults = 0
  /\ after = [w \in Write |-> {}] /\ troubled = {} /\ toll = [w \in Write |-> 0]

-----------------------------------------------------------------------------
(* The shard group.                                                        *)

\* What a committed command finds: an update or a delete of a document that is
\* not there raises KeyError.
Present(entries, d) ==
  LET about == {i \in 1 .. Len(entries) : Target[entries[i].write] = d}
  IN  IF about = {} THEN d \in Given
      ELSE \E i \in about : /\ Kind[entries[i].write] # "delete"
                           /\ \A j \in about : j <= i
Appliable(entries, w) == Kind[w] = "add" \/ Present(entries, Target[w])

\* The entry at `i` is applied: neither it nor one before it raises.
Applies(i) ==
  \A j \in 1 .. i : Appliable(SubSeq(committed, 1, j - 1), committed[j].write)

\* A committed entry raises, and is in the way of all that follow it.
Stuck == \E i \in 1 .. Len(committed) : ~Applies(i)

Troubled(fault) ==
  troubled' = troubled \cup
    {w \in Write : Running(w) /\ (fault \/ claims' # {chief'} \/ chief' = None)}

\* A majority follows `v`, or nobody.  A leader has every committed entry.
ChangeLeader(v) ==
  /\ changes < MaxChanges /\ v # chief
  /\ v # None => IsPrefix(committed, log[v])
  /\ changes' = changes + 1
  /\ chief' = v
  /\ claims' \in {claims \cup ({v} \ {None}), (claims \cup {v}) \ {chief, None}}
  /\ named' = [u \in Voter |-> IF u = v THEN v ELSE named[u]]
  /\ Troubled(FALSE)
  /\ toll' = [w \in Write |-> IF Running(w) THEN toll[w] + Cardinality(Runners) ELSE toll[w]]
  /\ UNCHANGED <<log, committed, batch, cached, task, wire, faults, after>>

\* The voters in `R` have taken `entries` from `leader`, and follow it.
Take(R, leader, entries) ==
  /\ log' = [v \in Voter |-> IF v \in R \cup {leader} THEN entries ELSE log[v]]
  /\ claims' = claims \ (R \ {leader})
  /\ named' = [v \in Voter |-> IF v \in R THEN leader ELSE named[v]]

\* A voter hears the chief's heartbeat, which may bring its log to the chief's.
Hear(v) ==
  /\ chief # None /\ v # chief
  /\ v \in claims \/ named[v] # chief \/ ~IsPrefix(log[chief], log[v])
  /\ \/ Take({v}, chief, log[chief]) /\ ~IsPrefix(log[chief], log[v])
     \/ claims' = claims \ {v} /\ named' = [named EXCEPT ![v] = chief] /\ UNCHANGED log
  /\ UNCHANGED chief
  /\ Troubled(FALSE)
  /\ UNCHANGED <<committed, batch, cached, task, wire, counters, past>>

-----------------------------------------------------------------------------
(* The coroutine of a write.                                               *)

Step(w, record) == task' = [task EXCEPT ![w] = record]

\* The write's current attempt is over; there may be another one.
NextAttempt(w, end) ==
  Step(w, IF task[w].attempt < Attempts
          THEN [Idle EXCEPT !.stage = "lookup", !.attempt = task[w].attempt + 1]
          ELSE [Idle EXCEPT !.stage = end, !.attempt = task[w].attempt])

\* An import writes its documents one after another, past those that failed with
\* an HTTP error; any other error ends it.
ItsTurn(w) ==
  \A i \in 2 .. Len(batch) : batch[i] = w => task[batch[i - 1]].stage \in {"ok", "failed"}

BeginWrite(w) ==
  /\ task[w] = Idle /\ ItsTurn(w)
  /\ Step(w, [Idle EXCEPT !.stage = "lookup", !.attempt = 1])
  /\ after' = [after EXCEPT ![w] = {x \in Write : task[x].stage = "ok"}]
  /\ troubled' = IF claims # {chief} \/ chief = None THEN troubled \cup {w} ELSE troubled
  /\ toll' = [toll EXCEPT ![w] = IF changes = 0 THEN 0 ELSE Cardinality(Runners \cup {w})]
  /\ UNCHANGED <<group, cached, wire, counters>>

Post(w, v) ==
  /\ Step(w, [task[w] EXCEPT !.stage = "posted", !.leader = v])
  /\ posts' = posts \cup {[write |-> w, attempt |-> task[w].attempt, to |-> v]}
  /\ UNCHANGED replies

\* get_leader: the cached leader is used as it is.
LookUp(w) ==
  /\ task[w].stage = "lookup"
  /\ \/ cached # None /\ Post(w, cached)
     \/ /\ cached = None
        /\ Step(w, [task[w] EXCEPT !.stage = "ask", !.todo = Voters])
        /\ UNCHANGED wire
  /\ UNCHANGED <<group, cached, counters, ghosts>>

Asks(w, v) ==
  \/ task[w].stage = "ask" /\ v = Head(task[w].todo)
  \/ task[w].stage = "verify" /\ v = task[w].hint

\* The voter did not say that it leads: the next one is asked, then the last leader
\* that a voter named.
Elsewhere(w, hint) ==
  LET todo == Tail(task[w].todo)
  IN [task[w] EXCEPT !.todo = todo, !.hint = hint,
                     !.stage = IF todo # <<>> THEN "ask" ELSE IF hint # None THEN "verify" ELSE "unfound"]
NotFound(w, hint) ==
  Step(w, IF task[w].stage = "ask" THEN Elsewhere(w, hint) ELSE [task[w] EXCEPT !.stage = "unfound"])

\* A voter answers with its state as it is now; the coroutine uses the answer later.
AnswerState(w, v) ==
  /\ Asks(w, v)
  /\ IF v \in claims
     THEN Step(w, [task[w] EXCEPT !.stage = "found", !.leader = v, !.todo = <<>>, !.hint = None])
     ELSE NotFound(w, IF named[v] = None THEN task[w].hint ELSE named[v])
  /\ UNCHANGED <<group, cached, wire, counters, ghosts>>

StateCallFails(w, v) ==
  /\ faults < MaxFaults
  /\ faults' = faults + 1
  /\ Asks(w, v)
  /\ NotFound(w, task[w].hint)
  /\ UNCHANGED <<group, cached, wire, changes, past>>
  /\ Troubled(TRUE)

\* The first voter that said it led is cached, and the command posted to it.
UseLeader(w) ==
  /\ task[w].stage = "found"
  /\ cached' = task[w].leader
  /\ Post(w, task[w].leader)
  /\ UNCHANGED <<group, counters, ghosts>>

\* mutant of NoLeader: a search that finds no leader is not an attempt
NoLeaderUncounted(w) ==
  /\ task[w].stage = "unfound"
  /\ cached' = None
  /\ Step(w, [Idle EXCEPT !.stage = "lookup", !.attempt = task[w].attempt])
  /\ UNCHANGED <<group, wire, counters, ghosts>>

\* No leader: RuntimeError.
NoLeader(w) ==
  /\ task[w].stage = "unfound"
  /\ cached' = None
  /\ NextAttempt(w, "raised")
  /\ UNCHANGED <<group, wire, counters, ghosts>>

-----------------------------------------------------------------------------
(* The command at the voter, and its answer.                               *)

Reply(p, code) == [write |-> p.write, attempt |-> p.attempt, code |-> code]

\* Nobody waits for the answer of a command whose write went on without it.
Waits(p) == task[p.write].stage = "posted" /\ task[p.write].attempt = p.attempt

Serve(p, code) ==
  /\ posts' = posts \ {p}
  /\ replies' = IF Waits(p) THEN replies \cup {Reply(p, code)} ELSE replies
  /\ UNCHANGED <<chief, batch, cached, task, changes, past>>

\* The log of the voter that was asked, with the command at its end.  `late`:
\* nobody waited for its answer any more.
Longer(p) ==
  Append(log[p.to], [write |-> p.write, attempt |-> p.attempt, late |-> ~Waits(p)])

\* Not a leader: 409, and nothing is written.
Refuse(p) ==
  /\ p.to \notin claims
  /\ Serve(p, 409)
  /\ UNCHANGED <<claims, named, log, committed, faults, troubled>>

\* It says it leads, but no majority follows it any more: the entry is written,
\* there and where it is still followed, and stays although the answer is 409.  A
\* voter in a later term may have made it step down.
Outvoted(p) ==
  /\ p.to \in claims /\ p.to # chief
  /\ \E R \in SUBSET {v \in Voter \ claims : named[v] = p.to} : 
       log' = [v \in Voter |-> IF v \in R \cup {p.to} THEN Longer(p) ELSE log[v]]
  /\ \/ UNCHANGED <<claims, named>>
     \/ claims' = claims \ {p.to} /\ named' = [named EXCEPT ![p.to] = None]
  /\ Serve(p, 409)
  /\ UNCHANGED <<committed, faults, troubled>>

\* No majority answered the leader: 409, and the entry stays where it came to.
\* Followers that raise when they apply what is committed do not answer either.
MissMajority(p) ==
  /\ p.to = chief
  /\ \/ faults < MaxFaults /\ faults' = faults + 1
     \/ Stuck /\ UNCHANGED faults
  /\ \E R \in SUBSET Voter : Take(R, chief, Longer(p))
  /\ Serve(p, 409)
  /\ Troubled(TRUE)
  /\ UNCHANGED committed

\* A majority has the entry: it is committed with all that precede it.  Applying
\* it, or one before it, may raise, now and after every later command: 500.
Commit(p) ==
  /\ p.to = chief
  /\ \E R \in SUBSET Voter :
       /\ chief \in R /\ 2 * Cardinality(R) > Cardinality(Voter)
       /\ Take(R, chief, Longer(p))
  /\ committed' = Longer(p)
  /\ Serve(p, IF Stuck' THEN 500 ELSE 200)
  /\ UNCHANGED <<faults, troubled>>

\* mutants of ReadReply: no majority is good enough; the leader that failed stays cached
ReadReplyAny(w, r) ==
  /\ r.write = w /\ task[w].stage = "posted" /\ r.attempt = task[w].attempt
  /\ replies' = replies \ {r}
  /\ IF r.code # 500 THEN Step(w, [task[w] EXCEPT !.stage = "ok"]) /\ UNCHANGED cached
     ELSE cached' = None /\ NextAttempt(w, "failed")
  /\ UNCHANGED <<group, posts, counters, ghosts>>
ReadReplyKeepsCache(w, r) ==
  /\ r.write = w /\ task[w].stage = "posted" /\ r.attempt = task[w].attempt
  /\ replies' = replies \ {r}
  /\ IF r.code = 200 THEN Step(w, [task[w] EXCEPT !.stage = "ok"]) ELSE NextAttempt(w, "failed")
  /\ UNCHANGED <<group, cached, posts, counters, ghosts>>

\* Any answer but "ok" drops the cached leader, whoever put it there, and the
\* command is submitted again.
ReadReply(w, r) ==
  /\ r.write = w /\ task[w].stage = "posted" /\ r.attempt = task[w].attempt
  /\ replies' = replies \ {r}
  /\ IF r.code = 200 THEN Step(w, [task[w] EXCEPT !.stage = "ok"]) /\ UNCHANGED cached
     ELSE cached' = None /\ NextAttempt(w, "failed")
  /\ UNCHANGED <<group, posts, counters, ghosts>>

\* mutant of CallFails: an answer that did not come is taken for a success
CallFailsOk(w) ==
  /\ task[w].stage = "posted" /\ faults < MaxFaults
  /\ faults' = faults + 1
  /\ Step(w, [task[w] EXCEPT !.stage = "ok"])
  /\ posts' \in {{p \in posts : ~(p.write = w /\ Waits(p))}, posts}
  /\ replies' = {r \in replies : r.write # w}
  /\ UNCHANGED <<group, cached, changes, past>>
  /\ Troubled(TRUE)

\* The call fails or its time is up: the command may never arrive, may have been
\* served, or may still be on its way.
CallFails(w) ==
  /\ task[w].stage = "posted" /\ faults < MaxFaults
  /\ faults' = faults + 1
  /\ cached' = None
  /\ NextAttempt(w, "failed")
  /\ posts' \in {{p \in posts : ~(p.write = w /\ Waits(p))}, posts}
  /\ replies' = {r \in replies : r.write # w}
  /\ UNCHANGED <<group, changes, past>>
  /\ Troubled(TRUE)

-----------------------------------------------------------------------------
WriteStep(w) ==
  \/ LookUp(w)
  \/ \E v \in Voter : AnswerState(w, v) \/ StateCallFails(w, v)
  \/ UseLeader(w)
  \/ NoLeader(w)
  \/ \E r \in replies : ReadReply(w, r)
  \/ CallFails(w)

GroupStep ==
  \/ \E v \in Voter \cup {None} : ChangeLeader(v)
  \/ \E v \in Voter : Hear(v)
  \/ \E p \in posts : Refuse(p) \/ Outvoted(p) \/ MissMajority(p) \/ Commit(p)

CoordinatorNext ==
  \/ \E w \in Write : BeginWrite(w) \/ WriteStep(w)
  \/ GroupStep

\* A coroutine is not suspended for ever: every call is answered or fails.
CoordinatorFairness ==
  /\ \A w \in Write : WF_coordinatorVars(WriteStep(w))
  /\ WF_coordinatorVars(\E p \in posts : Refuse(p) \/ Outvoted(p) \/ Commit(p))

CoordinatorSpec == CoordinatorInit /\ [][CoordinatorNext]_coordinatorVars /\ CoordinatorFairness

-----------------------------------------------------------------------------
Acked == {w \in Write : task[w].stage = "ok"}
Copies(w) == {i \in 1 .. Len(committed) : committed[i].write = w}

\* A write answered "ok" is committed and applied for good, by a call that was
\* waited for, whichever of its attempts it was that got through and however often
\* the others did.
AckedCommitted == \A w \in Acked : \E i \in Copies(w) : Applies(i) /\ ~committed[i].late

\* Write after write, as clients see them: when a write began after another one was
\* answered "ok", a copy of that one is committed before every copy of its own, and
\* a further copy that comes after one of its own is of a call that had failed
\* before the leader served it.
RealTimeOrder ==
  \A w \in Write : \A x \in after[w] : \A j \in Copies(w) :
    /\ \E i \in Copies(x) : i < j /\ ~committed[i].late
    /\ \A k \in Copies(x) : k > j => committed[k].late

\* A write fails only if, while it ran, a call failed, or the voters did not agree
\* on who leads, if a committed entry cannot be applied, or if changes of leadership
\* took all its attempts: each takes one for every write that may put the deposed
\* leader into the cache, the write itself among them.
FailsInTroubleOnly ==
  \A w \in Write :
    task[w].stage \in {"failed", "raised"} => w \in troubled \/ Stuck \/ toll[w] >= Attempts

\* No write is committed twice: a write is not submitted again when it failed.
WrittenOnce == \A w \in Write : Cardinality(Copies(w)) <= 1

\* Every write is answered, also when every attempt of it fails.
WritesEnd == \A w \in Write : Running(w) ~> ~Running(w)
=============================================================================
