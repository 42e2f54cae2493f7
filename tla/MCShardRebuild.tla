--------------------------- MODULE MCShardRebuild ---------------------------
(* Instances of ShardRebuild for TLC. *)
EXTENDS MCRaftRuntime, ShardRebuild

\* Fairness: a call ends (at the latest when its time is up), and the start-up
\* task and a task that finds the lock free go on.
GoesOn(n) ==
  \/ StartAuto(n)
  \/ \E by \in By :
       \/ \E p \in Node : AskVoter(n, by, p)
       \/ VerifyHint(n, by)
       \/ GiveUp(n, by)
       \/ EnterLock(n, by)

SubmitFairness == WF_allVars(\E n \in Node : RuntimeStep(n) /\ SubmitReturns(n))

RebuildFairness(n) == WF_allVars(GoesOn(n))

OneVoter == {FirstVoter}

\* Bounds of the instance: the rebuilt voter campaigns in the first term only and
\* neither beats nor submits; after a crash no second entry is written; the route
\* and the start-up task do not run at the same time; a leader does not beat while
\* it submits.
Focus ==
  /\ election'[FirstVoter] # election[FirstVoter] /\ election'[FirstVoter] # Nil
       => election'[FirstVoter].term = 1
  /\ beats'[FirstVoter] = {} /\ submit'[FirstVoter] = Nil
  /\ crashes' = 0 \/ \A n \in Node : Len(log'[n]) <= 1
  /\ \E by \in By : rebuild'[FirstVoter][by] = Nil
  /\ \A n \in Node : beats'[n] # {} => submit'[n] = Nil

\* No node changes its role or term while one of its own Raft tasks is suspended;
\* a rebuild is none of them.
FairRebuild ==
  /\ RebuildInit
  /\ [][RebuildNext /\ Attentive /\ Focus]_allVars
  /\ SubmitFairness
  /\ \A n \in Rebuilder : RebuildFairness(n)

OtherVoters == Permutations(Node \ {FirstVoter})

\* Bounds: the rebuilt voter only votes and follows; it is rebuilt once it committed
\* an entry of the second term; a log has one entry for each term; heartbeats are
\* those of the second leader when it committed its entry.
SupersededFocus ==
  /\ election'[FirstVoter] = Nil /\ beats'[FirstVoter] = {} /\ submit'[FirstVoter] = Nil
  /\ rebuild'[FirstVoter]["auto"] = Nil
  /\ rebuild'[FirstVoter]["route"] # Nil => state[FirstVoter].commitIndex = 2
  /\ \A n \in Node :
       /\ Len(log'[n]) <= state'[n].currentTerm
       /\ beats'[n] # {} => state[n].currentTerm = 2 /\ state[n].commitIndex = 2

\* Every snapshot is of its leader's own term, so that what it takes back is not for
\* the other reason.
SupersededLeader ==
  /\ RebuildInit
  /\ [][/\ RebuildNext /\ Attentive /\ SupersededFocus
        /\ \A n \in Node, by \in By : Install(n, by) => OfOwnTerm(n, by)]_allVars
=============================================================================
