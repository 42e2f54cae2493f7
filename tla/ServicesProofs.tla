--------------------------- MODULE ServicesProofs ---------------------------
(* Safety of the components that share no state: the node directory, the     *)
(* coordinator's reads and health report, the deployment scripts, the        *)
(* client's nodes, the repair, the index and the searches, the client's      *)
(* requests; and the append loop against its closed form.                    *)
EXTENDS NodeDirectory, ClusterReads, ClientNodes, ClientRequests, Deployment, Repair, SearchIndex, AppendLoop,
        FiniteSetTheorems, SequenceTheorems, WellFoundedInduction, TLAPS

-----------------------------------------------------------------------------
(* The node directory.                                                     *)

DirectoryType ==
  /\ seen \in [Member -> Unlisted .. Old]
  /\ heard \in [Member -> 0 .. Old]

\* What the directory knows of a node is no older than what the node's registrar
\* knows of the directory.
SeenSinceHeard ==
  \A n \in Member \ forgotten :
    heard[n] <= AliveTimeout => seen[n] # Unlisted /\ seen[n] <= heard[n]

DirectoryInv == DirectoryType /\ SeenSinceHeard

LEMMA OlderAges ==
  ASSUME NEW d \in Unlisted .. Old
  PROVE  /\ Older(d) \in Unlisted .. Old
         /\ d = Unlisted <=> Older(d) = Unlisted
         /\ d # Unlisted => Older(d) \in 0 .. Old /\ d <= Older(d)
         /\ Older(d) <= AliveTimeout => d <= AliveTimeout
         /\ \A b \in 0 .. Old : d <= b => Older(d) <= Older(b)
BY DirectoryAssumption DEF Older, Lesser, Unlisted, Old

LEMMA TickKeeps ==
  ASSUME DirectoryInv, Tick
  PROVE  DirectoryInv'
<1>1. /\ forgotten' = forgotten
      /\ seen' = [n \in Member |-> Older(seen[n])]
      /\ heard' = [n \in Member |-> Older(heard[n])]
  BY DEF Tick
<1>2. ASSUME NEW n \in Member
      PROVE  /\ Older(seen[n]) \in Unlisted .. Old /\ Older(heard[n]) \in 0 .. Old
             /\ n \notin forgotten /\ Older(heard[n]) <= AliveTimeout
                  => Older(seen[n]) # Unlisted /\ Older(seen[n]) <= Older(heard[n])
  <2>1. PICK a \in Unlisted .. Old, b \in 0 .. Old : a = seen[n] /\ b = heard[n]
    BY DEF DirectoryInv, DirectoryType
  <2>2. b \in Unlisted .. Old /\ b # Unlisted
    BY <2>1, DirectoryAssumption DEF Unlisted, Old
  <2>3. Older(a) \in Unlisted .. Old /\ Older(b) \in 0 .. Old
    BY <2>1, <2>2, OlderAges
  <2>4. ASSUME n \notin forgotten, Older(b) <= AliveTimeout
        PROVE  Older(a) # Unlisted /\ Older(a) <= Older(b)
    <3>1. b <= AliveTimeout
      BY <2>2, <2>4, OlderAges
    <3>2. a # Unlisted /\ a <= b
      BY <2>1, <2>4, <3>1 DEF DirectoryInv, SeenSinceHeard
    <3>. QED  BY <2>1, <3>2, OlderAges
  <2>. QED  BY <2>1, <2>3, <2>4
<1>. QED  BY <1>1, <1>2 DEF DirectoryInv, DirectoryType, SeenSinceHeard

\* A node's record and its registrar's knowledge change together.
LEMMA NodeChangesKeep ==
  ASSUME DirectoryInv, NEW n \in Member, NEW a \in {0, seen[n]}, NEW b \in {0, heard[n]},
         seen' = [seen EXCEPT ![n] = a], heard' = [heard EXCEPT ![n] = b],
         b = 0 => a = 0 \/ b = heard[n],
         forgotten' \in {forgotten, forgotten \ {n}}, n \in forgotten \ forgotten' => a = 0
  PROVE  DirectoryInv'
<1>1. 0 \in Unlisted .. Old /\ 0 \in 0 .. Old /\ Unlisted # 0
  BY DirectoryAssumption DEF Unlisted, Old
<1>2. /\ seen'[n] = a /\ heard'[n] = b
      /\ \A k \in Member \ {n} : seen'[k] = seen[k] /\ heard'[k] = heard[k]
  BY DEF DirectoryInv, DirectoryType
<1>3. DirectoryType'
  BY <1>1 DEF DirectoryInv, DirectoryType
<1>4. ASSUME n \notin forgotten', b <= AliveTimeout
      PROVE  a # Unlisted /\ a <= b
  <2>1. b \in 0 .. Old
    BY <1>1 DEF DirectoryInv, DirectoryType
  <2>2. CASE a = 0
    BY <1>1, <2>1, <2>2, DirectoryAssumption DEF Old
  <2>3. CASE a = seen[n] /\ a # 0
    BY <1>4, <2>3 DEF DirectoryInv, SeenSinceHeard
  <2>. QED  BY <2>2, <2>3
<1>. QED  BY <1>2, <1>3, <1>4 DEF DirectoryInv, SeenSinceHeard

LEMMA InitDirectory == DirectoryInit => DirectoryInv
BY DirectoryAssumption DEF DirectoryInit, DirectoryInv, DirectoryType, SeenSinceHeard, Unlisted, Old

LEMMA StepDirectory == DirectoryInv /\ [DirectoryNext]_directoryVars => DirectoryInv'
<1>. SUFFICES ASSUME DirectoryInv, [DirectoryNext]_directoryVars
              PROVE  DirectoryInv'
  OBVIOUS
<1>1. CASE UNCHANGED <<seen, heard, forgotten>>
  BY <1>1 DEF DirectoryInv, DirectoryType, SeenSinceHeard
<1>2. ASSUME NEW n \in Member, NEW served \in BOOLEAN, NEW answered \in BOOLEAN,
             Register(n, served, answered)
      PROVE  DirectoryInv'
  <2>1. PICK a \in {0, seen[n]}, b \in {0, heard[n]} :
          /\ a = (IF served THEN 0 ELSE seen[n]) /\ b = (IF answered THEN 0 ELSE heard[n])
          /\ seen' = [seen EXCEPT ![n] = a] /\ heard' = [heard EXCEPT ![n] = b]
    BY <1>2 DEF Register
  <2>2. /\ answered => served
        /\ forgotten' = IF served THEN forgotten \ {n} ELSE forgotten
    BY <1>2 DEF Register
  <2>. QED  BY <2>1, <2>2, NodeChangesKeep
<1>3. ASSUME NEW n \in Member, NEW served \in BOOLEAN, NEW answered \in BOOLEAN,
             Beat(n, served, answered)
      PROVE  DirectoryInv'
  <2>. DEFINE known == served /\ seen[n] # Unlisted
  <2>1. PICK a \in {0, seen[n]}, b \in {0, heard[n]} :
          /\ a = (IF known THEN 0 ELSE seen[n]) /\ b = (IF known /\ answered THEN 0 ELSE heard[n])
          /\ seen' = [seen EXCEPT ![n] = a] /\ heard' = [heard EXCEPT ![n] = b]
    BY <1>3 DEF Beat
  <2>2. forgotten' = forgotten
    BY <1>3 DEF Beat
  <2>. HIDE DEF known
  <2>. QED  BY <2>1, <2>2, NodeChangesKeep
<1>4. CASE CleanupExpired
  <2>1. /\ seen' = [n \in Member |-> IF n \in Expired THEN Unlisted ELSE seen[n]]
        /\ heard' = heard /\ forgotten' = forgotten
    BY <1>4 DEF CleanupExpired
  <2>2. DirectoryType'
    BY <2>1, DirectoryAssumption DEF DirectoryInv, DirectoryType, Unlisted, Old
  <2>3. ASSUME NEW n \in Member \ forgotten, heard[n] <= AliveTimeout
        PROVE  n \notin Expired
    <3>1. seen[n] <= heard[n] /\ seen[n] \in Unlisted .. Old /\ heard[n] \in 0 .. Old
      BY <2>3 DEF DirectoryInv, DirectoryType, SeenSinceHeard
    <3>. QED  BY <2>3, <3>1, DirectoryAssumption DEF Expired, Unlisted, Old
  <2>. QED  BY <2>1, <2>2, <2>3 DEF DirectoryInv, SeenSinceHeard
<1>5. CASE RestartCoordinator
  <2>1. /\ seen' = [n \in Member |-> Unlisted] /\ heard' = heard
        /\ forgotten' = {n \in Member : seen[n] # Unlisted} \cup forgotten
    BY <1>5 DEF RestartCoordinator
  <2>2. DirectoryType'
    BY <2>1, DirectoryAssumption DEF DirectoryInv, DirectoryType, Unlisted, Old
  <2>. QED  BY <2>1, <2>2 DEF DirectoryInv, SeenSinceHeard
<1>6. ASSUME NEW n \in Member, StartNode(n) \/ StopNode(n)
      PROVE  DirectoryInv'
  BY <1>1, <1>6 DEF StartNode, StopNode
<1>. QED
  BY <1>1, <1>2, <1>3, <1>4, <1>5, <1>6, TickKeeps DEF DirectoryNext, RegistrarStep, directoryVars

\* Whoever asks for the live nodes and when, whatever calls are lost: a node whose last
\* call was answered within the timeout is listed, unless a restart forgot it.
THEOREM BeatsAlwaysKeepListed == DirectorySpec => []BeatsKeepListed
<1>1. DirectoryInv => BeatsKeepListed
  BY DEF DirectoryInv, SeenSinceHeard, BeatsKeepListed
<1>. QED  BY <1>1, InitDirectory, StepDirectory, PTL DEF DirectorySpec

-----------------------------------------------------------------------------
(* The coordinator's reads and its health report.                          *)

ReadyShards(n) == {s \in Shards : n \in NodesOf(s) /\ Ready(n, s)}

NodesType ==
  /\ up \subseteq ReadNodes
  /\ DOMAIN recovery = ReadNodes
  /\ \A n \in ReadNodes : DOMAIN recovery[n] = {s \in Shards : n \in NodesOf(s)}

\* A report is about every node, those asked and those still to ask; as long as no
\* node changes, what it collected is how things are.
ReportInv ==
  /\ report.stage \in {"none", "health", "recovery", "done"}
  /\ report.stage \in {"health", "recovery"} => report.asking # {} /\ report.asking \subseteq ReadNodes
  /\ report.stage # "none" => DOMAIN report.found = ReadNodes \ report.asking
  /\ report.stage = "done" => report.asking = {}
  /\ quiet => report.stage # "none" /\ \A n \in DOMAIN report.found : report.found[n] = ReadyShards(n)

ReaderType ==
  /\ reader \in [kind : {"none", "search", "list"},
                 stage : {"idle", "ready", "query", "done", "raised"},
                 from : Seq(ReadNodes \cup {NoNode}), candidate : Nat \ {0}]
  /\ reader.stage \in {"ready", "query", "raised"} => Shard \in Shards
  /\ reader.stage \in {"ready", "query"} => reader.candidate <= Len(Placement[Shard])
  /\ reader.kind = "list" => reader.candidate = 1

\* Nobody whom the read has passed over was ready all the time.
PassedOver ==
  /\ steady \subseteq ReadyPairs
  /\ reader.stage \in {"ready", "query"} =>
       \A i \in 1 .. reader.candidate - 1 : <<Placement[Shard][i], Shard>> \notin steady
  /\ ReadsWhatStays

\* What was promised to a read rests on nodes that have not changed since it began.
PromisesKept ==
  /\ \A s \in promised.shards : s \in Shards /\ \E n \in NodesOf(s) : <<n, s>> \in steady
  /\ promised.all => \A s \in Shards : <<Primary(s), s>> \in steady

ReadsInv == NodesType /\ ReportInv /\ ReaderType /\ PassedOver /\ PromisesKept

LEMMA PlacementFacts ==
  /\ Len(Placement) \in Nat /\ Shards = 1 .. Len(Placement) /\ 1 \in Shards
  /\ \A s \in Shards : /\ Placement[s] \in Seq(ReadNodes)
                       /\ Len(Placement[s]) \in Nat /\ Len(Placement[s]) >= 1
                       /\ NodesOf(s) = {Placement[s][i] : i \in 1 .. Len(Placement[s])}
                       /\ NodesOf(s) \subseteq ReadNodes
                       /\ Primary(s) \in NodesOf(s)
                       /\ IsFiniteSet(NodesOf(s))
<1>1. /\ Placement \in Seq(Seq(ReadNodes)) /\ Placement # <<>>
  BY PlacementAssumption
<1>2. Len(Placement) \in Nat /\ Shards = 1 .. Len(Placement)
  BY <1>1, LenProperties DEF Shards
<1>3. 1 \in Shards
  <2>1. Len(Placement) # 0
    BY <1>1, EmptySeq
  <2>. QED  BY <1>2, <2>1
<1>4. ASSUME NEW s \in Shards
      PROVE  /\ Placement[s] \in Seq(ReadNodes)
             /\ Len(Placement[s]) \in Nat /\ Len(Placement[s]) >= 1
             /\ NodesOf(s) = {Placement[s][i] : i \in 1 .. Len(Placement[s])}
             /\ NodesOf(s) \subseteq ReadNodes
             /\ Primary(s) \in NodesOf(s)
             /\ IsFiniteSet(NodesOf(s))
  <2>1. PICK q \in Seq(ReadNodes) : q = Placement[s] /\ q # <<>>
    BY <1>1, <1>2, PlacementAssumption, ElementOfSeq
  <2>2. Len(q) \in Nat /\ DOMAIN q = 1 .. Len(q)
    BY <2>1, LenProperties
  <2>3. Len(q) # 0
    BY <2>1, EmptySeq
  <2>4. NodesOf(s) = {q[i] : i \in 1 .. Len(q)}
    BY <2>1, <2>2 DEF NodesOf
  <2>5. IsFiniteSet({q[i] : i \in 1 .. Len(q)})
    <3>. DEFINE at == [i \in 1 .. Len(q) |-> q[i]]
    <3>1. at \in Surjection(1 .. Len(q), {q[i] : i \in 1 .. Len(q)})
      BY DEF Surjection
    <3>2. IsFiniteSet(1 .. Len(q))
      BY <2>2, FS_Interval
    <3>. QED  BY <3>1, <3>2, FS_Surjection
  <2>. QED  BY <2>1, <2>2, <2>3, <2>4, <2>5, ElementOfSeq DEF Primary
<1>. QED  BY <1>2, <1>3, <1>4

\* The read of a shard is over: a node answered, or all were passed over.
LEMMA AnsweredKeeps ==
  ASSUME ReadsInv, reader.stage \in {"ready", "query"}, NEW x \in ReadNodes \cup {NoNode},
         x = NoNode => \A n \in NodesOf(Shard) : <<n, Shard>> \notin steady,
         reader' = Answered(x),
         UNCHANGED <<up, recovery, steady>>
  PROVE  ReaderType' /\ PassedOver'
<1>1. PICK from \in Seq(ReadNodes \cup {NoNode}), kind \in {"search", "list", "none"} :
        from = reader.from /\ kind = reader.kind
  BY DEF ReadsInv, ReaderType
<1>2. PICK k \in Nat : k = Len(from) + 1 /\ k = Shard /\ k \in Shards /\ Len(from) = k - 1
  BY <1>1, LenProperties DEF ReadsInv, ReaderType, Shard
<1>3. PICK all \in Seq(ReadNodes \cup {NoNode}) :
        /\ all = Append(from, x) /\ Len(all) = k /\ DOMAIN all = 1 .. k
        /\ all[k] = x /\ \A s \in 1 .. k - 1 : all[s] = from[s]
  <2>. PICK all : all = Append(from, x)
    OBVIOUS
  <2>1. /\ all \in Seq(ReadNodes \cup {NoNode}) /\ Len(all) = Len(from) + 1
        /\ all[Len(from) + 1] = x /\ \A s \in 1 .. Len(from) : all[s] = from[s]
    BY <1>1, AppendProperties
  <2>2. DOMAIN all = 1 .. Len(all)
    BY <2>1, LenProperties
  <2>. QED  BY <1>2, <2>1, <2>2
<1>4. PICK stage \in {"done", "ready", "query"} :
        /\ stage = IF k = Len(Placement) THEN "done" ELSE IF kind = "search" THEN "ready" ELSE "query"
        /\ reader' = [kind |-> kind, stage |-> stage, from |-> all, candidate |-> 1]
  BY <1>1, <1>3 DEF Answered, Reader
<1>5. /\ reader'.stage = stage /\ reader'.from = all /\ reader'.candidate = 1 /\ reader'.kind = kind
      /\ Shard' = k + 1
  BY <1>3, <1>4 DEF Shard
<1>6. stage # "done" => k + 1 \in Shards
  BY <1>2, <1>4, PlacementFacts
<1>7. ReaderType'
  <2>1. reader' \in [kind : {"none", "search", "list"},
                     stage : {"idle", "ready", "query", "done", "raised"},
                     from : Seq(ReadNodes \cup {NoNode}), candidate : Nat \ {0}]
    BY <1>4
  <2>2. stage # "done" => Len(Placement[k + 1]) >= 1 /\ Len(Placement[k + 1]) \in Nat
    BY <1>6, PlacementFacts
  <2>. QED  BY <1>4, <1>5, <1>6, <2>1, <2>2 DEF ReaderType
<1>8. PassedOver'
  <2>1. steady' \subseteq ReadyPairs'
    BY DEF ReadsInv, PassedOver, ReadyPairs, Ready
  <2>2. \A i \in 1 .. reader'.candidate - 1 : FALSE
    BY <1>5
  <2>3. \A s \in DOMAIN all : all[s] = NoNode => \A n \in NodesOf(s) : <<n, s>> \notin steady
    <3>. SUFFICES ASSUME NEW s \in 1 .. k, all[s] = NoNode
                  PROVE  \A n \in NodesOf(s) : <<n, s>> \notin steady
      BY <1>3
    <3>1. CASE s = k
      BY <1>2, <1>3, <3>1
    <3>2. CASE s \in 1 .. k - 1
      <4>1. from[s] = NoNode /\ s \in DOMAIN from
        BY <1>1, <1>2, <1>3, <3>2, LenProperties
      <4>. QED  BY <1>1, <4>1 DEF ReadsInv, PassedOver, ReadsWhatStays
    <3>3. s = k \/ s \in 1 .. k - 1
      BY <1>2
    <3>. QED  BY <3>1, <3>2, <3>3
  <2>4. ReadsWhatStays'
    BY <1>4, <1>5, <2>3 DEF ReadsWhatStays
  <2>. QED  BY <2>1, <2>2, <2>4 DEF PassedOver
<1>. QED  BY <1>7, <1>8

\* A candidate that is not ready now was not ready all the time.
LEMMA FailedKeeps ==
  ASSUME ReadsInv, reader.stage \in {"ready", "query"}, ~Ready(Candidate, Shard),
         reader' = Failed, UNCHANGED <<up, recovery, steady>>
  PROVE  ReaderType' /\ PassedOver'
<1>1. PICK k \in Shards, c \in Nat \ {0} :
        /\ k = Shard /\ c = reader.candidate
        /\ c <= Len(Placement[k]) /\ Len(Placement[k]) \in Nat
  BY PlacementFacts DEF ReadsInv, ReaderType
<1>2. <<Placement[k][c], k>> \notin steady
  BY <1>1 DEF ReadsInv, PassedOver, ReadyPairs, Candidate
<1>3. CASE reader.kind = "list"
  <2>1. c = 1
    BY <1>1, <1>3 DEF ReadsInv, ReaderType
  <2>2. PICK r : r = [reader EXCEPT !.stage = "raised"]
    OBVIOUS
  <2>3. /\ reader' = r /\ r.stage = "raised" /\ r.from = reader.from /\ r.kind = "list"
        /\ r.candidate = 1 /\ Shard' = k
    BY <1>1, <1>3, <2>1, <2>2 DEF Failed, ReadsInv, ReaderType, Shard
  <2>4. ReaderType'
    BY <1>1, <2>2, <2>3 DEF ReadsInv, ReaderType
  <2>5. <<Primary(k), k>> \notin steady
    BY <1>2, <2>1 DEF Primary
  <2>6. PassedOver'
    <3>1. steady' \subseteq ReadyPairs'
      BY DEF ReadsInv, PassedOver, ReadyPairs, Ready
    <3>2. ReadsWhatStays'
      BY <2>3, <2>5 DEF ReadsInv, PassedOver, ReadsWhatStays
    <3>. QED  BY <2>3, <3>1, <3>2 DEF PassedOver
  <2>. QED  BY <2>4, <2>6
<1>4. CASE reader.kind # "list" /\ c < Len(Placement[k])
  <2>1. PICK r : r = [reader EXCEPT !.stage = "ready", !.candidate = c + 1]
    OBVIOUS
  <2>2. /\ reader' = r /\ r.stage = "ready" /\ r.from = reader.from /\ r.kind = reader.kind
        /\ r.candidate = c + 1 /\ Shard' = k
    BY <1>1, <1>4, <2>1 DEF Failed, ReadsInv, ReaderType, Shard
  <2>3. ReaderType'
    <3>1. c + 1 \in Nat \ {0} /\ c + 1 <= Len(Placement[k])
      BY <1>1, <1>4
    <3>2. r \in [kind : {"none", "search", "list"},
                 stage : {"idle", "ready", "query", "done", "raised"},
                 from : Seq(ReadNodes \cup {NoNode}), candidate : Nat \ {0}]
      BY <2>1, <3>1 DEF ReadsInv, ReaderType
    <3>. QED  BY <1>1, <1>4, <2>2, <3>1, <3>2 DEF ReaderType
  <2>4. \A i \in 1 .. c : <<Placement[k][i], k>> \notin steady
    <3>1. \A i \in 1 .. c - 1 : <<Placement[k][i], k>> \notin steady
      BY <1>1 DEF ReadsInv, PassedOver
    <3>2. \A i \in 1 .. c : i = c \/ i \in 1 .. c - 1
      BY <1>1
    <3>. QED  BY <1>2, <3>1, <3>2
  <2>5. PassedOver'
    <3>1. steady' \subseteq ReadyPairs'
      BY DEF ReadsInv, PassedOver, ReadyPairs, Ready
    <3>2. ReadsWhatStays'
      BY <2>2 DEF ReadsInv, PassedOver, ReadsWhatStays
    <3>3. c + 1 - 1 = c
      BY <1>1
    <3>. QED  BY <2>2, <2>4, <3>1, <3>2, <3>3 DEF PassedOver
  <2>. QED  BY <2>3, <2>5
<1>5. CASE reader.kind # "list" /\ ~(c < Len(Placement[k]))
  <2>1. reader' = Answered(NoNode)
    BY <1>1, <1>5 DEF Failed
  <2>2. \A i \in 1 .. Len(Placement[k]) : i = c \/ i \in 1 .. c - 1
    BY <1>1, <1>5
  <2>3. \A i \in 1 .. c - 1 : <<Placement[k][i], k>> \notin steady
    BY <1>1 DEF ReadsInv, PassedOver
  <2>4. \A n \in NodesOf(k) : <<n, k>> \notin steady
    BY <1>2, <2>2, <2>3, PlacementFacts, SMTT(20)
  <2>. QED  BY <1>1, <2>1, <2>4, AnsweredKeeps
<1>. QED  BY <1>3, <1>4, <1>5

LEMMA CandidatesAnswer ==
  ASSUME ReadsInv, AskReady \/ QueryShard
  PROVE  ReadsInv'
<1>1. UNCHANGED <<up, recovery, report, flaps, steady, quiet, promised>>
  BY DEF AskReady, QueryShard
<1>2. PICK k \in Shards, c \in Nat \ {0} :
        /\ k = Shard /\ c = reader.candidate
        /\ c <= Len(Placement[k]) /\ Len(Placement[k]) \in Nat
  BY PlacementFacts DEF ReadsInv, ReaderType, AskReady, QueryShard
<1>3. ReaderType' /\ PassedOver'
  <2>1. CASE ~Ready(Candidate, Shard)
    BY <1>1, <2>1, FailedKeeps DEF AskReady, QueryShard
  <2>2. CASE Ready(Candidate, Shard) /\ AskReady
    <3>1. PICK r : r = [reader EXCEPT !.stage = "query"]
      OBVIOUS
    <3>2. /\ reader' = r /\ r.stage = "query" /\ r.from = reader.from /\ r.kind = reader.kind
          /\ r.candidate = c /\ Shard' = k /\ reader.stage = "ready"
      BY <1>2, <2>2, <3>1 DEF AskReady, ReadsInv, ReaderType, Shard
    <3>3. ReaderType'
      BY <1>2, <3>1, <3>2 DEF ReadsInv, ReaderType
    <3>4. PassedOver'
      <4>1. steady' \subseteq ReadyPairs'
        BY <1>1 DEF ReadsInv, PassedOver, ReadyPairs, Ready
      <4>2. ReadsWhatStays'
        BY <1>1, <3>2 DEF ReadsInv, PassedOver, ReadsWhatStays
      <4>. QED  BY <1>1, <1>2, <3>2, <4>1, <4>2 DEF ReadsInv, PassedOver
    <3>. QED  BY <3>3, <3>4
  <2>3. CASE Ready(Candidate, Shard) /\ QueryShard
    <3>1. PICK n \in ReadNodes : n = Candidate
      <4>1. c \in 1 .. Len(Placement[k])
        BY <1>2
      <4>. QED  BY <1>2, <4>1, PlacementFacts, ElementOfSeq DEF Candidate
    <3>2. reader' = Answered(n) /\ reader.stage = "query" /\ n # NoNode
      BY <2>3, <3>1, PlacementAssumption DEF QueryShard
    <3>. QED  BY <1>1, <3>2, AnsweredKeeps
  <2>. QED  BY <2>1, <2>2, <2>3
<1>4. NodesType' /\ ReportInv' /\ PromisesKept'
  BY <1>1 DEF ReadsInv, NodesType, ReportInv, ReadyShards, Ready, PromisesKept
<1>. QED  BY <1>3, <1>4 DEF ReadsInv

LEMMA NodesChange ==
  ASSUME ReadsInv, NodeChanges
  PROVE  ReadsInv'
<1>1. /\ UNCHANGED <<reader, report>> /\ quiet' = FALSE /\ promised' = NothingPromised
      /\ steady' = {p \in steady : p[1] \in up' /\ R!ShardReady(recovery'[p[1]][p[2]])}
  BY DEF NodeChanges
<1>2. NodesType'
  <2>1. CASE \E n \in ReadNodes : up' = (up \ {n}) \cup ({n} \ up) /\ UNCHANGED recovery
    BY <2>1 DEF ReadsInv, NodesType
  <2>2. ASSUME NEW n \in up, NEW s \in DOMAIN recovery[n], NEW status,
               recovery' = [recovery EXCEPT ![n][s] = status], UNCHANGED up
        PROVE  NodesType'
    BY <2>2 DEF ReadsInv, NodesType
  <2>. QED  BY <2>1, <2>2 DEF NodeChanges
<1>3. ReportInv'
  BY <1>1 DEF ReadsInv, ReportInv
<1>4. ReaderType' /\ Shard' = Shard
  BY <1>1 DEF ReadsInv, ReaderType, Shard
<1>5. PassedOver'
  <2>1. steady' \subseteq steady
    BY <1>1
  <2>2. steady' \subseteq ReadyPairs'
    BY <1>1 DEF ReadsInv, PassedOver, ReadyPairs, Ready
  <2>3. ReadsWhatStays'
    BY <1>1, <1>4, <2>1 DEF ReadsInv, PassedOver, ReadsWhatStays
  <2>. QED  BY <1>1, <1>4, <2>1, <2>2, <2>3 DEF ReadsInv, PassedOver
<1>6. PromisesKept'
  BY <1>1 DEF PromisesKept, NothingPromised
<1>. QED  BY <1>2, <1>3, <1>4, <1>5, <1>6 DEF ReadsInv

LEMMA NobodyIsNoMajority ==
  ASSUME NEW len \in Nat, len >= 1
  PROVE  ~(0 = len) /\ ~(0 >= len \div 2 + 1)
<1>1. len \div 2 \in Int /\ len \div 2 >= 0
  OBVIOUS
<1>. QED  BY <1>1

\* A report that is done and quiet says how things are.
LEMMA ReportTrue ==
  ASSUME ReadsInv, report.stage = "done", quiet, NEW s \in Shards
  PROVE  /\ ShardHealth(s) # "unavailable" => \E n \in NodesOf(s) : <<n, s>> \in ReadyPairs
         /\ ShardHealth(s) = "healthy" => \A n \in NodesOf(s) : <<n, s>> \in ReadyPairs
<1>. DEFINE voters == {n \in NodesOf(s) : s \in report.found[n]}
<1>1. IsFiniteSet(NodesOf(s)) /\ NodesOf(s) \subseteq ReadNodes
      /\ Len(Placement[s]) \in Nat /\ Len(Placement[s]) >= 1
      /\ Len(Placement[s]) = Cardinality(NodesOf(s))
  BY PlacementFacts, PlacementAssumption
<1>2. \A n \in voters : <<n, s>> \in ReadyPairs
  <2>1. \A n \in ReadNodes : report.found[n] = ReadyShards(n)
    BY DEF ReadsInv, ReportInv
  <2>. QED  BY <1>1, <2>1 DEF ReadyShards, ReadyPairs
<1>3. /\ Cardinality(voters) \in Nat
      /\ Cardinality(voters) = Cardinality(NodesOf(s)) => voters = NodesOf(s)
      /\ voters = {} => Cardinality(voters) = 0
  BY <1>1, FS_Subset, FS_CardinalityType, FS_EmptySet
<1>4. ReadyVoters(s) = Cardinality(voters)
  BY DEF ReadyVoters
<1>. HIDE DEF voters
<1>5. ShardHealth(s) # "unavailable" => Cardinality(voters) # 0
  <2>1. PICK len \in Nat, k \in Nat : len = Len(Placement[s]) /\ len >= 1 /\ k = Cardinality(voters)
    BY <1>1, <1>3
  <2>2. ~(0 = len) /\ ~(0 >= len \div 2 + 1)
    BY <2>1, NobodyIsNoMajority
  <2>. QED  BY <1>4, <2>1, <2>2 DEF ShardHealth
<1>6. ShardHealth(s) = "healthy" => voters = NodesOf(s)
  BY <1>1, <1>3, <1>4 DEF ShardHealth
<1>7. voters \subseteq NodesOf(s)
  BY DEF voters
<1>. QED  BY <1>2, <1>3, <1>5, <1>6, <1>7

LEMMA ReadsBegin ==
  ASSUME ReadsInv, NEW kind \in {"search", "list"}, BeginRead(kind)
  PROVE  ReadsInv'
<1>1. /\ UNCHANGED <<up, recovery, report, flaps, quiet>> /\ steady' = ReadyPairs
      /\ reader' = Reader(kind, IF kind = "search" THEN "ready" ELSE "query", <<>>, 1)
  BY DEF BeginRead
<1>2. PICK stage \in {"ready", "query"} :
        reader' = [kind |-> kind, stage |-> stage, from |-> <<>>, candidate |-> 1]
  BY <1>1 DEF Reader
<1>3. /\ <<>> \in Seq(ReadNodes \cup {NoNode}) /\ Len(<<>>) = 0 /\ DOMAIN <<>> = {}
  BY EmptySeq, LenProperties
<1>4. /\ reader'.stage = stage /\ reader'.from = <<>> /\ reader'.candidate = 1
      /\ reader'.kind = kind /\ Shard' = 1
  BY <1>2, <1>3 DEF Shard
<1>5. ReaderType'
  <2>1. reader' \in [kind : {"none", "search", "list"},
                     stage : {"idle", "ready", "query", "done", "raised"},
                     from : Seq(ReadNodes \cup {NoNode}), candidate : Nat \ {0}]
    BY <1>2, <1>3
  <2>. QED  BY <1>4, <2>1, PlacementFacts DEF ReaderType
<1>6. PassedOver'
  <2>1. steady' \subseteq ReadyPairs'
    BY <1>1 DEF ReadyPairs, Ready
  <2>2. ReadsWhatStays'
    BY <1>3, <1>4 DEF ReadsWhatStays
  <2>. QED  BY <1>4, <2>1, <2>2 DEF PassedOver
<1>7. NodesType' /\ ReportInv'
  BY <1>1 DEF ReadsInv, NodesType, ReportInv, ReadyShards, Ready
<1>8. PromisesKept'
  <2>1. CASE report.stage = "done" /\ quiet
    <3>1. promised' = [shards |-> {s \in Shards : ShardHealth(s) # "unavailable"},
                       all |-> ClusterHealth = "healthy"]
      BY <2>1 DEF BeginRead
    <3>2. \A s \in promised'.shards : s \in Shards /\ ShardHealth(s) # "unavailable"
      BY <3>1
    <3>3. promised'.all => \A s \in Shards : ShardHealth(s) = "healthy"
      BY <3>1 DEF ClusterHealth
    <3>. QED  BY <1>1, <2>1, <3>2, <3>3, ReportTrue, PlacementFacts DEF PromisesKept
  <2>2. CASE ~(report.stage = "done" /\ quiet)
    BY <2>2 DEF BeginRead, NothingPromised, PromisesKept
  <2>. QED  BY <2>1, <2>2
<1>. QED  BY <1>5, <1>6, <1>7, <1>8 DEF ReadsInv

LEMMA ReadsEnd ==
  ASSUME ReadsInv, EndRead
  PROVE  ReadsInv'
<1>1. /\ UNCHANGED <<up, recovery, report, flaps, quiet>> /\ steady' = {}
      /\ reader' = [kind |-> "none", stage |-> "idle", from |-> <<>>, candidate |-> 1]
      /\ promised' = NothingPromised
  BY DEF EndRead, NotReading, Reader
<1>2. <<>> \in Seq(ReadNodes \cup {NoNode}) /\ DOMAIN <<>> = {}
  BY EmptySeq, LenProperties
<1>3. ReaderType' /\ PassedOver' /\ PromisesKept'
  BY <1>1, <1>2 DEF ReaderType, PassedOver, ReadsWhatStays, PromisesKept, NothingPromised
<1>4. NodesType' /\ ReportInv'
  BY <1>1 DEF ReadsInv, NodesType, ReportInv, ReadyShards, Ready
<1>. QED  BY <1>3, <1>4 DEF ReadsInv

-----------------------------------------------------------------------------
(* The steps of the report.                                                *)

\* What is collected of a node is what is ready of it.
LEMMA CollectedKeeps ==
  ASSUME ReadsInv, report.stage \in {"health", "recovery"}, NEW n \in report.asking,
         Collected(n, ReadyShards(n)), UNCHANGED <<up, recovery, quiet>>
  PROVE  ReportInv'
<1>. DEFINE rest == report.asking \ {n}
            found == [m \in DOMAIN report.found \cup {n} |->
                        IF m = n THEN ReadyShards(n) ELSE report.found[m]]
<1>1. report' = [stage |-> IF rest = {} THEN "done" ELSE "health", asking |-> rest, found |-> found]
  BY DEF Collected, Report
<1>2. /\ report'.stage = IF rest = {} THEN "done" ELSE "health"
      /\ report'.asking = rest /\ report'.found = found
  BY <1>1
<1>3. /\ report.asking \subseteq ReadNodes /\ DOMAIN report.found = ReadNodes \ report.asking
      /\ quiet => \A m \in DOMAIN report.found : report.found[m] = ReadyShards(m)
  BY DEF ReadsInv, ReportInv
<1>4. DOMAIN found = ReadNodes \ rest
  BY <1>3
<1>5. \A m : ReadyShards(m)' = ReadyShards(m)
  BY DEF ReadyShards, Ready
<1>6. quiet => \A m \in DOMAIN found : found[m] = ReadyShards(m)
  BY <1>3
<1>. HIDE DEF found
<1>7. quiet' = quiet
  OBVIOUS
<1>. QED  BY <1>2, <1>3, <1>4, <1>5, <1>6, <1>7 DEF ReportInv

LEMMA NodesAsked ==
  ASSUME ReadsInv, NEW n \in ReadNodes, AskHealth(n) \/ AskRecovery(n)
  PROVE  ReadsInv'
<1>1. /\ UNCHANGED <<up, recovery, reader, flaps, steady, quiet, promised>>
      /\ report.stage \in {"health", "recovery"} /\ n = CHOOSE m \in report.asking : TRUE
  BY DEF AskHealth, AskRecovery
<1>2. n \in report.asking
  BY <1>1 DEF ReadsInv, ReportInv
<1>3. n \notin up => ReadyShards(n) = {}
  BY DEF ReadyShards, Ready
<1>4. n \in up => ReadyShards(n) = {s \in DOMAIN recovery[n] : R!ShardReady(recovery[n][s])}
  BY DEF ReadyShards, Ready, ReadsInv, NodesType
<1>5. ReportInv'
  <2>1. CASE AskHealth(n) /\ n \in up
    <3>1. /\ report' = [report EXCEPT !.stage = "recovery"] /\ report.stage = "health"
      BY <2>1 DEF AskHealth
    <3>2. /\ report'.stage = "recovery" /\ report'.asking = report.asking
          /\ report'.found = report.found
      BY <3>1 DEF ReadsInv, ReportInv
    <3>. QED  BY <1>1, <3>1, <3>2 DEF ReadsInv, ReportInv, ReadyShards, Ready
  <2>2. CASE AskHealth(n) /\ n \notin up
    <3>1. Collected(n, ReadyShards(n))
      BY <1>3, <2>2 DEF AskHealth
    <3>. QED  BY <1>1, <1>2, <3>1, CollectedKeeps
  <2>3. CASE AskRecovery(n)
    <3>1. Collected(n, ReadyShards(n))
      BY <1>3, <1>4, <2>3 DEF AskRecovery
    <3>. QED  BY <1>1, <1>2, <3>1, CollectedKeeps
  <2>. QED  BY <2>1, <2>2, <2>3
<1>6. NodesType' /\ ReaderType' /\ PassedOver' /\ PromisesKept'
  BY <1>1 DEF ReadsInv, NodesType, ReaderType, PassedOver, PromisesKept, ReadsWhatStays,
    ReadyPairs, Ready, Shard
<1>. QED  BY <1>5, <1>6 DEF ReadsInv

LEMMA ReportBegins ==
  ASSUME ReadsInv, BeginReport
  PROVE  ReadsInv'
<1>1. /\ UNCHANGED <<up, recovery, reader, flaps, steady>> /\ promised' = NothingPromised
      /\ report' = [stage |-> "health", asking |-> ReadNodes, found |-> [n \in {} |-> {}]]
  BY DEF BeginReport, Report, NoReport
<1>2. ReadNodes # {}
  BY PlacementFacts
<1>3. ReportInv'
  BY <1>1, <1>2 DEF ReportInv
<1>4. NodesType' /\ ReaderType' /\ PassedOver' /\ PromisesKept'
  BY <1>1 DEF ReadsInv, NodesType, ReaderType, PassedOver, PromisesKept, ReadsWhatStays,
    ReadyPairs, Ready, Shard, NothingPromised
<1>. QED  BY <1>3, <1>4 DEF ReadsInv

LEMMA InitReads == ReadsInit => ReadsInv
<1>. SUFFICES ASSUME ReadsInit
              PROVE  ReadsInv
  OBVIOUS
<1>1. <<>> \in Seq(ReadNodes \cup {NoNode}) /\ DOMAIN <<>> = {}
  BY EmptySeq, LenProperties
<1>2. reader = [kind |-> "none", stage |-> "idle", from |-> <<>>, candidate |-> 1]
  BY DEF ReadsInit, NotReading, Reader
<1>3. ReaderType /\ PassedOver
  BY <1>1, <1>2 DEF ReadsInit, ReaderType, PassedOver, ReadsWhatStays
<1>4. NodesType
  BY DEF ReadsInit, NodesType
<1>5. ReportInv /\ PromisesKept
  BY DEF ReadsInit, ReportInv, PromisesKept, NoReport, Report, NothingPromised
<1>. QED  BY <1>3, <1>4, <1>5 DEF ReadsInv

LEMMA StepReads == ReadsInv /\ [ReadsNext]_readVars => ReadsInv'
<1>1. ReadsInv /\ UNCHANGED readVars => ReadsInv'
  <2>. SUFFICES ASSUME ReadsInv, UNCHANGED readVars
                PROVE  ReadsInv'
    OBVIOUS
  <2>1. NodesType' /\ ReportInv'
    BY DEF readVars, ReadsInv, NodesType, ReportInv, ReadyShards, Ready
  <2>2. ReaderType' /\ PassedOver' /\ PromisesKept'
    BY DEF readVars, ReadsInv, ReaderType, PassedOver, PromisesKept, ReadsWhatStays,
      ReadyPairs, Ready, Shard
  <2>. QED  BY <2>1, <2>2 DEF ReadsInv
<1>. QED
  BY <1>1, NodesChange, ReportBegins, NodesAsked, ReadsBegin, CandidatesAnswer, ReadsEnd
  DEF ReadsNext

LEMMA AlwaysReadsInv == ReadsSpec => []ReadsInv
BY InitReads, StepReads, PTL DEF ReadsSpec

\* A search leaves a shard out only if each of its nodes was down or not ready at some
\* time since it began, and a listing fails only if a primary was.
THEOREM ReadsAlwaysWhatStays == ReadsSpec => []ReadsWhatStays
<1>1. ReadsInv => ReadsWhatStays
  BY DEF ReadsInv, PassedOver
<1>. QED  BY <1>1, AlwaysReadsInv, PTL

\* What the health report promises of searches and listings holds as long as no node
\* changes after the report was begun.
THEOREM HealthAlwaysForetellsReads == ReadsSpec => []HealthForetellsReads
<1>1. ReadsInv => HealthForetellsReads
  BY DEF ReadsInv, PassedOver, ReadsWhatStays, PromisesKept, HealthForetellsReads, ReaderType
<1>. QED  BY <1>1, AlwaysReadsInv, PTL

-----------------------------------------------------------------------------
(* The deployment scripts.                                                 *)

ToProcess == [do : {"start", "stop", "wait"}, at : Process]
ToHost == [do : {"ship", "sync"}, at : Host]
ScriptCommand == ToProcess \cup ToHost
StopCommand == [do : {"stop"}, at : Process]

ScriptInv ==
  /\ script = [command |-> script.command, pull |-> script.pull, todo |-> script.todo]
  /\ script.todo \in Seq(ScriptCommand)
  /\ script.command = "stopped" => script.todo \in Seq(StopCommand)

\* A launcher whose pid file was not written over is the one the file names.
LaunchersNamed ==
  /\ started \in Nat
  /\ pidFile \in [PidFile -> Nat]
  /\ \A l \in launchers :
       /\ l.process \in Process /\ l.pid \in Nat /\ l.pid # NoPid
       /\ l.pid \in overwritten \/ pidFile[PidFileOf(l.process)] = l.pid

\* A stop that is under way or has succeeded has yet to come to the launchers that run.
StopComes ==
  script.command = "stopped" =>
    \A l \in launchers : l.pid \in overwritten \/ \E k \in DOMAIN script.todo : script.todo[k].at = l.process

DeploymentInv == ScriptInv /\ LaunchersNamed /\ StopComes

LEMMA ToEachType ==
  ASSUME NEW S, NEW targets \in Seq(S), NEW do, NEW T, \A x \in S : [do |-> do, at |-> x] \in T
  PROVE  ToEach(do, targets) \in Seq(T)
<1>1. Len(targets) \in Nat /\ DOMAIN targets = 1 .. Len(targets) /\ targets \in [1 .. Len(targets) -> S]
  BY LenProperties
<1>2. ToEach(do, targets) \in [1 .. Len(targets) -> T]
  BY <1>1 DEF ToEach
<1>. QED  BY <1>1, <1>2, SeqDef DEF ToEach

LEMMA DeployType ==
  ASSUME NEW pull
  PROVE  DeployCommands(pull) \in Seq(ScriptCommand)
<1>1. Processes \in Seq(Process) /\ Hosts \in Seq(Host) /\ Coordinator \in Process /\ HostOf[Coordinator] \in Host
  <2>1. Processes \in Seq(Process) /\ Processes # <<>> /\ Hosts \in Seq(Host)
    BY DeploymentAssumption
  <2>2. 1 \in 1 .. Len(Processes)
    BY <2>1, LenProperties, EmptySeq
  <2>. QED  BY <2>1, <2>2, ElementOfSeq, DeploymentAssumption DEF Coordinator
<1>2. <<HostOf[Coordinator]>> \in Seq(Host) /\ <<Coordinator>> \in Seq(Process)
  BY <1>1
<1>3. PICK ships \in Seq(Host) : ships = IF pull THEN <<HostOf[Coordinator]>> ELSE Hosts
  BY <1>1, <1>2
<1>4. /\ \A d \in {"ship", "sync"}, h \in Host : [do |-> d, at |-> h] \in ScriptCommand
      /\ \A d \in {"start", "wait"}, p \in Process : [do |-> d, at |-> p] \in ScriptCommand
  BY DEF ScriptCommand, ToHost, ToProcess
<1>5. /\ ToEach("ship", ships) \in Seq(ScriptCommand) /\ ToEach("sync", Hosts) \in Seq(ScriptCommand)
      /\ ToEach("start", Processes) \in Seq(ScriptCommand)
      /\ ToEach("wait", <<Coordinator>>) \in Seq(ScriptCommand)
  BY <1>1, <1>2, <1>3, <1>4, ToEachType
<1>. QED  BY <1>3, <1>5, ConcatProperties DEF DeployCommands

\* The process of a stop command has no launcher left but overwritten ones.
LEMMA EffectKeeps ==
  ASSUME LaunchersNamed, NEW c \in ScriptCommand, Effect(c)
  PROVE  /\ LaunchersNamed'
         /\ c \in StopCommand =>
              /\ launchers' \subseteq launchers /\ overwritten' = overwritten
              /\ \A l \in launchers' : l.process = c.at => l.pid \in overwritten
<1>1. CASE UNCHANGED <<pidFile, launchers, started, overwritten>> /\ c.do \in {"ship", "sync", "wait"}
  BY <1>1 DEF LaunchersNamed, StopCommand
<1>2. CASE c.do = "start" /\ Start(c.at)
  <2>1. PICK p \in Process : p = c.at
    BY <1>2 DEF ScriptCommand, ToProcess, ToHost
  <2>2. PICK k \in Nat : k = started' /\ k # NoPid
    BY <1>2 DEF Start, LaunchersNamed, NoPid
  <2>3. PICK f \in PidFile : f = PidFileOf(p)
    BY DEF PidFile
  <2>4. /\ launchers' = launchers \cup {[pid |-> k, process |-> p]}
        /\ pidFile' = [pidFile EXCEPT ![f] = k]
        /\ overwritten' = overwritten \cup {pidFile[f]}
        /\ pidFile' \in [PidFile -> Nat]
    BY <1>2, <2>1, <2>2, <2>3 DEF Start, LaunchersNamed
  <2>5. ASSUME NEW l \in launchers'
        PROVE  /\ l.process \in Process /\ l.pid \in Nat /\ l.pid # NoPid
               /\ l.pid \in overwritten' \/ pidFile'[PidFileOf(l.process)] = l.pid
    <3>1. CASE l = [pid |-> k, process |-> p]
      BY <2>2, <2>3, <2>4, <3>1 DEF LaunchersNamed
    <3>2. CASE l \in launchers
      <4>1. /\ l.process \in Process /\ l.pid \in Nat /\ l.pid # NoPid
            /\ l.pid \in overwritten \/ pidFile[PidFileOf(l.process)] = l.pid
        BY <3>2 DEF LaunchersNamed
      <4>2. PICK g \in PidFile : g = PidFileOf(l.process)
        BY <4>1 DEF PidFile
      <4>. QED  BY <2>4, <4>1, <4>2 DEF LaunchersNamed
    <3>. QED  BY <2>4, <3>1, <3>2
  <2>6. c \notin StopCommand
    BY <1>2 DEF StopCommand
  <2>. QED  BY <2>2, <2>4, <2>5, <2>6 DEF LaunchersNamed
<1>3. CASE c.do = "stop" /\ Kill(c.at)
  <2>1. PICK p \in Process : p = c.at
    BY <1>3 DEF ScriptCommand, ToProcess, ToHost
  <2>2. PICK f \in PidFile : f = PidFileOf(p)
    BY DEF PidFile
  <2>3. /\ launchers' = {l \in launchers : l.pid # pidFile[f]}
        /\ pidFile' = [pidFile EXCEPT ![f] = NoPid]
        /\ UNCHANGED <<started, overwritten>>
    BY <1>3, <2>1, <2>2 DEF Kill, Named
  <2>4. pidFile' \in [PidFile -> Nat]
    BY <2>3 DEF LaunchersNamed, NoPid
  <2>5. ASSUME NEW l \in launchers'
        PROVE  /\ l.process = p => l.pid \in overwritten
               /\ l.pid \in overwritten \/ pidFile'[PidFileOf(l.process)] = l.pid
    <3>1. l.process \in Process /\ (l.pid \in overwritten \/ pidFile[PidFileOf(l.process)] = l.pid)
      BY <2>3 DEF LaunchersNamed
    <3>2. PICK g \in PidFile : g = PidFileOf(l.process)
      BY <3>1 DEF PidFile
    <3>. QED  BY <2>2, <2>3, <3>1, <3>2 DEF LaunchersNamed
  <2>. QED  BY <2>1, <2>3, <2>4, <2>5 DEF LaunchersNamed
<1>. QED  BY <1>1, <1>2, <1>3 DEF Effect, Ship, Untouched

LEMMA ScriptsBegin ==
  ASSUME DeploymentInv, NEW command, NEW pull, NEW todo \in Seq(ScriptCommand),
         BeginScript(command, pull, todo),
         command = "stopped" => todo = StopCommands
  PROVE  DeploymentInv'
<1>1. /\ script' = [command |-> command, pull |-> pull, todo |-> todo]
      /\ UNCHANGED <<pidFile, launchers, started, overwritten>>
  BY DEF BeginScript
<1>2. /\ StopCommands \in Seq(StopCommand)
      /\ \A p \in Process : \E k \in DOMAIN StopCommands : StopCommands[k].at = p
  <2>1. \A p \in Process : [do |-> "stop", at |-> p] \in StopCommand
    BY DEF StopCommand
  <2>2. Processes \in Seq(Process)
    BY DeploymentAssumption
  <2>3. ToEach("stop", Processes) \in Seq(StopCommand)
    BY <2>1, <2>2, ToEachType
  <2>4. /\ DOMAIN ToEach("stop", Processes) = DOMAIN Processes
        /\ \A k \in DOMAIN Processes : ToEach("stop", Processes)[k].at = Processes[k]
    BY DEF ToEach
  <2>. QED  BY <2>3, <2>4 DEF Process, StopCommands
<1>3. ScriptInv'
  BY <1>1, <1>2 DEF ScriptInv
<1>4. LaunchersNamed'
  BY <1>1 DEF DeploymentInv, LaunchersNamed
<1>5. StopComes'
  BY <1>1, <1>2 DEF DeploymentInv, LaunchersNamed, StopComes
<1>. QED  BY <1>3, <1>4, <1>5 DEF DeploymentInv

LEMMA FirstAndRest ==
  ASSUME NEW S, NEW q \in Seq(S), q # <<>>
  PROVE  /\ Head(q) \in S /\ Head(q) = q[1] /\ Tail(q) \in Seq(S)
         /\ \A k \in DOMAIN q : k = 1 \/ (k - 1 \in DOMAIN Tail(q) /\ Tail(q)[k - 1] = q[k])
         /\ Len(q) = 1 => DOMAIN q = {1}
<1>1. Len(q) \in Nat /\ DOMAIN q = 1 .. Len(q) /\ Len(q) # 0
  BY LenProperties, EmptySeq
<1>2. /\ Head(q) \in S /\ Head(q) = q[1] /\ Tail(q) \in Seq(S) /\ Len(Tail(q)) = Len(q) - 1
      /\ \A i \in 1 .. Len(Tail(q)) : Tail(q)[i] = q[i + 1]
  BY HeadTailProperties, ElementOfSeq
<1>3. DOMAIN Tail(q) = 1 .. Len(q) - 1
  BY <1>2, LenProperties
<1>4. ASSUME NEW k \in 1 .. Len(q), k # 1
      PROVE  k - 1 \in 1 .. Len(q) - 1 /\ Tail(q)[k - 1] = q[k]
  <2>1. k - 1 \in 1 .. Len(q) - 1 /\ (k - 1) + 1 = k
    BY <1>1, <1>4
  <2>. QED  BY <1>2, <2>1
<1>. QED  BY <1>1, <1>2, <1>3, <1>4

\* A command was run: the script goes on with the rest, or has ended.
LEMMA CommandsRun ==
  ASSUME DeploymentInv, RunCommand
  PROVE  DeploymentInv'
<1>1. PICK todo \in Seq(ScriptCommand) : todo = script.todo /\ todo # <<>>
  BY DEF DeploymentInv, ScriptInv, RunCommand, Running
<1>2. PICK c \in ScriptCommand, rest \in Seq(ScriptCommand) :
        /\ c = Head(todo) /\ c = todo[1] /\ rest = Tail(todo)
        /\ \A k \in DOMAIN todo : k = 1 \/ (k - 1 \in DOMAIN rest /\ rest[k - 1] = todo[k])
        /\ Len(todo) = 1 => DOMAIN todo = {1}
  <2>. PICK c, rest : c = Head(todo) /\ rest = Tail(todo)
    OBVIOUS
  <2>1. /\ c \in ScriptCommand /\ c = todo[1] /\ rest \in Seq(ScriptCommand)
        /\ \A k \in DOMAIN todo : k = 1 \/ (k - 1 \in DOMAIN rest /\ rest[k - 1] = todo[k])
        /\ Len(todo) = 1 => DOMAIN todo = {1}
    BY <1>1, FirstAndRest
  <2>. QED  BY <2>1
<1>3. Effect(c)
  BY <1>1, <1>2 DEF RunCommand
<1>4. LaunchersNamed'
  BY <1>3, EffectKeeps DEF DeploymentInv
<1>5. PICK left \in {<<>>, rest} :
        /\ script'.command = script.command /\ script'.todo = left
        /\ script' = [command |-> script'.command, pull |-> script'.pull, todo |-> script'.todo]
        /\ left = <<>> /\ left # rest => Len(todo) = 1
  <2>1. CASE Len(todo) = 1
    <3>1. script' = [command |-> script.command, pull |-> FALSE, todo |-> <<>>]
      BY <1>1, <2>1 DEF RunCommand, Ended
    <3>. QED  BY <2>1, <3>1
  <2>2. CASE Len(todo) # 1
    <3>1. script' = [command |-> script.command, pull |-> script.pull, todo |-> rest]
      BY <1>1, <1>2, <2>2 DEF RunCommand, DeploymentInv, ScriptInv
    <3>. QED  BY <3>1
  <2>. QED  BY <2>1, <2>2
<1>6. script.command = "stopped" => c \in StopCommand /\ rest \in Seq(StopCommand)
  <2>. SUFFICES ASSUME script.command = "stopped"
                PROVE  c \in StopCommand /\ rest \in Seq(StopCommand)
    OBVIOUS
  <2>1. todo \in Seq(StopCommand)
    BY <1>1 DEF DeploymentInv, ScriptInv
  <2>. QED  BY <1>1, <1>2, <2>1, FirstAndRest
<1>7. ScriptInv'
  <2>1. <<>> \in Seq(ScriptCommand) /\ <<>> \in Seq(StopCommand)
    BY EmptySeq
  <2>. QED  BY <1>2, <1>5, <1>6, <2>1 DEF ScriptInv
<1>8. StopComes'
  <2>. SUFFICES ASSUME script.command = "stopped", NEW l \in launchers', l.pid \notin overwritten'
                PROVE  \E k \in DOMAIN left : left[k].at = l.process
    BY <1>5 DEF StopComes
  <2>1. l \in launchers /\ overwritten' = overwritten /\ l.process # c.at
    BY <1>3, <1>6, EffectKeeps DEF DeploymentInv
  <2>2. PICK k \in DOMAIN todo : todo[k].at = l.process
    BY <1>1, <2>1 DEF DeploymentInv, StopComes
  <2>3. k # 1
    BY <1>2, <2>1, <2>2
  <2>4. left = rest
    BY <1>2, <1>5, <2>2, <2>3
  <2>. QED  BY <1>2, <2>2, <2>3, <2>4
<1>. QED  BY <1>4, <1>7, <1>8 DEF DeploymentInv

LEMMA CommandsFail ==
  ASSUME DeploymentInv, CommandFails
  PROVE  DeploymentInv'
<1>1. script' = [command |-> "failed", pull |-> FALSE, todo |-> <<>>]
  BY DEF CommandFails, Ended
<1>2. PICK c \in ScriptCommand : c = Head(script.todo)
  BY FirstAndRest DEF DeploymentInv, ScriptInv, CommandFails, Running
<1>3. Untouched \/ Effect(c)
  BY <1>2 DEF CommandFails
<1>4. LaunchersNamed'
  BY <1>3, EffectKeeps DEF DeploymentInv, LaunchersNamed, Untouched
<1>5. <<>> \in Seq(ScriptCommand)
  BY EmptySeq
<1>. QED  BY <1>1, <1>4, <1>5 DEF DeploymentInv, ScriptInv, StopComes

LEMMA ServersChange ==
  ASSUME DeploymentInv, (\E b \in booting : Boot(b)) \/ (\E p \in Process : CrashServer(p))
  PROVE  DeploymentInv'
<1>1. UNCHANGED <<pidFile, script, started, overwritten>> /\ launchers' \subseteq launchers
  BY DEF Boot, CrashServer
<1>. QED  BY <1>1 DEF DeploymentInv, ScriptInv, LaunchersNamed, StopComes

LEMMA InitDeployment == DeploymentInit => DeploymentInv
<1>. SUFFICES ASSUME DeploymentInit
              PROVE  DeploymentInv
  OBVIOUS
<1>1. script = [command |-> "none", pull |-> FALSE, todo |-> <<>>] /\ <<>> \in Seq(ScriptCommand)
  BY EmptySeq DEF DeploymentInit, Ended
<1>2. LaunchersNamed
  BY DEF DeploymentInit, LaunchersNamed, NoPid
<1>. QED  BY <1>1, <1>2 DEF DeploymentInv, ScriptInv, StopComes

LEMMA StepDeployment == DeploymentInv /\ [DeploymentNext]_deployVars => DeploymentInv'
<1>. SUFFICES ASSUME DeploymentInv, [DeploymentNext]_deployVars
              PROVE  DeploymentInv'
  OBVIOUS
<1>1. ASSUME NEW pull \in BOOLEAN, BeginScript("deployed", pull, DeployCommands(pull))
      PROVE  DeploymentInv'
  BY <1>1, DeployType, ScriptsBegin
<1>2. CASE BeginScript("stopped", FALSE, StopCommands)
  <2>1. Processes \in Seq(Process) /\ \A p \in Process : [do |-> "stop", at |-> p] \in ScriptCommand
    BY DeploymentAssumption DEF ScriptCommand, ToProcess
  <2>2. StopCommands \in Seq(ScriptCommand)
    BY <2>1, ToEachType DEF StopCommands
  <2>. QED  BY <1>2, <2>2, ScriptsBegin
<1>3. CASE UNCHANGED deployVars
  BY <1>3 DEF deployVars, DeploymentInv, ScriptInv, LaunchersNamed, StopComes
<1>. QED  BY <1>1, <1>2, <1>3, CommandsRun, CommandsFail, ServersChange DEF DeploymentNext

\* After a stop that succeeded the only launchers left are those whose server.pid a
\* later start wrote over, however the processes share their data directories and
\* whatever scripts failed halfway before.
THEOREM StopsAlwaysEndLaunchers == DeploymentSpec => []StopEndsLaunchers
<1>1. DeploymentInv => StopEndsLaunchers
  <2>. SUFFICES ASSUME DeploymentInv, script.command = "stopped", script.todo = <<>>, NEW l \in launchers
                PROVE  l.pid \in overwritten
    BY DEF StopEndsLaunchers, Running
  <2>1. DOMAIN script.todo = {}
    BY EmptySeq, LenProperties
  <2>. QED  BY <2>1 DEF DeploymentInv, StopComes
<1>. QED  BY <1>1, InitDeployment, StepDeployment, PTL DEF DeploymentSpec

-----------------------------------------------------------------------------
(* The client's nodes.                                                     *)

LEMMA Smallest ==
  ASSUME NEW S \in SUBSET Nat, S # {}
  PROVE  \E k \in S : \A l \in S : k <= l
<1>. DEFINE Below == OpToRel(<, Nat)
<1>1. IsWellFoundedOn(Below, Nat)
  BY NatLessThanWellFounded
<1>2. \A x \in Nat, y \in Nat : <<y, x>> \in Below <=> y < x
  BY DEF OpToRel
<1>. HIDE DEF Below
<1>3. PICK k \in S : \A l \in S : ~(<<l, k>> \in Below)
  BY <1>1, WFMin
<1>4. ASSUME NEW l \in S
      PROVE  k <= l
  <2>1. l \in Nat /\ k \in Nat
    BY <1>3
  <2>2. ~(l < k)
    BY <1>2, <1>3, <2>1
  <2>. QED  BY <2>1, <2>2
<1>. QED  BY <1>4

LEMMA Remainders ==
  ASSUME NEW l \in Nat, l > 0, NEW a \in Nat
  PROVE  /\ a % l \in 0 .. l - 1
         /\ a < l => a % l = a
         /\ a < l => (a + l) % l = a
OBVIOUS

Marks(h, a) == h \in [ClientNode -> BOOLEAN] /\ a \in [ClientNode -> Nat]

ClientType ==
  /\ index \in 1 .. Len(Nodes)
  /\ Marks(healthy, age)
  /\ request \in [Tasks -> [stage : {"idle", "failed", "sent"}, node : ClientNode, retries : 0 .. NumRetries]]
  /\ asked \in [Tasks -> SUBSET ClientNode]
  /\ available \in [Tasks -> SUBSET ClientNode]

LEMMA NodesInOrder ==
  /\ Len(Nodes) \in Nat /\ Len(Nodes) > 0
  /\ \A i \in 1 .. Len(Nodes) : Nodes[i] \in Configured
  /\ \A n \in Configured : \E i \in 1 .. Len(Nodes) : Nodes[i] = n
  /\ Configured \subseteq ClientNode
<1>1. Nodes \in Seq(Configured) /\ Nodes # <<>>
  BY ClientAssumption
<1>2. Len(Nodes) \in Nat /\ DOMAIN Nodes = 1 .. Len(Nodes)
  BY <1>1
<1>3. Len(Nodes) > 0
  BY <1>1, <1>2, EmptySeq
<1>. QED  BY <1>2, <1>3 DEF Configured, ClientNode

\* Every configured node has its turn in a round.
LEMMA EveryTurn ==
  ASSUME NEW i \in 1 .. Len(Nodes), NEW j \in 1 .. Len(Nodes)
  PROVE  \E k \in 0 .. Len(Nodes) - 1 : Turn(i, k) = j
<1>1. PICK l \in Nat : l = Len(Nodes) /\ l > 0
  BY NodesInOrder
<1>2. i \in Nat /\ j \in Nat /\ 1 <= i /\ i <= l /\ 1 <= j /\ j <= l
  BY <1>1
<1>3. CASE i <= j
  <2>1. j - i \in 0 .. l - 1 /\ i - 1 + (j - i) = j - 1 /\ j - 1 \in Nat /\ j - 1 < l
    BY <1>2, <1>3
  <2>2. (j - 1) % l = j - 1
    BY <1>1, <2>1, Remainders
  <2>3. Turn(i, j - i) = j
    BY <1>1, <1>2, <2>1, <2>2 DEF Turn
  <2>. QED  BY <1>1, <2>1, <2>3
<1>4. CASE j < i
  <2>1. /\ j - i + l \in 0 .. l - 1 /\ i - 1 + (j - i + l) = (j - 1) + l
        /\ j - 1 \in Nat /\ j - 1 < l
    BY <1>1, <1>2, <1>4
  <2>2. ((j - 1) + l) % l = j - 1
    BY <1>1, <2>1, Remainders
  <2>3. Turn(i, j - i + l) = j
    BY <1>1, <1>2, <2>1, <2>2 DEF Turn
  <2>. QED  BY <1>1, <2>1, <2>3
<1>. QED  BY <1>2, <1>3, <1>4

\* get_node: a configured node or the nearest one, and a usable one if there is any.
LEMMA NodeChosen ==
  ASSUME index \in 1 .. Len(Nodes), NEW h, NEW a
  PROVE  /\ GetNode(h, a).node \in ClientNode
         /\ GetNode(h, a).index \in 1 .. Len(Nodes)
         /\ Usable(h, a) # {} => GetNode(h, a).node \in Usable(h, a)
<1>1. PICK u : u = Usable(h, a) /\ u \subseteq ClientNode
  BY DEF Usable
<1>2. PICK i \in 1 .. Len(Nodes) : i = index
  OBVIOUS
<1>3. CASE nearest \in u
  <2>1. GetNode(h, a) = [node |-> nearest, index |-> i]
    BY <1>1, <1>2, <1>3 DEF GetNode
  <2>. QED  BY <1>1, <1>2, <1>3, <2>1
<1>4. CASE nearest \notin u
  <2>. DEFINE turns == {k \in 0 .. Len(Nodes) - 1 : Nodes[Turn(i, k)] \in u}
              next == CHOOSE k \in turns : \A l \in turns : k <= l
  <2>1. GetNode(h, a) = IF turns = {} THEN [node |-> Nodes[i], index |-> i]
                        ELSE [node |-> Nodes[Turn(i, next)], index |-> Turn(i, next + 1)]
    BY <1>1, <1>2, <1>4 DEF GetNode
  <2>2. u # {} => turns # {}
    <3>1. SUFFICES ASSUME NEW n \in u
                   PROVE  turns # {}
      OBVIOUS
    <3>2. n \in Configured
      BY <1>1, <1>4 DEF ClientNode
    <3>3. PICK j \in 1 .. Len(Nodes) : Nodes[j] = n
      BY <3>2, NodesInOrder
    <3>4. PICK k \in 0 .. Len(Nodes) - 1 : Turn(i, k) = j
      BY EveryTurn
    <3>5. k \in turns
      BY <3>3, <3>4
    <3>. QED  BY <3>5
  <2>3. turns \in SUBSET Nat /\ \A k \in turns : k \in Nat /\ Nodes[Turn(i, k)] \in u
    BY NodesInOrder
  <2>. HIDE DEF turns
  <2>4. turns # {} => next \in turns
    BY <2>3, Smallest
  <2>. HIDE DEF next
  <2>5. \A k \in Nat : Turn(i, k) \in 1 .. Len(Nodes)
    <3>1. SUFFICES ASSUME NEW k \in Nat
                   PROVE  Turn(i, k) \in 1 .. Len(Nodes)
      OBVIOUS
    <3>2. PICK l \in Nat : l = Len(Nodes) /\ l > 0
      BY NodesInOrder
    <3>3. i - 1 + k \in Nat
      BY <1>2
    <3>4. (i - 1 + k) % l \in 0 .. l - 1
      BY <3>2, <3>3, Remainders
    <3>. QED  BY <3>2, <3>4 DEF Turn
  <2>6. CASE turns = {}
    <3>1. GetNode(h, a) = [node |-> Nodes[i], index |-> i]
      BY <2>1, <2>6
    <3>2. u = {} /\ Nodes[i] \in ClientNode
      BY <2>2, <2>6, NodesInOrder
    <3>. QED  BY <1>1, <3>1, <3>2
  <2>7. CASE turns # {}
    <3>1. PICK k : k = next
      OBVIOUS
    <3>2. k \in turns
      BY <2>4, <2>7, <3>1
    <3>3. k \in Nat /\ Nodes[Turn(i, k)] \in u
      BY <2>3, <3>2
    <3>4. PICK n, j : n = Nodes[Turn(i, k)] /\ j = Turn(i, k + 1)
      OBVIOUS
    <3>5. GetNode(h, a) = [node |-> n, index |-> j]
      BY <2>1, <2>7, <3>1, <3>4
    <3>6. n \in u /\ j \in 1 .. Len(Nodes)
      BY <2>5, <3>3, <3>4
    <3>. QED  BY <1>1, <3>5, <3>6
  <2>. QED  BY <2>6, <2>7
<1>. QED  BY <1>3, <1>4

\* What is known of a request that is under way, of the nodes it asked (`ask`), of those
\* that stayed usable since it began (`avail`) and of those usable now (`use`): either it
\* has asked every one that stayed usable, or it never asked one twice and would not now.
Asking(ask, avail, use, req) ==
  /\ avail \subseteq use \cup ask
  /\ req.node \in ask
  /\ \/ avail \subseteq ask
     \/ /\ Cardinality(ask) = req.retries + 1
        /\ (ask \ {req.node}) \cap use = {}

Tried(t) ==
  /\ ~Free(t) => Asking(asked[t], available[t], Usable(healthy, age), request[t])
  /\ request[t].stage = "failed" /\ NumRetries + 1 >= Cardinality(ClientNode)
       => available[t] \subseteq asked[t]

ClientInv ==
  /\ ClientType
  /\ IsFiniteSet(ClientNode)
  /\ \A t \in Tasks : Tried(t)

LEMMA ClientNodesFinite == IsFiniteSet(ClientNode)
<1>1. IsFiniteSet(1 .. Len(Nodes))
  BY NodesInOrder, FS_Interval
<1>2. Nodes \in Surjection(1 .. Len(Nodes), Configured)
  <2>1. Nodes \in [1 .. Len(Nodes) -> Configured]
    BY ClientAssumption
  <2>. QED  BY <2>1, NodesInOrder DEF Surjection
<1>3. IsFiniteSet(Configured)
  BY <1>1, <1>2, FS_Surjection
<1>4. IsFiniteSet({nearest} \ {NoNearest})
  BY FS_Singleton, FS_Subset
<1>. QED  BY <1>3, <1>4, FS_Union DEF ClientNode

LEMMA InitClient == ClientInit => ClientInv
<1>. SUFFICES ASSUME ClientInit
              PROVE  ClientInv
  OBVIOUS
<1>1. index = 1 /\ 1 \in 1 .. Len(Nodes) /\ Nodes[1] \in ClientNode
  BY NodesInOrder DEF ClientInit
<1>2. Marks(healthy, age) /\ asked = [t \in Tasks |-> {}] /\ available = [t \in Tasks |-> {}]
  BY DEF ClientInit, Marks
<1>3. /\ request = [t \in Tasks |-> [stage |-> "idle", node |-> Nodes[1], retries |-> 0]]
      /\ NumRetries \in Nat
  BY ClientAssumption DEF ClientInit, Idle
<1>4. ClientType
  BY <1>1, <1>2, <1>3 DEF ClientType
<1>5. \A t \in Tasks : Tried(t)
  BY <1>2, <1>3 DEF Tried, Free
<1>. QED  BY <1>4, <1>5, ClientNodesFinite DEF ClientInv

\* A request goes on as it is when no node it asked becomes usable again, or when
\* it has asked every node that stayed usable.
LEMMA AskingOn ==
  ASSUME NEW ask, NEW avail, NEW use, NEW req, NEW left, NEW now,
         Asking(ask, avail, use, req),
         left \subseteq avail, left \subseteq now \cup ask,
         \/ (now \ use) \cap ask = {}
         \/ left \subseteq ask
  PROVE  Asking(ask, left, now, req)
BY DEF Asking

\* The next call of a request whose node was marked as failed.
LEMMA AskingNext ==
  ASSUME NEW ask, IsFiniteSet(ask), NEW avail, NEW use, NEW req, req.retries \in Nat,
         Asking(ask, avail, use, req), NEW now, now \subseteq use \ {req.node},
         NEW left, left \subseteq avail, left \subseteq now \cup ask,
         NEW n, now # {} => n \in now,
         NEW next, next.node = n, next.retries = req.retries + 1
  PROVE  Asking(ask \cup {n}, left, now, next)
<1>1. left \subseteq now \cup (ask \cup {n}) /\ next.node \in ask \cup {n}
  OBVIOUS
<1>2. CASE left \subseteq ask
  BY <1>1, <1>2 DEF Asking
<1>3. CASE ~(left \subseteq ask)
  <2>1. now # {} /\ ~(avail \subseteq ask)
    BY <1>3
  <2>2. n \in now /\ Cardinality(ask) = req.retries + 1 /\ (ask \ {req.node}) \cap use = {}
    BY <2>1 DEF Asking
  <2>3. n \notin ask /\ ask \cap now = {}
    BY <2>2
  <2>4. Cardinality(ask \cup {n}) = Cardinality(ask) + 1
    BY <2>3, FS_AddElement
  <2>5. Cardinality(ask \cup {n}) = next.retries + 1
    BY <2>2, <2>4
  <2>6. ((ask \cup {n}) \ {next.node}) \cap now = {}
    BY <2>3
  <2>. QED  BY <1>1, <2>5, <2>6 DEF Asking
<1>. QED  BY <1>2, <1>3

\* The state around one request.
LEMMA OthersOn ==
  ASSUME ClientInv, NEW t \in Tasks, nearest' = nearest,
         request'[t] = request[t], asked'[t] = asked[t],
         available'[t] \subseteq available[t],
         ~Free(t) =>
           /\ available'[t] \subseteq Usable(healthy', age') \cup asked[t]
           /\ \/ (Usable(healthy', age') \ Usable(healthy, age)) \cap asked[t] = {}
              \/ available'[t] \subseteq asked[t]
  PROVE  Tried(t)'
<1>1. ClientNode' = ClientNode /\ Usable(healthy, age)' = Usable(healthy', age')
  BY DEF Usable, ClientNode
<1>2. Tried(t) /\ Free(t)' = Free(t)
  BY DEF ClientInv, Free
<1>3. ~Free(t) => Asking(asked[t], available'[t], Usable(healthy', age'), request[t])
  <2>. SUFFICES ASSUME ~Free(t)
                PROVE  Asking(asked[t], available'[t], Usable(healthy', age'), request[t])
    OBVIOUS
  <2>1. Asking(asked[t], available[t], Usable(healthy, age), request[t])
    BY <1>2 DEF Tried
  <2>. QED  BY <2>1, AskingOn
<1>4. request[t].stage = "failed" /\ NumRetries + 1 >= Cardinality(ClientNode)
        => available'[t] \subseteq asked[t]
  BY <1>2 DEF Tried
<1>. QED  BY <1>1, <1>2, <1>3, <1>4 DEF Tried

\* What the marks of a success and of a failure do to the usable nodes.
LEMMA MarkedHealthy ==
  ASSUME ClientInv, NEW n \in ClientNode,
         healthy' = [healthy EXCEPT ![n] = TRUE], age' = [age EXCEPT ![n] = 0]
  PROVE  /\ Usable(healthy', age') = Usable(healthy, age) \cup {n}
         /\ Marks(healthy', age')
BY DEF ClientInv, ClientType, Marks, Usable

LEMMA MarkedFailed ==
  ASSUME ClientInv, NEW n \in ClientNode,
         healthy' = [healthy EXCEPT ![n] = FALSE], age' = [age EXCEPT ![n] = 0]
  PROVE  /\ Usable(healthy', age') = Usable(healthy, age) \ {n}
         /\ Marks(healthy', age')
BY ClientAssumption DEF ClientInv, ClientType, Marks, Usable

\* The type of what a call leaves behind.
LEMMA SendType ==
  ASSUME ClientInv, NEW t \in Tasks, NEW h, NEW a, NEW r \in 0 .. NumRetries,
         Send(t, GetNode(h, a), r)
  PROVE  /\ index' \in 1 .. Len(Nodes)
         /\ request' \in [Tasks -> [stage : {"idle", "failed", "sent"}, node : ClientNode, retries : 0 .. NumRetries]]
         /\ request'[t] = [stage |-> "sent", node |-> GetNode(h, a).node, retries |-> r]
         /\ \A k \in Tasks \ {t} : request'[k] = request[k]
<1>1. PICK c : c = GetNode(h, a) /\ c.node \in ClientNode /\ c.index \in 1 .. Len(Nodes)
  BY NodeChosen DEF ClientInv, ClientType
<1>. QED  BY <1>1 DEF Send, ClientInv, ClientType

LEMMA EndType ==
  ASSUME ClientInv, NEW t \in Tasks, NEW how, End(t, how)
  PROVE  /\ request' \in [Tasks -> [stage : {"idle", "failed", "sent"}, node : ClientNode, retries : 0 .. NumRetries]]
         /\ asked' \in [Tasks -> SUBSET ClientNode]
         /\ request'[t] = Idle(how)
         /\ asked'[t] = IF how = "failed" THEN asked[t] ELSE {}
         /\ \A k \in Tasks \ {t} : request'[k] = request[k] /\ asked'[k] = asked[k]
<1>1. Idle(how) \in [stage : {"idle", "failed", "sent"}, node : ClientNode, retries : 0 .. NumRetries]
  BY NodesInOrder, ClientAssumption DEF Idle
<1>. QED  BY <1>1 DEF End, ClientInv, ClientType

\* ClientNode is what it was, with the nearest node.
LEMMA SameNodes ==
  ASSUME nearest' = nearest
  PROVE  /\ ClientNode' = ClientNode
         /\ ClientType' <=>
              /\ index' \in 1 .. Len(Nodes)
              /\ Marks(healthy', age')
              /\ request' \in [Tasks -> [stage : {"idle", "failed", "sent"}, node : ClientNode, retries : 0 .. NumRetries]]
              /\ asked' \in [Tasks -> SUBSET ClientNode]
              /\ available' \in [Tasks -> SUBSET ClientNode]
<1>1. ClientNode' = ClientNode
  BY DEF ClientNode
<1>. QED  BY <1>1 DEF ClientType, Marks

LEMMA BeginKeeps ==
  ASSUME ClientInv, NEW t \in Tasks, Begin(t)
  PROVE  ClientInv'
<1>1. /\ nearest' = nearest /\ healthy' = healthy /\ age' = age
      /\ Send(t, GetNode(healthy, age), 0)
      /\ asked' = [asked EXCEPT ![t] = {request'[t].node}]
      /\ available' = [available EXCEPT ![t] = Usable(healthy, age)]
  BY DEF Begin
<1>2. PICK n \in ClientNode : n = GetNode(healthy, age).node
  BY NodeChosen DEF ClientInv, ClientType
<1>3. PICK u \in SUBSET ClientNode : u = Usable(healthy, age)
  BY DEF Usable
<1>4. u # {} => n \in u
  BY <1>2, <1>3, NodeChosen DEF ClientInv, ClientType
<1>5. /\ index' \in 1 .. Len(Nodes)
      /\ request' \in [Tasks -> [stage : {"idle", "failed", "sent"}, node : ClientNode, retries : 0 .. NumRetries]]
      /\ request'[t] = [stage |-> "sent", node |-> n, retries |-> 0]
      /\ \A k \in Tasks \ {t} : request'[k] = request[k]
  <2>1. 0 \in 0 .. NumRetries
    BY ClientAssumption
  <2>. QED  BY <1>1, <1>2, <2>1, SendType
<1>6. /\ asked' \in [Tasks -> SUBSET ClientNode] /\ available' \in [Tasks -> SUBSET ClientNode]
      /\ asked'[t] = {n} /\ available'[t] = u
      /\ \A k \in Tasks \ {t} : asked'[k] = asked[k] /\ available'[k] = available[k]
  BY <1>1, <1>2, <1>3, <1>5 DEF ClientInv, ClientType
<1>7. ClientType' /\ ClientNode' = ClientNode /\ IsFiniteSet(ClientNode)
  BY <1>1, <1>5, <1>6, SameNodes DEF ClientInv, ClientType
<1>8. Tried(t)'
  <2>1. Usable(healthy, age)' = u
    BY <1>1, <1>3 DEF Usable, ClientNode
  <2>2. Cardinality({n}) = 1
    BY FS_Singleton
  <2>3. request'[t].node = n /\ request'[t].retries = 0 /\ request'[t].stage = "sent"
    BY <1>5
  <2>4. Asking({n}, u, u, request'[t])
    BY <2>2, <2>3 DEF Asking
  <2>. QED  BY <1>6, <2>1, <2>3, <2>4 DEF Tried
<1>9. ASSUME NEW k \in Tasks \ {t}
      PROVE  Tried(k)'
  <2>1. Usable(healthy', age') = Usable(healthy, age)
    BY <1>1
  <2>2. ~Free(k) => available[k] \subseteq Usable(healthy, age) \cup asked[k]
    BY DEF ClientInv, Tried, Asking
  <2>. QED  BY <1>1, <1>5, <1>6, <2>1, <2>2, OthersOn
<1>. QED  BY <1>7, <1>8, <1>9 DEF ClientInv

\* A request that ends without failing, when the marks of other nodes only rise.
LEMMA EndKeeps ==
  ASSUME ClientInv, NEW t \in Tasks, NEW how \in {"done", "refused"}, End(t, how),
         nearest' = nearest, index' \in 1 .. Len(Nodes), Marks(healthy', age'),
         available' \in [Tasks -> SUBSET ClientNode],
         \A k \in Tasks \ {t} :
           /\ available'[k] \subseteq available[k]
           /\ ~Free(k) =>
                /\ available'[k] \subseteq Usable(healthy', age') \cup asked[k]
                /\ \/ (Usable(healthy', age') \ Usable(healthy, age)) \cap asked[k] = {}
                   \/ available'[k] \subseteq asked[k]
  PROVE  ClientInv'
<1>1. ClientType' /\ ClientNode' = ClientNode /\ IsFiniteSet(ClientNode)
  BY EndType, SameNodes DEF ClientInv
<1>2. Tried(t)'
  <2>1. request'[t] = Idle(how)
    BY EndType
  <2>2. Idle(how).stage = "idle"
    BY DEF Idle
  <2>. QED  BY <2>1, <2>2 DEF Tried, Free
<1>3. ASSUME NEW k \in Tasks \ {t}
      PROVE  Tried(k)'
  BY EndType, OthersOn
<1>. QED  BY <1>1, <1>2, <1>3 DEF ClientInv

LEMMA SucceedKeeps ==
  ASSUME ClientInv, NEW t \in Tasks, Succeed(t)
  PROVE  ClientInv'
<1>1. PICK n \in ClientNode :
        /\ n = GetNode(healthy, age).node
        /\ index' = GetNode(healthy, age).index /\ index' \in 1 .. Len(Nodes)
        /\ healthy' = [healthy EXCEPT ![n] = TRUE]
        /\ age' = [age EXCEPT ![n] = 0]
  BY NodeChosen DEF Succeed, ClientInv, ClientType
<1>2. PICK now \in SUBSET ClientNode : now = Usable(healthy', age')
  BY DEF Usable
<1>3. now = Usable(healthy, age) \cup {n} /\ Marks(healthy', age')
  BY <1>1, <1>2, MarkedHealthy
<1>4. nearest' = nearest /\ End(t, "done") /\ available' = [StillAvailable EXCEPT ![t] = {}]
  BY DEF Succeed
<1>5. /\ available' \in [Tasks -> SUBSET ClientNode]
      /\ \A k \in Tasks \ {t} : available'[k] = available[k] \cap now
  BY <1>2, <1>4 DEF StillAvailable, ClientInv, ClientType
<1>6. ASSUME NEW k \in Tasks \ {t}, ~Free(k)
      PROVE  \/ (now \ Usable(healthy, age)) \cap asked[k] = {}
             \/ available'[k] \subseteq asked[k]
  <2>1. CASE Usable(healthy, age) = {}
    <3>1. available[k] \subseteq asked[k]
      BY <1>6, <2>1 DEF ClientInv, Tried, Asking
    <3>. QED  BY <1>5, <3>1
  <2>2. CASE Usable(healthy, age) # {}
    <3>1. n \in Usable(healthy, age)
      BY <1>1, <2>2, NodeChosen DEF ClientInv, ClientType
    <3>. QED  BY <1>3, <3>1
  <2>. QED  BY <2>1, <2>2
<1>7. \A k \in Tasks \ {t} :
        /\ available'[k] \subseteq available[k]
        /\ ~Free(k) =>
             /\ available'[k] \subseteq Usable(healthy', age') \cup asked[k]
             /\ \/ (Usable(healthy', age') \ Usable(healthy, age)) \cap asked[k] = {}
                \/ available'[k] \subseteq asked[k]
  BY <1>2, <1>5, <1>6
<1>8. "done" \in {"done", "refused"} /\ index' \in 1 .. Len(Nodes)
  BY <1>1
<1>. QED  BY <1>3, <1>4, <1>5, <1>7, <1>8, EndKeeps

LEMMA RefusedKeeps ==
  ASSUME ClientInv, NEW t \in Tasks, Refused(t)
  PROVE  ClientInv'
<1>1. /\ nearest' = nearest /\ healthy' = healthy /\ age' = age /\ index' = index
      /\ End(t, "refused") /\ available' = [available EXCEPT ![t] = {}]
  BY DEF Refused
<1>2. /\ index' \in 1 .. Len(Nodes) /\ Marks(healthy', age')
      /\ Usable(healthy', age') = Usable(healthy, age)
  BY <1>1 DEF ClientInv, ClientType
<1>3. /\ available' \in [Tasks -> SUBSET ClientNode]
      /\ \A k \in Tasks \ {t} : available'[k] = available[k]
  BY <1>1 DEF ClientInv, ClientType
<1>4. \A k \in Tasks : ~Free(k) => available[k] \subseteq Usable(healthy, age) \cup asked[k]
  BY DEF ClientInv, Tried, Asking
<1>. QED  BY <1>1, <1>2, <1>3, <1>4, EndKeeps

LEMMA ServerFailsKeeps ==
  ASSUME ClientInv, NEW t \in Tasks, ServerFails(t)
  PROVE  ClientInv'
<1>1. PICK r \in 0 .. NumRetries, v \in ClientNode, ask \in SUBSET ClientNode :
        r = request[t].retries /\ v = request[t].node /\ ask = asked[t]
  BY DEF ClientInv, ClientType
<1>2. PICK now \in SUBSET ClientNode : now = Usable(healthy', age')
  BY DEF Usable
<1>3. /\ nearest' = nearest /\ request[t].stage = "sent"
      /\ healthy' = [healthy EXCEPT ![v] = FALSE] /\ age' = [age EXCEPT ![v] = 0]
      /\ available' = [StillAvailable EXCEPT ![t] = @ \cup (available[t] \cap {v})]
  BY <1>1 DEF ServerFails, Free
<1>4. PICK use \in SUBSET ClientNode : use = Usable(healthy, age)
  BY DEF Usable
<1>5. now = use \ {v} /\ Marks(healthy', age')
  BY <1>2, <1>3, <1>4, MarkedFailed
<1>6. /\ available' \in [Tasks -> SUBSET ClientNode]
      /\ \A k \in Tasks \ {t} : available'[k] = available[k] \cap now
      /\ available'[t] = (available[t] \cap now) \cup (available[t] \cap {v})
  <2>1. PICK still : still = StillAvailable
    OBVIOUS
  <2>2. still = [k \in Tasks |-> available[k] \cap now]
    BY <1>2, <2>1 DEF StillAvailable
  <2>3. available' = [still EXCEPT ![t] = still[t] \cup (available[t] \cap {v})]
    BY <1>3, <2>1
  <2>4. available \in [Tasks -> SUBSET ClientNode]
    BY DEF ClientInv, ClientType
  <2>. QED  BY <2>2, <2>3, <2>4
<1>7. PICK avail \in SUBSET ClientNode : avail = available[t]
  BY DEF ClientInv, ClientType
<1>8. Asking(ask, avail, use, request[t]) /\ v \in ask
  BY <1>1, <1>3, <1>4, <1>7 DEF ClientInv, Tried, Free, Asking
<1>9. PICK left \in SUBSET ClientNode :
        left = available'[t] /\ left \subseteq avail /\ left \subseteq now \cup ask
  BY <1>6, <1>7, <1>8
<1>10. IsFiniteSet(ClientNode) /\ IsFiniteSet(ask) /\ ClientNode' = ClientNode
       /\ Usable(healthy, age)' = now
  BY <1>1, <1>2, <1>3, FS_Subset DEF ClientInv, ClientNode, Usable
<1>11. ASSUME NEW k \in Tasks \ {t}, request'[k] = request[k], asked'[k] = asked[k]
       PROVE  Tried(k)'
  <2>1. ~Free(k) => available[k] \subseteq use \cup asked[k]
    BY <1>4 DEF ClientInv, Tried, Asking
  <2>2. available'[k] \subseteq available[k] /\ available'[k] \subseteq now
    BY <1>6
  <2>3. (now \ use) \cap asked[k] = {}
    BY <1>5
  <2>. QED  BY <1>2, <1>3, <1>4, <1>11, <2>1, <2>2, <2>3, OthersOn
<1>12. CASE r < NumRetries
  <2>1. /\ Send(t, GetNode(healthy', age'), r + 1) /\ r + 1 \in 0 .. NumRetries
        /\ asked' = [asked EXCEPT ![t] = @ \cup {request'[t].node}]
    <3>1. r + 1 \in 0 .. NumRetries
      BY <1>1, <1>12, ClientAssumption
    <3>2. request[t].retries < NumRetries
      BY <1>1, <1>12
    <3>3. /\ Send(t, GetNode(healthy', age'), request[t].retries + 1)
          /\ asked' = [asked EXCEPT ![t] = @ \cup {request'[t].node}]
      BY <3>2 DEF ServerFails
    <3>. QED  BY <1>1, <3>1, <3>3
  <2>2. PICK n \in ClientNode : n = GetNode(healthy', age').node /\ (now # {} => n \in now)
    BY <1>2, NodeChosen DEF ClientInv, ClientType
  <2>3. /\ index' \in 1 .. Len(Nodes)
        /\ request' \in [Tasks -> [stage : {"idle", "failed", "sent"}, node : ClientNode, retries : 0 .. NumRetries]]
        /\ request'[t] = [stage |-> "sent", node |-> n, retries |-> r + 1]
        /\ \A k \in Tasks \ {t} : request'[k] = request[k]
    BY <2>1, <2>2, SendType
  <2>4. /\ asked' \in [Tasks -> SUBSET ClientNode] /\ asked'[t] = ask \cup {n}
        /\ \A k \in Tasks \ {t} : asked'[k] = asked[k]
    BY <1>1, <2>1, <2>2, <2>3 DEF ClientInv, ClientType
  <2>5. ClientType'
    BY <1>3, <1>5, <1>6, <2>3, <2>4, SameNodes
  <2>6. Tried(t)'
    <3>1. request[t].retries \in Nat
      BY <1>1
    <3>2. PICK next : next = request'[t] /\ next.node = n /\ next.retries = r + 1 /\ next.stage = "sent"
      BY <2>3
    <3>3. now \subseteq use \ {request[t].node} /\ next.retries = request[t].retries + 1
      BY <1>1, <1>5, <3>2
    <3>4. Asking(ask \cup {n}, left, now, next)
      BY <1>8, <1>9, <1>10, <2>2, <3>1, <3>2, <3>3, AskingNext
    <3>. QED  BY <1>9, <1>10, <2>4, <3>2, <3>4 DEF Tried
  <2>7. \A k \in Tasks \ {t} : Tried(k)'
    BY <1>11, <2>3, <2>4
  <2>. QED  BY <1>10, <2>5, <2>6, <2>7 DEF ClientInv
<1>13. CASE r = NumRetries
  <2>1. End(t, "failed") /\ index' = index
    BY <1>1, <1>13, ClientAssumption DEF ServerFails
  <2>2. /\ request' \in [Tasks -> [stage : {"idle", "failed", "sent"}, node : ClientNode, retries : 0 .. NumRetries]]
        /\ asked' \in [Tasks -> SUBSET ClientNode]
        /\ request'[t].stage = "failed" /\ asked'[t] = ask
        /\ \A k \in Tasks \ {t} : request'[k] = request[k] /\ asked'[k] = asked[k]
    <3>1. request'[t] = Idle("failed") /\ asked'[t] = asked[t]
      BY <2>1, EndType
    <3>2. Idle("failed").stage = "failed"
      BY DEF Idle
    <3>. QED  BY <1>1, <2>1, <3>1, <3>2, EndType
  <2>3. ClientType'
    BY <1>3, <1>5, <1>6, <2>1, <2>2, SameNodes DEF ClientInv, ClientType
  <2>4. NumRetries + 1 >= Cardinality(ClientNode) => left \subseteq ask
    <3>1. CASE avail \subseteq ask
      BY <1>9, <3>1
    <3>2. CASE Cardinality(ask) = r + 1 /\ NumRetries + 1 >= Cardinality(ClientNode)
      <4>1. Cardinality(ask) \in Nat /\ Cardinality(ClientNode) \in Nat
        BY <1>10, FS_CardinalityType
      <4>2. Cardinality(ask) <= Cardinality(ClientNode)
        BY <1>10, FS_Subset
      <4>3. Cardinality(ask) = Cardinality(ClientNode)
        BY <1>13, <3>2, <4>1, <4>2, ClientAssumption
      <4>4. ask = ClientNode
        BY <1>10, <4>3, FS_Subset
      <4>. QED  BY <4>4
    <3>. QED  BY <1>1, <1>8, <3>1, <3>2 DEF Asking
  <2>5. Tried(t)'
    BY <1>9, <1>10, <2>2, <2>4 DEF Tried, Free
  <2>6. \A k \in Tasks \ {t} : Tried(k)'
    BY <1>11, <2>2
  <2>. QED  BY <1>10, <2>3, <2>5, <2>6 DEF ClientInv
<1>. QED  BY <1>1, <1>12, <1>13, ClientAssumption

LEMMA SecondKeeps ==
  ASSUME ClientInv, SecondPasses
  PROVE  ClientInv'
<1>1. /\ nearest' = nearest /\ healthy' = healthy /\ index' = index /\ request' = request
      /\ asked' = asked
      /\ age' = [n \in ClientNode |-> IF age[n] <= CheckInterval THEN age[n] + 1 ELSE age[n]]
      /\ available' = [t \in Tasks |->
           IF asked[t] \cap (Usable(healthy, age') \ Usable(healthy, age)) = {} THEN available[t] ELSE {}]
  BY DEF SecondPasses
<1>2. PICK now \in SUBSET ClientNode, use \in SUBSET ClientNode :
        now = Usable(healthy, age') /\ use = Usable(healthy, age)
  BY DEF Usable
<1>3. use \subseteq now /\ Marks(healthy', age')
  BY <1>1, <1>2, ClientAssumption DEF Usable, Marks, ClientInv, ClientType
<1>4. available' = [t \in Tasks |-> IF asked[t] \cap (now \ use) = {} THEN available[t] ELSE {}]
  BY <1>1, <1>2
<1>5. available' \in [Tasks -> SUBSET ClientNode]
  BY <1>4 DEF ClientInv, ClientType
<1>6. ClientType'
  BY <1>1, <1>3, <1>5, SameNodes DEF ClientInv, ClientType
<1>7. ASSUME NEW t \in Tasks
      PROVE  Tried(t)'
  <2>1. ~Free(t) => available[t] \subseteq use \cup asked[t]
    BY <1>2 DEF ClientInv, Tried, Asking
  <2>2. Usable(healthy', age') = now
    BY <1>1, <1>2
  <2>3. CASE asked[t] \cap (now \ use) = {}
    <3>1. available'[t] = available[t]
      BY <1>4, <2>3
    <3>. QED  BY <1>1, <1>2, <1>3, <2>1, <2>2, <2>3, <3>1, OthersOn
  <2>4. CASE asked[t] \cap (now \ use) # {}
    <3>1. available'[t] = {}
      BY <1>4, <2>4
    <3>. QED  BY <1>1, <2>2, <3>1, OthersOn
  <2>. QED  BY <2>3, <2>4
<1>. QED  BY <1>1, <1>6, <1>7 DEF ClientInv, ClientNode

LEMMA StepClient == ClientInv /\ [ClientNext]_clientVars => ClientInv'
<1>. SUFFICES ASSUME ClientInv, [ClientNext]_clientVars
              PROVE  ClientInv'
  OBVIOUS
<1>1. ASSUME NEW t \in Tasks, Begin(t) \/ Succeed(t) \/ Refused(t) \/ ServerFails(t)
      PROVE  ClientInv'
  BY <1>1, BeginKeeps, SucceedKeeps, RefusedKeeps, ServerFailsKeeps
<1>2. ASSUME /\ nearest' = nearest /\ healthy' = healthy /\ age' = age /\ index' = index
             /\ request' = request /\ asked' = asked /\ available' = available
      PROVE  ClientInv'
  BY <1>2 DEF ClientInv, ClientType, Marks, ClientNode, Tried, Free, Usable
<1>3. ASSUME NEW n \in ClientNode, NodeFails(n)
      PROVE  ClientInv'
  BY <1>2, <1>3 DEF NodeFails
<1>. QED  BY <1>1, <1>2, <1>3, SecondKeeps DEF ClientNext, clientVars

\* With a retry for every node but one, a request of api_call.py fails only after it
\* asked every node that was healthy or due for a check when it began and stayed so.
THEOREM RequestsAlwaysTryAll == ClientSpec => []FailsOnlyWhenAllTried
<1>1. ClientInv => FailsOnlyWhenAllTried
  BY DEF ClientInv, Tried, FailsOnlyWhenAllTried
<1>. QED  BY <1>1, InitClient, StepClient, PTL DEF ClientSpec

-----------------------------------------------------------------------------
(* Consistency repair.                                                     *)

Logged == Seq([id : Docs, version : Nat])

\* The commands on document d among the first k of log c, and the version they leave.
OnDocument(c, k, d) == {j \in 1 .. k : c[j].id = d}
Greatest(on) == CHOOSE j \in on : \A l \in on : l <= j
Version(c, k, d) ==
  IF OnDocument(c, k, d) = {} THEN 1 ELSE c[Greatest(OnDocument(c, k, d))].version

LEMMA VersionAfter ==
  ASSUME NEW c, NEW k \in Nat, NEW d
  PROVE  Version(c, k + 1, d) = IF c[k + 1].id = d THEN c[k + 1].version ELSE Version(c, k, d)
<1>1. CASE c[k + 1].id # d
  <2>1. OnDocument(c, k + 1, d) = OnDocument(c, k, d)
    BY <1>1 DEF OnDocument
  <2>. QED  BY <1>1, <2>1 DEF Version
<1>2. CASE c[k + 1].id = d
  <2>1. PICK on : on = OnDocument(c, k + 1, d)
    OBVIOUS
  <2>2. k + 1 \in on /\ \A l \in on : l \in Nat /\ l <= k + 1
    BY <1>2, <2>1 DEF OnDocument
  <2>3. PICK j : j = Greatest(on)
    OBVIOUS
  <2>4. j \in on /\ \A l \in on : l <= j
    BY <2>2, <2>3 DEF Greatest
  <2>5. j = k + 1
    BY <2>2, <2>4
  <2>6. on # {}
    BY <2>2
  <2>. QED  BY <1>2, <2>1, <2>3, <2>5, <2>6 DEF Version
<1>. QED  BY <1>1, <1>2

LEMMA VersionStays ==
  ASSUME NEW c, NEW k \in Nat, NEW l \in Nat, k <= l, NEW d,
         \A j \in k + 1 .. l : c[j].id # d
  PROVE  Version(c, l, d) = Version(c, k, d)
<1>1. ASSUME NEW j
      PROVE  j \in OnDocument(c, l, d) <=> j \in OnDocument(c, k, d)
  BY DEF OnDocument
<1>2. OnDocument(c, l, d) = OnDocument(c, k, d)
  BY <1>1
<1>. QED  BY <1>2 DEF Version

RepairType ==
  /\ commands \in Logged
  /\ content \in [Holders -> [Docs -> Nat]]
  /\ applied \in [Holders -> 0 .. Len(commands)]
  /\ copy \in [to : Holders, id : Docs \cup {Source}, version : Nat, at : Nat]
  /\ ids \in SUBSET Docs
  /\ missing \in SUBSET (Copies \X ids)
  /\ told \in 0 .. Len(Replicas)
  /\ phase \in {"primary", "replica", "get", "post", "done"}
  /\ disturbed \in BOOLEAN

\* The primary holds what the commands it applied left.
PrimaryFollows == \A d \in Docs : content[Source][d] = Version(commands, applied[Source], d)

\* The document being copied is one that the primary had when it was asked.
CopyFollows ==
  phase = "post" =>
    /\ copy.to \in Copies /\ copy.id \in Docs
    /\ copy.at <= applied[Source]
    /\ copy.version = Version(commands, copy.at, copy.id) /\ copy.version # Absent

\* A replica holds every document as of a place in the log that it has not passed:
\* its own, or one that the primary was at when the document was copied.
Reached(r, d) ==
  \E k \in Nat :
    /\ applied[r] <= k /\ (k <= applied[Source] \/ k = applied[r])
    /\ content[r][d] = Version(commands, k, d)
ReplicaFollows ==
  \A r \in Copies, d \in Docs : Reached(r, d) \/ <<r, d>> \in owed \/ <<r, d>> \in raced

\* How far a repair without trouble has come.
RepairsUndisturbed ==
  /\ phase = "primary" => told = 0 /\ missing = {}
  /\ phase = "replica" => told < Len(Replicas)
  /\ phase \in {"get", "post"} => told = Len(Replicas)
  /\ phase = "done" /\ ~disturbed => told = Len(Replicas) /\ missing = {}
  /\ ~disturbed /\ phase # "primary" =>
       /\ ids = Held(Source)
       /\ \A j \in 1 .. told : \A d \in ids \ Held(Replicas[j]) :
            \/ <<Replicas[j], d>> \in missing
            \/ phase = "post" /\ copy.to = Replicas[j] /\ copy.id = d

RepairInv ==
  RepairType /\ PrimaryFollows /\ CopyFollows /\ ReplicaFollows /\ RepairsUndisturbed

LEMMA ReplicasInOrder ==
  /\ Len(Replicas) \in Nat
  /\ \A j \in 1 .. Len(Replicas) : Replicas[j] \in Copies
  /\ \A r \in Copies : \E j \in 1 .. Len(Replicas) : Replicas[j] = r
  /\ Replicas = <<>> <=> Len(Replicas) = 0
  /\ Source \notin Copies
<1>1. Replicas \in Seq(Copies) /\ Source \notin Copies
  BY RepairAssumption
<1>2. Len(Replicas) \in Nat /\ DOMAIN Replicas = 1 .. Len(Replicas)
  BY <1>1
<1>3. Replicas = <<>> <=> Len(Replicas) = 0
  BY <1>1, EmptySeq
<1>. QED  BY <1>1, <1>2, <1>3 DEF Copies

LEMMA InitRepair == RepairInit => RepairInv
<1>. SUFFICES ASSUME RepairInit
              PROVE  RepairInv
  OBVIOUS
<1>1. PICK gone \in Losses :
        /\ content = [n \in Holders |-> [d \in Docs |-> IF n \in Copies /\ d \in gone THEN Absent ELSE 1]]
        /\ owed = Copies \X gone
  BY DEF RepairInit
<1>2. commands \in Logged /\ Len(commands) \in Nat
  <2>1. commands \in Commands
    BY DEF RepairInit
  <2>2. commands \in Logged
    BY <2>1, RepairAssumption DEF Logged
  <2>. QED  BY <2>2 DEF Logged
<1>3. /\ applied = [n \in Holders |-> 0] /\ phase = "primary" /\ ids = {} /\ missing = {}
      /\ told = 0 /\ copy = NoCopy /\ disturbed = FALSE
  BY DEF RepairInit
<1>4. Source \in Holders /\ Copies \subseteq Holders
  BY DEF Holders
<1>5. RepairType
  <2>1. content \in [Holders -> [Docs -> Nat]]
    BY <1>1 DEF Absent
  <2>2. applied \in [Holders -> 0 .. Len(commands)]
    BY <1>2, <1>3
  <2>3. copy \in [to : Holders, id : Docs \cup {Source}, version : Nat, at : Nat]
    BY <1>3, <1>4 DEF NoCopy, Absent
  <2>4. told \in 0 .. Len(Replicas) /\ missing \in SUBSET (Copies \X ids) /\ ids \in SUBSET Docs
    BY <1>3, ReplicasInOrder
  <2>. QED  BY <1>2, <1>3, <2>1, <2>2, <2>3, <2>4 DEF RepairType
<1>6. \A d : Version(commands, 0, d) = 1
  BY DEF Version, OnDocument
<1>7. PrimaryFollows
  BY <1>1, <1>3, <1>4, <1>6, ReplicasInOrder DEF PrimaryFollows
<1>8. ASSUME NEW r \in Copies, NEW d \in Docs
      PROVE  Reached(r, d) \/ <<r, d>> \in owed
  <2>1. CASE d \in gone
    BY <1>1, <2>1
  <2>2. CASE d \notin gone
    BY <1>1, <1>3, <1>4, <1>6, <2>2 DEF Reached
  <2>. QED  BY <2>1, <2>2
<1>9. CopyFollows /\ RepairsUndisturbed
  BY <1>3 DEF CopyFollows, RepairsUndisturbed
<1>. QED  BY <1>5, <1>7, <1>8, <1>9 DEF RepairInv, ReplicaFollows

\* A step that writes no documents leaves what the nodes hold in its place.
LEMMA DocumentsStay ==
  ASSUME RepairInv, UNCHANGED <<content, commands, applied, owed>>, raced \subseteq raced'
  PROVE  PrimaryFollows' /\ ReplicaFollows' /\ \A n : Held(n)' = Held(n)
BY DEF RepairInv, PrimaryFollows, ReplicaFollows, Reached, Held

LEMMA ReadPrimaryKeeps ==
  ASSUME RepairInv, ReadPrimaryIds
  PROVE  RepairInv'
<1>1. /\ phase = "primary" /\ told = 0 /\ missing = {}
      /\ UNCHANGED <<content, commands, applied, missing, told, copy, owed, raced>>
  BY DEF ReadPrimaryIds, RepairInv, RepairsUndisturbed
<1>2. PrimaryFollows' /\ ReplicaFollows' /\ \A n : Held(n)' = Held(n)
  BY <1>1, DocumentsStay
<1>3. \/ /\ ids' = Held(Source) /\ phase' = (IF Replicas = <<>> THEN "get" ELSE "replica")
         /\ disturbed' = disturbed
      \/ ids' = ids /\ phase' = "done" /\ disturbed' = TRUE
  BY DEF ReadPrimaryIds, Lost
<1>4. Held(Source) \in SUBSET Docs
  BY DEF Held
<1>5. RepairType'
  BY <1>1, <1>3, <1>4 DEF RepairInv, RepairType
<1>6. CopyFollows'
  BY <1>3 DEF CopyFollows
<1>7. RepairsUndisturbed'
  BY <1>1, <1>2, <1>3, ReplicasInOrder DEF RepairsUndisturbed
<1>. QED  BY <1>2, <1>5, <1>6, <1>7 DEF RepairInv

LEMMA ReadReplicaKeeps ==
  ASSUME RepairInv, ReadReplicaIds
  PROVE  RepairInv'
<1>1. /\ phase = "replica" /\ told' = told + 1 /\ told < Len(Replicas) /\ told \in Nat
      /\ phase' = IF told' < Len(Replicas) THEN "replica" ELSE "get"
      /\ UNCHANGED <<content, commands, applied, ids, copy, owed, raced>>
  BY DEF ReadReplicaIds, RepairInv, RepairsUndisturbed, RepairType
<1>2. PrimaryFollows' /\ ReplicaFollows' /\ \A n : Held(n)' = Held(n)
  BY <1>1, DocumentsStay
<1>3. PICK r \in Copies : r = Replicas[told']
  BY <1>1, ReplicasInOrder
<1>4. \/ missing' = missing \cup ({r} \X Lacking(r)) /\ disturbed' = disturbed
      \/ missing' = missing /\ disturbed' = TRUE
  BY <1>3 DEF ReadReplicaIds, Lost
<1>5. missing \in SUBSET (Copies \X ids) /\ {r} \X Lacking(r) \in SUBSET (Copies \X ids)
  BY <1>3 DEF RepairInv, RepairType, Lacking
<1>6. missing' \in SUBSET (Copies \X ids) /\ missing \subseteq missing'
  BY <1>4, <1>5
<1>7. told' \in 0 .. Len(Replicas) /\ phase' \in {"replica", "get"} /\ disturbed' \in BOOLEAN
  <2>1. told' \in 0 .. Len(Replicas)
    BY <1>1, ReplicasInOrder
  <2>2. phase' \in {"replica", "get"}
    BY <1>1
  <2>3. disturbed \in BOOLEAN
    BY DEF RepairInv, RepairType
  <2>. QED  BY <1>4, <2>1, <2>2, <2>3
<1>8. RepairType'
  BY <1>1, <1>6, <1>7 DEF RepairInv, RepairType
<1>9. CopyFollows'
  BY <1>7 DEF CopyFollows
<1>10. ASSUME ~disturbed'
       PROVE  /\ ids' = Held(Source)
              /\ \A j \in 1 .. told' : \A d \in ids \ Held(Replicas[j]) : <<Replicas[j], d>> \in missing'
  <2>1. /\ ids = Held(Source) /\ ~disturbed
        /\ \A j \in 1 .. told : \A d \in ids \ Held(Replicas[j]) : <<Replicas[j], d>> \in missing
    BY <1>1, <1>4, <1>10 DEF RepairInv, RepairsUndisturbed, RepairType
  <2>2. \A d \in ids \ Held(r) : <<r, d>> \in missing'
    BY <1>4, <1>10 DEF Lacking
  <2>3. \A j \in 1 .. told' : j \in 1 .. told \/ j = told'
    BY <1>1
  <2>. QED  BY <1>1, <1>3, <1>6, <2>1, <2>2, <2>3
<1>11. RepairsUndisturbed'
  BY <1>1, <1>2, <1>7, <1>10, ReplicasInOrder DEF RepairsUndisturbed
<1>. QED  BY <1>2, <1>8, <1>9, <1>11 DEF RepairInv

LEMMA GetKeeps ==
  ASSUME RepairInv, NEW p \in missing, GetDocument(p)
  PROVE  RepairInv'
<1>1. PICK r \in Copies, x \in ids : p = <<r, x>> /\ x \in Docs /\ p[1] = r /\ p[2] = x
  BY DEF RepairInv, RepairType
<1>2. /\ phase = "get" /\ missing' = missing \ {p}
      /\ UNCHANGED <<content, commands, applied, ids, told, owed, raced>>
  BY DEF GetDocument
<1>3. PrimaryFollows' /\ ReplicaFollows' /\ \A n : Held(n)' = Held(n)
  BY <1>2, DocumentsStay
<1>4. \/ /\ x \in Held(Source) /\ phase' = "post" /\ disturbed' = disturbed
         /\ copy' = [to |-> r, id |-> x, version |-> content[Source][x], at |-> applied[Source]]
      \/ x \notin Held(Source) /\ phase' = phase /\ copy' = copy /\ disturbed' = disturbed
      \/ phase' = phase /\ copy' = copy /\ disturbed' = TRUE
  BY <1>1 DEF GetDocument, Fetched, Lost
<1>5. /\ content[Source][x] \in Nat /\ applied[Source] \in Nat /\ r \in Holders
      /\ content[Source][x] = Version(commands, applied[Source], x)
  BY <1>1 DEF RepairInv, RepairType, Holders, PrimaryFollows
<1>6. missing' \in SUBSET (Copies \X ids)
  BY <1>2 DEF RepairInv, RepairType
<1>7. copy' \in [to : Holders, id : Docs \cup {Source}, version : Nat, at : Nat]
  BY <1>1, <1>4, <1>5 DEF RepairInv, RepairType
<1>8. phase' \in {"get", "post"} /\ disturbed' \in BOOLEAN
  BY <1>2, <1>4 DEF RepairInv, RepairType
<1>9. RepairType'
  BY <1>2, <1>6, <1>7, <1>8 DEF RepairInv, RepairType
<1>10. CopyFollows'
  <2>1. x \in Held(Source) => content[Source][x] # Absent
    BY DEF Held
  <2>2. CASE phase' = "post"
    <3>1. x \in Held(Source)
          /\ copy' = [to |-> r, id |-> x, version |-> content[Source][x], at |-> applied[Source]]
      BY <1>2, <1>4, <2>2
    <3>. QED  BY <1>1, <1>2, <1>5, <2>1, <3>1 DEF CopyFollows
  <2>3. CASE phase' # "post"
    BY <2>3 DEF CopyFollows
  <2>. QED  BY <2>2, <2>3
<1>11. ASSUME ~disturbed'
       PROVE  /\ ids = Held(Source) /\ phase' = "post" /\ copy'.to = r /\ copy'.id = x
              /\ \A j \in 1 .. told : \A d \in ids \ Held(Replicas[j]) : <<Replicas[j], d>> \in missing
  <2>1. ~disturbed
    BY <1>4, <1>11
  <2>2. /\ ids = Held(Source)
        /\ \A j \in 1 .. told : \A d \in ids \ Held(Replicas[j]) : <<Replicas[j], d>> \in missing
    BY <1>2, <2>1 DEF RepairInv, RepairsUndisturbed
  <2>3. phase' = "post" /\ copy' = [to |-> r, id |-> x, version |-> content[Source][x], at |-> applied[Source]]
    BY <1>1, <1>4, <1>11, <2>2
  <2>. QED  BY <2>2, <2>3
<1>12. told' = Len(Replicas)
  BY <1>2 DEF RepairInv, RepairsUndisturbed
<1>13. ASSUME ~disturbed', NEW j \in 1 .. told, NEW d \in ids \ Held(Replicas[j])
       PROVE  <<Replicas[j], d>> \in missing' \/ (copy'.to = Replicas[j] /\ copy'.id = d)
  <2>1. <<Replicas[j], d>> \in missing
    BY <1>11, <1>13
  <2>2. CASE <<Replicas[j], d>> = p
    BY <1>1, <1>11, <1>13, <2>2
  <2>. QED  BY <1>2, <2>1, <2>2
<1>14. RepairsUndisturbed'
  BY <1>2, <1>3, <1>8, <1>11, <1>12, <1>13 DEF RepairsUndisturbed
<1>. QED  BY <1>3, <1>9, <1>10, <1>14 DEF RepairInv

LEMMA EndRepairKeeps ==
  ASSUME RepairInv, EndRepair
  PROVE  RepairInv'
<1>1. /\ phase = "get" /\ missing = {} /\ phase' = "done"
      /\ UNCHANGED <<content, commands, applied, ids, missing, told, copy, owed, raced, disturbed>>
  BY DEF EndRepair
<1>2. PrimaryFollows' /\ ReplicaFollows' /\ \A n : Held(n)' = Held(n)
  BY <1>1, DocumentsStay
<1>3. RepairType' /\ CopyFollows'
  BY <1>1 DEF RepairInv, RepairType, CopyFollows
<1>4. RepairsUndisturbed'
  BY <1>1, <1>2 DEF RepairInv, RepairsUndisturbed
<1>. QED  BY <1>2, <1>3, <1>4 DEF RepairInv

\* What a node holds changes in one document.
LEMMA HeldAfter ==
  ASSUME RepairInv, NEW n \in Holders, NEW d \in Docs, NEW v \in Nat,
         content' = [content EXCEPT ![n][d] = v]
  PROVE  /\ content' \in [Holders -> [Docs -> Nat]]
         /\ content'[n][d] = v
         /\ \A x \in Docs \ {d} : content'[n][x] = content[n][x]
         /\ \A k \in Holders \ {n} : content'[k] = content[k]
BY DEF RepairInv, RepairType

LEMMA CommandKeeps ==
  ASSUME RepairInv, NEW n \in Holders, ApplyCommand(n)
  PROVE  RepairInv'
<1>1. PICK c \in Logged, a \in Nat : c = commands /\ a = applied[n] /\ a + 1 \in 1 .. Len(c)
  <2>1. commands \in Logged /\ applied[n] \in Nat
    BY DEF RepairInv, RepairType
  <2>2. PICK c \in Logged, a \in Nat : c = commands /\ a = applied[n]
    BY <2>1
  <2>3. Len(c) \in Nat /\ a < Len(c)
    BY <2>2 DEF ApplyCommand, Logged
  <2>4. a + 1 \in 1 .. Len(c)
    BY <2>3
  <2>. QED  BY <2>2, <2>4
<1>2. PICK d \in Docs, v \in Nat : d = c[a + 1].id /\ v = c[a + 1].version
  <2>1. c[a + 1] \in [id : Docs, version : Nat]
    BY <1>1, ElementOfSeq DEF Logged
  <2>. QED  BY <2>1
<1>3. /\ content' = [content EXCEPT ![n][d] = v]
      /\ owed' = owed \ {<<n, d>>}
      /\ applied' = [applied EXCEPT ![n] = a + 1]
      /\ disturbed' = (disturbed \/ phase # "primary")
      /\ UNCHANGED <<commands, phase, ids, missing, told, copy, lost, raced>>
  BY <1>1, <1>2 DEF ApplyCommand
<1>4. /\ content' \in [Holders -> [Docs -> Nat]]
      /\ content'[n][d] = v
      /\ \A x \in Docs \ {d} : content'[n][x] = content[n][x]
      /\ \A k \in Holders \ {n} : content'[k] = content[k]
  BY <1>3, HeldAfter
<1>5. /\ applied' \in [Holders -> 0 .. Len(commands)]
      /\ applied'[n] = a + 1
      /\ \A k \in Holders \ {n} : applied'[k] = applied[k]
  BY <1>1, <1>3 DEF RepairInv, RepairType
<1>6. RepairType'
  <2>1. disturbed' \in BOOLEAN
    BY <1>3 DEF RepairInv, RepairType
  <2>. QED  BY <1>3, <1>4, <1>5, <2>1 DEF RepairInv, RepairType
<1>7. /\ Version(c, a + 1, d) = v
      /\ \A x \in Docs \ {d} : Version(c, a + 1, x) = Version(c, a, x)
  BY <1>2, VersionAfter
<1>8. /\ Source \in Holders /\ Copies \subseteq Holders /\ Source \notin Copies
      /\ \A k \in Holders : applied[k] \in Nat
  BY ReplicasInOrder DEF Holders, RepairInv, RepairType
<1>9. PICK s \in Nat, z \in Nat : s = applied[Source] /\ z = applied'[Source] /\ s <= z
  BY <1>1, <1>5, <1>8
<1>10. PrimaryFollows'
  <2>1. CASE n = Source
    <3>1. ASSUME NEW x \in Docs
          PROVE  content'[Source][x] = Version(c, a + 1, x)
      <4>1. CASE x = d
        BY <1>4, <1>7, <2>1, <4>1
      <4>2. CASE x # d
        BY <1>1, <1>4, <1>7, <2>1, <4>2 DEF RepairInv, PrimaryFollows
      <4>. QED  BY <4>1, <4>2
    <3>. QED  BY <1>1, <1>3, <1>5, <2>1, <3>1 DEF PrimaryFollows
  <2>2. CASE n # Source
    BY <1>3, <1>4, <1>5, <1>8, <2>2 DEF RepairInv, PrimaryFollows
  <2>. QED  BY <2>1, <2>2
<1>11. ASSUME NEW r \in Copies, NEW x \in Docs
       PROVE  Reached(r, x)' \/ <<r, x>> \in owed' \/ <<r, x>> \in raced'
  <2>1. CASE r # n
    <3>1. content'[r] = content[r] /\ applied'[r] = applied[r]
      BY <1>4, <1>5, <1>8, <2>1
    <3>2. Reached(r, x) => Reached(r, x)'
      BY <1>3, <1>9, <3>1 DEF Reached
    <3>3. <<r, x>> \in owed => <<r, x>> \in owed'
      BY <1>3, <2>1
    <3>. QED  BY <1>3, <3>2, <3>3 DEF RepairInv, ReplicaFollows
  <2>2. CASE r = n /\ x = d
    <3>1. content'[r][x] = Version(commands', a + 1, x) /\ applied'[r] = a + 1 /\ a + 1 \in Nat
      BY <1>1, <1>3, <1>4, <1>5, <1>7, <2>2
    <3>. QED  BY <3>1 DEF Reached
  <2>3. CASE r = n /\ x # d
    <3>1. <<r, x>> \in owed => <<r, x>> \in owed'
      BY <1>3, <2>3
    <3>2. ASSUME Reached(r, x)
          PROVE  Reached(r, x)'
      <4>1. PICK k \in Nat : /\ a <= k /\ (k <= s \/ k = a)
                             /\ content[r][x] = Version(c, k, x)
        BY <1>1, <1>9, <2>3, <3>2 DEF Reached
      <4>2. content'[r][x] = content[r][x] /\ applied'[r] = a + 1 /\ z = s
        BY <1>4, <1>5, <1>8, <1>9, <2>3
      <4>3. CASE k = a
        <5>1. content'[r][x] = Version(c, a + 1, x) /\ a + 1 \in Nat
          BY <1>7, <2>3, <4>1, <4>2, <4>3
        <5>. QED  BY <1>1, <1>3, <4>2, <5>1 DEF Reached
      <4>4. CASE k # a
        <5>1. a + 1 <= k /\ k <= z
          BY <4>1, <4>2, <4>4
        <5>. QED  BY <1>1, <1>3, <1>9, <4>1, <4>2, <5>1 DEF Reached
      <4>. QED  BY <4>3, <4>4
    <3>. QED  BY <1>3, <3>1, <3>2 DEF RepairInv, ReplicaFollows
  <2>. QED  BY <2>1, <2>2, <2>3
<1>12. CopyFollows'
  <2>1. ASSUME phase = "post"
        PROVE  copy.at <= z
    <3>1. copy.at \in Nat /\ copy.at <= s
      BY <1>9, <2>1 DEF RepairInv, RepairType, CopyFollows
    <3>. QED  BY <1>9, <3>1
  <2>. QED  BY <1>3, <1>9, <2>1 DEF RepairInv, CopyFollows
<1>13. RepairsUndisturbed'
  BY <1>3 DEF RepairInv, RepairsUndisturbed
<1>. QED  BY <1>6, <1>10, <1>11, <1>12, <1>13 DEF RepairInv, ReplicaFollows

LEMMA PostKeeps ==
  ASSUME RepairInv, PostDocument
  PROVE  RepairInv'
<1>1. /\ phase = "post" /\ phase' = "get" /\ copy' = NoCopy
      /\ UNCHANGED <<commands, applied, ids, missing, told>>
      /\ (disturbed' = disturbed /\ Posted) \/ disturbed' = TRUE
      /\ Posted \/ UNCHANGED <<content, owed, raced>>
  BY DEF PostDocument, Lost
<1>2. PICK r \in Copies, d \in Docs, v \in Nat, at \in Nat :
        /\ copy.to = r /\ copy.id = d /\ copy.version = v /\ copy.at = at
        /\ at <= applied[Source] /\ v = Version(commands, at, d) /\ v # Absent
  BY <1>1 DEF RepairInv, RepairType, CopyFollows
<1>3. Source \in Holders /\ r \in Holders /\ r # Source /\ Source \notin Copies /\ Copies \subseteq Holders
  BY <1>2, ReplicasInOrder DEF Holders
<1>4. copy' \in [to : Holders, id : Docs \cup {Source}, version : Nat, at : Nat]
  BY <1>1, <1>3 DEF NoCopy, Absent
<1>5. disturbed' \in BOOLEAN
  BY <1>1 DEF RepairInv, RepairType
<1>6. CopyFollows'
  BY <1>1 DEF CopyFollows
<1>7. told' = Len(Replicas)
  BY <1>1 DEF RepairInv, RepairsUndisturbed
<1>8. CASE UNCHANGED <<content, owed, raced>> /\ disturbed' = TRUE
  <2>1. PrimaryFollows' /\ ReplicaFollows'
    BY <1>1, <1>8, DocumentsStay
  <2>2. RepairType'
    BY <1>1, <1>4, <1>5, <1>8 DEF RepairInv, RepairType
  <2>3. RepairsUndisturbed'
    BY <1>1, <1>7, <1>8 DEF RepairsUndisturbed
  <2>. QED  BY <1>6, <2>1, <2>2, <2>3 DEF RepairInv
<1>9. CASE Posted
  <2>1. /\ content' = [content EXCEPT ![r][d] = v]
        /\ owed' = owed \ {<<r, d>>}
        /\ raced' = IF \E k \in at + 1 .. applied[r] : commands[k].id = d
                    THEN raced \cup {<<r, d>>} ELSE raced
    BY <1>2, <1>9 DEF Posted
  <2>2. /\ content' \in [Holders -> [Docs -> Nat]]
        /\ content'[r][d] = v
        /\ \A x \in Docs \ {d} : content'[r][x] = content[r][x]
        /\ \A k \in Holders \ {r} : content'[k] = content[k]
    BY <1>3, <2>1, HeldAfter
  <2>3. RepairType'
    BY <1>1, <1>4, <1>5, <2>2 DEF RepairInv, RepairType
  <2>4. PrimaryFollows'
    BY <1>1, <1>3, <2>2 DEF RepairInv, PrimaryFollows
  <2>5. ASSUME NEW k \in Copies, NEW x \in Docs
        PROVE  Reached(k, x)' \/ <<k, x>> \in owed' \/ <<k, x>> \in raced'
    <3>1. CASE k = r /\ x = d
      <4>1. CASE \E j \in at + 1 .. applied[r] : commands[j].id = d
        BY <2>1, <3>1, <4>1
      <4>2. CASE ~\E j \in at + 1 .. applied[r] : commands[j].id = d
        <5>1. PICK a \in Nat, s \in Nat : a = applied[r] /\ s = applied[Source]
          BY <1>3 DEF RepairInv, RepairType
        <5>2. CASE a <= at
          BY <1>1, <1>2, <2>2, <3>1, <5>1, <5>2 DEF Reached
        <5>3. CASE at < a
          <6>1. Version(commands, a, d) = v
            BY <1>2, <4>2, <5>1, <5>3, VersionStays
          <6>. QED  BY <1>1, <2>2, <3>1, <5>1, <6>1 DEF Reached
        <5>. QED  BY <5>1, <5>2, <5>3
      <4>. QED  BY <4>1, <4>2
    <3>2. CASE k # r \/ x # d
      <4>1. content'[k][x] = content[k][x]
        BY <1>3, <2>2, <3>2
      <4>2. Reached(k, x) => Reached(k, x)'
        BY <1>1, <4>1 DEF Reached
      <4>3. /\ <<k, x>> \in owed => <<k, x>> \in owed'
            /\ <<k, x>> \in raced => <<k, x>> \in raced'
        BY <2>1, <3>2
      <4>. QED  BY <4>2, <4>3 DEF RepairInv, ReplicaFollows
    <3>. QED  BY <3>1, <3>2
  <2>6. /\ Held(Source)' = Held(Source)
        /\ Held(r)' = Held(r) \cup {d}
        /\ \A k \in Holders \ {r} : Held(k)' = Held(k)
    <3>1. Held(r)' = Held(r) \cup {d}
      BY <1>2, <2>2 DEF Held
    <3>2. \A k \in Holders \ {r} : Held(k)' = Held(k)
      BY <2>2 DEF Held
    <3>. QED  BY <1>3, <3>1, <3>2
  <2>7. ASSUME ~disturbed'
        PROVE  /\ ids = Held(Source)
               /\ \A j \in 1 .. told : \A x \in ids \ Held(Replicas[j])' : <<Replicas[j], x>> \in missing
    <3>1. ~disturbed
      BY <1>1, <2>7
    <3>2. /\ ids = Held(Source)
          /\ \A j \in 1 .. told : \A x \in ids \ Held(Replicas[j]) :
               <<Replicas[j], x>> \in missing \/ (r = Replicas[j] /\ d = x)
      BY <1>1, <1>2, <3>1 DEF RepairInv, RepairsUndisturbed
    <3>3. ASSUME NEW j \in 1 .. told, NEW x \in ids \ Held(Replicas[j])'
          PROVE  <<Replicas[j], x>> \in missing
      <4>1. j \in 1 .. Len(Replicas) /\ Replicas[j] \in Holders
        BY <1>1, <1>3, <1>7, ReplicasInOrder
      <4>2. CASE Replicas[j] = r
        <5>1. Held(Replicas[j])' = Held(r) \cup {d}
          BY <2>6, <4>2 DEF Held
        <5>2. x \in ids \ Held(Replicas[j]) /\ x # d
          BY <3>3, <4>2, <5>1
        <5>. QED  BY <3>2, <5>2
      <4>3. CASE Replicas[j] # r
        <5>1. Held(Replicas[j])' = Held(Replicas[j])
          BY <2>6, <4>1, <4>3 DEF Held
        <5>2. x \in ids \ Held(Replicas[j])
          BY <3>3, <5>1
        <5>. QED  BY <3>2, <4>3, <5>2
      <4>. QED  BY <4>2, <4>3
    <3>. QED  BY <3>2, <3>3
  <2>8. RepairsUndisturbed'
    BY <1>1, <1>7, <2>6, <2>7 DEF RepairsUndisturbed
  <2>. QED  BY <1>6, <2>3, <2>4, <2>5, <2>8 DEF RepairInv, ReplicaFollows
<1>. QED  BY <1>1, <1>8, <1>9

LEMMA StepRepair == RepairInv /\ [RepairNext]_repairVars => RepairInv'
<1>. SUFFICES ASSUME RepairInv, [RepairNext]_repairVars
              PROVE  RepairInv'
  OBVIOUS
<1>1. CASE UNCHANGED repairVars
  <2>1. RepairType'
    BY <1>1 DEF repairVars, RepairInv, RepairType
  <2>2. PrimaryFollows' /\ CopyFollows'
    BY <1>1 DEF repairVars, RepairInv, PrimaryFollows, CopyFollows
  <2>3. ReplicaFollows'
    BY <1>1 DEF repairVars, RepairInv, ReplicaFollows, Reached
  <2>4. RepairsUndisturbed'
    BY <1>1 DEF repairVars, RepairInv, RepairsUndisturbed, Held
  <2>. QED  BY <2>1, <2>2, <2>3, <2>4 DEF RepairInv
<1>. QED  BY <1>1, CommandKeeps, ReadPrimaryKeeps, ReadReplicaKeeps, GetKeeps, PostKeeps,
             EndRepairKeeps DEF RepairNext

\* What repair.py may do beside the log: only a document that was lost and not copied,
\* or one that was copied over a later command, differs between two nodes that are as
\* far in the log; and a repair nothing disturbed leaves no replica without a document
\* of the primary.
THEOREM RepairsAlwaysRestore == RepairSpec => []RepairRestores
<1>1. RepairInv => RepairRestores
  <2>. SUFFICES ASSUME RepairInv
                PROVE  RepairRestores
    OBVIOUS
  <2>1. ASSUME NEW r \in Copies, applied[r] = applied[Source], NEW d \in Docs
        PROVE  content[r][d] = content[Source][d] \/ <<r, d>> \in owed \cup raced
    <3>1. PICK a \in Nat : a = applied[r]
      BY DEF RepairInv, RepairType, Holders
    <3>2. Reached(r, d) => content[r][d] = Version(commands, a, d)
      BY <2>1, <3>1 DEF Reached
    <3>. QED  BY <2>1, <3>1, <3>2 DEF RepairInv, ReplicaFollows, PrimaryFollows
  <2>2. ASSUME phase = "done", ~disturbed, NEW r \in Copies
        PROVE  Held(Source) \subseteq Held(r)
    <3>1. PICK j \in 1 .. Len(Replicas) : Replicas[j] = r
      BY ReplicasInOrder
    <3>2. /\ ids = Held(Source) /\ told = Len(Replicas) /\ missing = {}
          /\ \A x \in ids \ Held(r) : <<r, x>> \in missing
      BY <2>2, <3>1 DEF RepairInv, RepairsUndisturbed
    <3>. QED  BY <3>2
  <2>. QED  BY <2>1, <2>2 DEF RepairRestores
<1>. QED  BY <1>1, InitRepair, StepRepair, PTL DEF RepairSpec

-----------------------------------------------------------------------------
(* The search index.                                                       *)

\* The words of some documents, the documents that have a word, and the postings.
WordsOf(docs) == UNION {Range(docs[d].words) : d \in DOMAIN docs}
Having(docs, w) == {e \in DOMAIN docs : w \in Range(docs[e].words)}
PostingsOf(docs) ==
  [w \in WordsOf(docs) |-> [d \in Having(docs, w) |-> Frequency(docs[d].words, w)]]
TermsOf(docs) == [d \in DOMAIN docs |-> Range(docs[d].words)]

IndexInv ==
  /\ DOMAIN documents = IndexShards
  /\ documentTerms = [s \in IndexShards |-> TermsOf(documents[s])]
  /\ postings = [s \in IndexShards |-> PostingsOf(documents[s])]

LEMMA Postings ==
  ASSUME NEW docs
  PROVE  /\ DOMAIN PostingsOf(docs) = WordsOf(docs)
         /\ \A w : w \in WordsOf(docs) <=> Having(docs, w) # {}
         /\ \A w \in WordsOf(docs) :
              PostingsOf(docs)[w] = [d \in Having(docs, w) |-> Frequency(docs[d].words, w)]
BY DEF PostingsOf, WordsOf, Having

LEMMA WithoutDocument ==
  ASSUME NEW docs, NEW d
  PROVE  /\ DOMAIN Without(docs, {d}) = DOMAIN docs \ {d}
         /\ \A e \in DOMAIN docs \ {d} : Without(docs, {d})[e] = docs[e]
         /\ \A w : Having(Without(docs, {d}), w) = Having(docs, w) \ {d}
         /\ TermsOf(Without(docs, {d})) = Without(TermsOf(docs), {d})
<1>1. /\ DOMAIN Without(docs, {d}) = DOMAIN docs \ {d}
      /\ \A e \in DOMAIN docs \ {d} : Without(docs, {d})[e] = docs[e]
  BY DEF Without, Restrict
<1>2. \A w : Having(Without(docs, {d}), w) = Having(docs, w) \ {d}
  BY <1>1 DEF Having
<1>3. DOMAIN TermsOf(docs) = DOMAIN docs /\ \A e \in DOMAIN docs : TermsOf(docs)[e] = Range(docs[e].words)
  BY DEF TermsOf
<1>4. TermsOf(Without(docs, {d})) = [e \in DOMAIN docs \ {d} |-> Range(docs[e].words)]
  BY <1>1 DEF TermsOf
<1>5. Without(TermsOf(docs), {d}) = [e \in DOMAIN docs \ {d} |-> Range(docs[e].words)]
  BY <1>3 DEF Without, Restrict
<1>. QED  BY <1>1, <1>2, <1>4, <1>5

LEMMA TermsWith ==
  ASSUME NEW docs, NEW d, NEW new
  PROVE  TermsOf(With(docs, d, new)) = With(TermsOf(docs), d, Range(new.words))
<1>1. /\ DOMAIN With(docs, d, new) = DOMAIN docs \cup {d}
      /\ With(docs, d, new)[d] = new
      /\ \A e \in DOMAIN docs \ {d} : With(docs, d, new)[e] = docs[e]
  BY DEF With
<1>2. DOMAIN TermsOf(docs) = DOMAIN docs /\ \A e \in DOMAIN docs : TermsOf(docs)[e] = Range(docs[e].words)
  BY DEF TermsOf
<1>3. TermsOf(With(docs, d, new)) =
        [e \in DOMAIN docs \cup {d} |-> IF e = d THEN Range(new.words) ELSE Range(docs[e].words)]
  BY <1>1 DEF TermsOf
<1>4. With(TermsOf(docs), d, Range(new.words)) =
        [e \in DOMAIN docs \cup {d} |-> IF e = d THEN Range(new.words) ELSE Range(docs[e].words)]
  BY <1>2 DEF With
<1>. QED  BY <1>3, <1>4

\* _remove_document_terms leaves the postings of the other documents.
LEMMA PostingsLeft ==
  ASSUME IndexInv, NEW s \in IndexShards, NEW d \in DOMAIN documents[s]
  PROVE  PostingsWithout(s, d) = PostingsOf(Without(documents[s], {d}))
<1>1. PICK docs : docs = documents[s]
  OBVIOUS
<1>2. PICK posts, terms : /\ posts = PostingsOf(docs) /\ posts = postings[s]
                          /\ terms = Range(docs[d].words) /\ terms = documentTerms[s][d]
                          /\ d \in DOMAIN docs /\ d \in DOMAIN documentTerms[s]
  BY <1>1 DEF IndexInv, TermsOf
<1>3. /\ DOMAIN posts = WordsOf(docs)
      /\ \A w : w \in WordsOf(docs) <=> Having(docs, w) # {}
      /\ \A w \in WordsOf(docs) : posts[w] = [e \in Having(docs, w) |-> Frequency(docs[e].words, w)]
  <2>1. DOMAIN PostingsOf(docs) = WordsOf(docs)
    BY Postings
  <2>2. \A w : w \in WordsOf(docs) <=> Having(docs, w) # {}
    BY Postings
  <2>3. ASSUME NEW w \in WordsOf(docs)
        PROVE  PostingsOf(docs)[w] = [e \in Having(docs, w) |-> Frequency(docs[e].words, w)]
    BY DEF PostingsOf
  <2>. QED  BY <1>2, <2>1, <2>2, <2>3, Zenon
<1>4. PICK left : left = Without(docs, {d})
  OBVIOUS
<1>5. /\ \A e \in DOMAIN docs \ {d} : left[e] = docs[e]
      /\ \A w : Having(left, w) = Having(docs, w) \ {d}
  BY <1>4, WithoutDocument
<1>6. \A w : w \in terms <=> d \in Having(docs, w)
  BY <1>2 DEF Having
<1>. DEFINE last == {w \in terms \cap DOMAIN posts : DOMAIN posts[w] \subseteq {d}}
<1>7. PostingsWithout(s, d) =
        [w \in DOMAIN posts \ last |-> IF w \in terms THEN Without(posts[w], {d}) ELSE posts[w]]
  BY <1>2 DEF PostingsWithout
<1>8. DOMAIN posts \ last = WordsOf(left)
  <2>1. ASSUME NEW w
        PROVE  w \in last <=> w \in WordsOf(docs) /\ Having(docs, w) = {d}
    <3>1. ASSUME w \in WordsOf(docs)
          PROVE  DOMAIN posts[w] = Having(docs, w) /\ Having(docs, w) # {}
      BY <1>3, <3>1
    <3>. QED  BY <1>3, <1>6, <3>1
  <2>2. \A w : w \in WordsOf(left) <=> Having(left, w) # {}
    BY Postings
  <2>. HIDE DEF last
  <2>3. ASSUME NEW w
        PROVE  w \in DOMAIN posts \ last <=> w \in WordsOf(left)
    BY <1>3, <1>5, <2>1, <2>2
  <2>. QED  BY <2>3
<1>. HIDE DEF last
<1>9. ASSUME NEW w \in WordsOf(left)
      PROVE  (IF w \in terms THEN Without(posts[w], {d}) ELSE posts[w])
               = [e \in Having(left, w) |-> Frequency(left[e].words, w)]
  <2>1. w \in WordsOf(docs)
    BY <1>3, <1>8
  <2>2. PICK row : row = posts[w] /\ row = [e \in Having(docs, w) |-> Frequency(docs[e].words, w)]
    BY <1>3, <2>1
  <2>3. \A e \in Having(left, w) : left[e] = docs[e] /\ e \in Having(docs, w) /\ e # d
    BY <1>5 DEF Having
  <2>4. [e \in Having(left, w) |-> Frequency(left[e].words, w)]
          = [e \in Having(left, w) |-> Frequency(docs[e].words, w)]
    BY <2>3
  <2>5. CASE w \in terms
    <3>1. Without(row, {d}) = [e \in Having(docs, w) \ {d} |-> row[e]]
      BY <2>2 DEF Without, Restrict
    <3>2. [e \in Having(docs, w) \ {d} |-> row[e]]
            = [e \in Having(docs, w) \ {d} |-> Frequency(docs[e].words, w)]
      BY <2>2
    <3>. QED  BY <1>5, <2>2, <2>4, <2>5, <3>1, <3>2
  <2>6. CASE w \notin terms
    <3>1. Having(left, w) = Having(docs, w)
      BY <1>5, <1>6, <2>6
    <3>. QED  BY <2>2, <2>4, <2>6, <3>1
  <2>. QED  BY <2>5, <2>6
<1>10. PostingsWithout(s, d) = [w \in WordsOf(left) |-> [e \in Having(left, w) |-> Frequency(left[e].words, w)]]
  BY <1>7, <1>8, <1>9
<1>. QED  BY <1>1, <1>4, <1>10 DEF PostingsOf

\* add_document adds the document to the postings of its words.
AddedTo(kept, d, new) ==
  [w \in DOMAIN kept \cup Range(new.words) |->
     LET earlier == IF w \in DOMAIN kept THEN kept[w] ELSE NoDocument
     IN  IF w \in Range(new.words) THEN With(earlier, d, Frequency(new.words, w)) ELSE earlier]

LEMMA PostingsAdded ==
  ASSUME NEW docs, NEW d, d \notin DOMAIN docs, NEW new, NEW kept, kept = PostingsOf(docs)
  PROVE  AddedTo(kept, d, new) = PostingsOf(With(docs, d, new))
<1>. DEFINE earlier(w) == IF w \in DOMAIN kept THEN kept[w] ELSE NoDocument
            after(w) == IF w \in Range(new.words) THEN With(earlier(w), d, Frequency(new.words, w)) ELSE earlier(w)
<1>1. PICK all : all = With(docs, d, new)
  OBVIOUS
<1>2. /\ all[d] = new /\ \A e \in DOMAIN docs \ {d} : all[e] = docs[e]
      /\ \A w : Having(all, w) = (Having(docs, w) \ {d}) \cup (IF w \in Range(new.words) THEN {d} ELSE {})
  <2>1. /\ DOMAIN all = DOMAIN docs \cup {d} /\ all[d] = new
        /\ \A e \in DOMAIN docs \ {d} : all[e] = docs[e]
    BY <1>1 DEF With
  <2>2. ASSUME NEW w, NEW e
        PROVE  e \in Having(all, w) <=>
                 e \in (Having(docs, w) \ {d}) \cup (IF w \in Range(new.words) THEN {d} ELSE {})
    BY <2>1 DEF Having
  <2>. QED  BY <2>1, <2>2
<1>3. /\ DOMAIN kept = WordsOf(docs)
      /\ \A w : w \in WordsOf(docs) <=> Having(docs, w) # {}
      /\ \A w \in WordsOf(docs) : kept[w] = [e \in Having(docs, w) |-> Frequency(docs[e].words, w)]
  BY Postings
<1>4. \A w : d \notin Having(docs, w) /\ \A e \in Having(docs, w) : e \in DOMAIN docs \ {d}
  BY DEF Having
<1>5. \A w : w \in WordsOf(all) <=> Having(all, w) # {}
  BY Postings
<1>6. DOMAIN kept \cup Range(new.words) = WordsOf(all)
  <2>1. ASSUME NEW w
        PROVE  w \in DOMAIN kept \cup Range(new.words) <=> w \in WordsOf(all)
    <3>1. CASE w \in Range(new.words)
      BY <1>2, <1>5, <3>1
    <3>2. CASE w \notin Range(new.words)
      BY <1>2, <1>3, <1>4, <1>5, <3>2
    <3>. QED  BY <3>1, <3>2
  <2>. QED  BY <2>1
<1>7. ASSUME NEW w \in WordsOf(all)
      PROVE  after(w) = [e \in Having(all, w) |-> Frequency(all[e].words, w)]
  <2>1. PICK row : row = earlier(w) /\ row = [e \in Having(docs, w) |-> Frequency(docs[e].words, w)]
    <3>1. CASE w \in WordsOf(docs)
      BY <1>3, <3>1
    <3>2. CASE w \notin WordsOf(docs)
      <4>1. earlier(w) = NoDocument /\ Having(docs, w) = {}
        BY <1>3, <3>2
      <4>. QED  BY <4>1 DEF NoDocument
    <3>. QED  BY <3>1, <3>2
  <2>. HIDE DEF earlier
  <2>2. CASE w \in Range(new.words)
    <3>1. after(w) = With(row, d, Frequency(new.words, w))
      BY <2>1, <2>2
    <3>2. With(row, d, Frequency(new.words, w)) =
            [e \in Having(docs, w) \cup {d} |->
               IF e = d THEN Frequency(new.words, w) ELSE Frequency(docs[e].words, w)]
      BY <2>1 DEF With
    <3>3. Having(all, w) = Having(docs, w) \cup {d}
      BY <1>2, <1>4, <2>2
    <3>4. \A e \in Having(all, w) : Frequency(all[e].words, w) =
            IF e = d THEN Frequency(new.words, w) ELSE Frequency(docs[e].words, w)
      BY <1>2, <1>4, <3>3
    <3>. QED  BY <3>1, <3>2, <3>3, <3>4
  <2>3. CASE w \notin Range(new.words)
    <3>1. after(w) = row
      BY <2>1, <2>3
    <3>2. Having(all, w) = Having(docs, w)
      BY <1>2, <1>4, <2>3
    <3>3. \A e \in Having(docs, w) : all[e] = docs[e]
      BY <1>2, <1>4
    <3>. QED  BY <2>1, <3>1, <3>2, <3>3
  <2>. QED  BY <2>2, <2>3
<1>8. [w \in DOMAIN kept \cup Range(new.words) |-> after(w)]
        = [w \in WordsOf(all) |-> [e \in Having(all, w) |-> Frequency(all[e].words, w)]]
  <2>. HIDE DEF after
  <2>. QED  BY <1>6, <1>7
<1>. QED  BY <1>1, <1>8 DEF PostingsOf, AddedTo

\* One shard is written, and its index follows.
LEMMA ShardWritten ==
  ASSUME IndexInv, NEW s \in IndexShards, NEW docs,
         documents' = [documents EXCEPT ![s] = docs],
         documentTerms' = [documentTerms EXCEPT ![s] = TermsOf(docs)],
         postings' = [postings EXCEPT ![s] = PostingsOf(docs)]
  PROVE  IndexInv'
<1>1. /\ DOMAIN documents' = IndexShards
      /\ documents'[s] = docs /\ \A k \in IndexShards \ {s} : documents'[k] = documents[k]
  BY DEF IndexInv
<1>2. documentTerms' = [k \in IndexShards |-> TermsOf(documents'[k])]
  BY <1>1 DEF IndexInv
<1>3. postings' = [k \in IndexShards |-> PostingsOf(documents'[k])]
  BY <1>1 DEF IndexInv
<1>. QED  BY <1>1, <1>2, <1>3 DEF IndexInv

LEMMA InitIndex == IndexInit => IndexInv
<1>. SUFFICES ASSUME IndexInit
              PROVE  IndexInv
  OBVIOUS
<1>1. DOMAIN NoDocument = {}
  BY DEF NoDocument
<1>2. TermsOf(NoDocument) = NoDocument
  BY <1>1 DEF TermsOf, NoDocument
<1>3. PostingsOf(NoDocument) = NoDocument
  BY <1>1 DEF PostingsOf, WordsOf, NoDocument
<1>4. \A s \in IndexShards : documents[s] = NoDocument
  BY DEF IndexInit
<1>5. documentTerms = [s \in IndexShards |-> TermsOf(documents[s])]
  BY <1>2, <1>4 DEF IndexInit
<1>6. postings = [s \in IndexShards |-> PostingsOf(documents[s])]
  BY <1>3, <1>4 DEF IndexInit
<1>. QED  BY <1>5, <1>6 DEF IndexInit, IndexInv

LEMMA AddKeeps ==
  ASSUME IndexInv, NEW d \in DocumentIds, NEW new \in Contents, AddDocument(d, new)
  PROVE  IndexInv'
<1>1. PICK s \in IndexShards : s = ShardOf[d]
  BY DEF IndexShards
<1>2. PICK docs : docs = documents[s]
  OBVIOUS
<1>3. documentTerms[s] = TermsOf(docs) /\ postings[s] = PostingsOf(docs)
  BY <1>2 DEF IndexInv
<1>4. PICK base : base = IF d \in DOMAIN docs THEN Without(docs, {d}) ELSE docs
  OBVIOUS
<1>5. PICK kept : kept = IF d \in DOMAIN docs THEN PostingsWithout(s, d) ELSE postings[s]
  OBVIOUS
<1>6. d \notin DOMAIN base /\ kept = PostingsOf(base)
  <2>1. CASE d \in DOMAIN docs
    <3>1. PostingsWithout(s, d) = PostingsOf(Without(docs, {d}))
      BY <1>2, <2>1, PostingsLeft
    <3>2. d \notin DOMAIN Without(docs, {d})
      BY DEF Without, Restrict
    <3>. QED  BY <1>4, <1>5, <2>1, <3>1, <3>2
  <2>2. CASE d \notin DOMAIN docs
    BY <1>3, <1>4, <1>5, <2>2
  <2>. QED  BY <2>1, <2>2
<1>7. With(base, d, new) = With(docs, d, new)
  <2>1. DOMAIN base \cup {d} = DOMAIN docs \cup {d} /\ \A e \in DOMAIN docs \ {d} : base[e] = docs[e]
    BY <1>4 DEF Without, Restrict
  <2>. QED  BY <2>1 DEF With
<1>8. documents' = [documents EXCEPT ![s] = With(docs, d, new)]
  BY <1>1, <1>2 DEF AddDocument
<1>9. documentTerms' = [documentTerms EXCEPT ![s] = TermsOf(With(docs, d, new))]
  <2>1. documentTerms' = [documentTerms EXCEPT ![s] = With(TermsOf(docs), d, Range(new.words))]
    BY <1>1, <1>3 DEF AddDocument
  <2>2. TermsOf(With(docs, d, new)) = With(TermsOf(docs), d, Range(new.words))
    BY TermsWith
  <2>. QED  BY <2>1, <2>2
<1>10. postings' = [postings EXCEPT ![s] = PostingsOf(With(docs, d, new))]
  <2>1. postings' = [postings EXCEPT ![s] = AddedTo(kept, d, new)]
    BY <1>1, <1>2, <1>5 DEF AddDocument, AddedTo
  <2>2. AddedTo(kept, d, new) = PostingsOf(With(base, d, new))
    BY <1>6, PostingsAdded
  <2>. QED  BY <1>7, <2>1, <2>2
<1>. QED  BY <1>8, <1>9, <1>10, ShardWritten

LEMMA DeleteKeeps ==
  ASSUME IndexInv, NEW d \in DocumentIds, DeleteDocument(d)
  PROVE  IndexInv'
<1>1. PICK s \in IndexShards : s = ShardOf[d]
  BY DEF IndexShards
<1>2. PICK docs : docs = documents[s]
  OBVIOUS
<1>3. documentTerms[s] = TermsOf(docs) /\ d \in DOMAIN docs
  BY <1>1, <1>2 DEF IndexInv, DeleteDocument
<1>4. documents' = [documents EXCEPT ![s] = Without(docs, {d})]
  BY <1>1, <1>2 DEF DeleteDocument
<1>5. documentTerms' = [documentTerms EXCEPT ![s] = TermsOf(Without(docs, {d}))]
  <2>1. documentTerms' = [documentTerms EXCEPT ![s] = Without(TermsOf(docs), {d})]
    BY <1>1, <1>3 DEF DeleteDocument
  <2>. QED  BY <2>1, WithoutDocument
<1>6. postings' = [postings EXCEPT ![s] = PostingsOf(Without(docs, {d}))]
  <2>1. postings' = [postings EXCEPT ![s] = PostingsWithout(s, d)]
    BY <1>1 DEF DeleteDocument
  <2>. QED  BY <1>2, <1>3, <2>1, PostingsLeft
<1>. QED  BY <1>4, <1>5, <1>6, ShardWritten

LEMMA StepIndex == IndexInv /\ [IndexNext]_indexVars => IndexInv'
<1>. SUFFICES ASSUME IndexInv, [IndexNext]_indexVars
              PROVE  IndexInv'
  OBVIOUS
<1>1. CASE UNCHANGED indexVars
  BY <1>1 DEF indexVars, IndexInv
<1>. QED  BY <1>1, AddKeeps, DeleteKeeps DEF IndexNext

\* However documents are added, written over with other words and deleted, in every shard
\* the postings that a search reads (index.py) are those of the documents that are there.
THEOREM IndexAlwaysFollows == IndexSpec => []IndexFollowsDocuments
<1>1. IndexInv => IndexFollowsDocuments
  BY DEF IndexInv, IndexFollowsDocuments, HasWord, TermsOf, PostingsOf, WordsOf, Having
<1>. QED  BY <1>1, InitIndex, StepIndex, PTL DEF IndexSpec

-----------------------------------------------------------------------------
(* Sorting and slicing hits.                                               *)

HitType == [id : Int, score : Int, rank : Int]

\* Hits of different documents.
HitSet(hits) ==
  /\ IsFiniteSet(hits) /\ hits \subseteq HitType
  /\ \A g, h \in hits : g.id = h.id => g = h

LEMMA HitOrder ==
  ASSUME NEW order, NEW a \in HitType, NEW b \in HitType, NEW c \in HitType
  PROVE  /\ ~Precedes(order, a, a)
         /\ Precedes(order, a, b) /\ Precedes(order, b, c) => Precedes(order, a, c)
         /\ a.id # b.id => Precedes(order, a, b) \/ Precedes(order, b, a)
<1> DEFINE plain == order = "none"
           ascending == order = "asc"
<1>1. /\ a.id \in Int /\ a.score \in Int /\ a.rank \in Int
      /\ b.id \in Int /\ b.score \in Int /\ b.rank \in Int
      /\ c.id \in Int /\ c.score \in Int /\ c.rank \in Int
  BY DEF HitType
<1>2. ASSUME NEW g, NEW h
      PROVE  Precedes(order, g, h) <=>
               IF ~plain /\ g.rank # h.rank
               THEN IF ascending THEN g.rank < h.rank ELSE g.rank > h.rank
               ELSE g.score > h.score \/ (g.score = h.score /\ g.id < h.id)
  BY DEF Precedes
<1>. HIDE DEF plain, ascending
<1>. QED  BY <1>1, <1>2

Place(hits, order, h) == Cardinality(Ahead(hits, order, h))

LEMMA AheadFinite ==
  ASSUME NEW hits, HitSet(hits), NEW order, NEW h \in hits
  PROVE  IsFiniteSet(Ahead(hits, order, h)) /\ Place(hits, order, h) \in Nat
<1>1. Ahead(hits, order, h) \in SUBSET hits
  BY DEF Ahead
<1>2. IsFiniteSet(Ahead(hits, order, h))
  BY <1>1, FS_Subset DEF HitSet
<1>. QED  BY <1>2, FS_CardinalityType DEF Place

LEMMA PlaceGrows ==
  ASSUME NEW hits, HitSet(hits), NEW order, NEW g \in hits, NEW h \in hits, Precedes(order, g, h)
  PROVE  Place(hits, order, g) < Place(hits, order, h)
<1> DEFINE less == Ahead(hits, order, g)
           more == Ahead(hits, order, h)
<1>1. \A f \in hits : Precedes(order, f, g) => Precedes(order, f, h)
  BY HitOrder DEF HitSet
<1>2. less \subseteq more /\ g \in more
  BY <1>1 DEF Ahead
<1>3. g \notin less
  BY HitOrder DEF Ahead, HitSet
<1>4. IsFiniteSet(more) /\ IsFiniteSet(less) /\ Cardinality(more) \in Nat /\ Cardinality(less) \in Nat
  BY AheadFinite DEF Place
<1>. HIDE DEF less, more
<1>5. less \in SUBSET more
  BY <1>2
<1>6. Cardinality(less) <= Cardinality(more) /\ (Cardinality(more) = Cardinality(less) => more = less)
  BY <1>4, <1>5, FS_Subset
<1>7. Cardinality(less) < Cardinality(more)
  BY <1>2, <1>3, <1>4, <1>6
<1>. QED  BY <1>7 DEF less, more, Place

LEMMA PlacesDiffer ==
  ASSUME NEW hits, HitSet(hits), NEW order, NEW g \in hits, NEW h \in hits,
         Place(hits, order, g) = Place(hits, order, h)
  PROVE  g = h
<1>1. ASSUME g # h
      PROVE  FALSE
  <2>1. Precedes(order, g, h) \/ Precedes(order, h, g)
    BY <1>1, HitOrder DEF HitSet
  <2>2. Place(hits, order, g) \in Nat /\ Place(hits, order, h) \in Nat
    BY AheadFinite
  <2>3. Place(hits, order, g) < Place(hits, order, h) \/ Place(hits, order, h) < Place(hits, order, g)
    BY <2>1, PlaceGrows
  <2>. QED  BY <2>2, <2>3
<1>. QED  BY <1>1

\* Places are those from zero to the last, each taken once.
LEMMA PlacesTaken ==
  ASSUME NEW hits, HitSet(hits), NEW order
  PROVE  /\ Cardinality(hits) \in Nat
         /\ \A h \in hits : Place(hits, order, h) \in 0 .. Cardinality(hits) - 1
         /\ \A k \in 0 .. Cardinality(hits) - 1 : \E h \in hits : Place(hits, order, h) = k
<1> DEFINE n == Cardinality(hits)
           f == [h \in hits |-> Place(hits, order, h)]
<1>1. IsFiniteSet(hits) /\ n \in Nat
  BY FS_CardinalityType DEF HitSet
<1>2. ASSUME NEW h \in hits
      PROVE  Place(hits, order, h) \in 0 .. n - 1
  <2>1. Ahead(hits, order, h) \in SUBSET hits
    BY DEF Ahead
  <2>2. h \notin Ahead(hits, order, h)
    BY HitOrder DEF Ahead, HitSet
  <2>3. /\ Cardinality(Ahead(hits, order, h)) <= n
        /\ n = Cardinality(Ahead(hits, order, h)) => hits = Ahead(hits, order, h)
    BY <1>1, <2>1, FS_Subset
  <2>4. Place(hits, order, h) \in Nat
    BY AheadFinite
  <2>. QED  BY <1>1, <2>2, <2>3, <2>4 DEF Place
<1>3. f \in [hits -> 0 .. n - 1]
  BY <1>2
<1>4. \A g, h \in hits : f[g] = f[h] => g = h
  BY PlacesDiffer
<1>5. f \in Injection(hits, 0 .. n - 1)
  <2>. HIDE DEF f, n
  <2>. QED  BY <1>3, <1>4 DEF Injection, IsInjective
<1>6. IsFiniteSet(0 .. n - 1) /\ Cardinality(0 .. n - 1) = n
  BY <1>1, FS_Interval
<1>. HIDE DEF f, n
<1>7. f \in Surjection(hits, 0 .. n - 1)
  BY <1>1, <1>5, <1>6, FS_Injection DEF n
<1>8. \A k \in 0 .. n - 1 : \E h \in hits : f[h] = k
  BY <1>7 DEF Surjection
<1>. QED  BY <1>1, <1>2, <1>8 DEF n, f

LEMMA SortedProperties ==
  ASSUME NEW hits, HitSet(hits), NEW order
  PROVE  /\ Sorted(hits, order) \in Seq(hits)
         /\ Cardinality(hits) \in Nat /\ Len(Sorted(hits, order)) = Cardinality(hits)
         /\ \A k \in 1 .. Cardinality(hits) :
              /\ Sorted(hits, order)[k] \in hits
              /\ Place(hits, order, Sorted(hits, order)[k]) = k - 1
         /\ \A h \in hits :
              /\ Place(hits, order, h) + 1 \in 1 .. Cardinality(hits)
              /\ Sorted(hits, order)[Place(hits, order, h) + 1] = h
<1> DEFINE n == Cardinality(hits)
           sorted == Sorted(hits, order)
           At(k) == CHOOSE h \in hits : Cardinality(Ahead(hits, order, h)) = k - 1
<1>1. /\ n \in Nat
      /\ \A h \in hits : Place(hits, order, h) \in 0 .. n - 1
      /\ \A k \in 0 .. n - 1 : \E h \in hits : Place(hits, order, h) = k
  BY PlacesTaken
<1>2. sorted = [k \in 1 .. n |-> At(k)]
  BY DEF Sorted
<1>3. ASSUME NEW k \in 1 .. n
      PROVE  At(k) \in hits /\ Place(hits, order, At(k)) = k - 1
  <2>1. k - 1 \in 0 .. n - 1
    BY <1>1
  <2>2. PICK h \in hits : Place(hits, order, h) = k - 1
    BY <1>1, <2>1
  <2>. QED  BY <2>2 DEF Place
<1>. HIDE DEF At, n, sorted
<1>4. \A k \in 1 .. n : sorted[k] \in hits /\ Place(hits, order, sorted[k]) = k - 1
  BY <1>2, <1>3
<1>5. sorted \in [1 .. n -> hits]
  BY <1>2, <1>3
<1>6. sorted \in Seq(hits) /\ Len(sorted) = n
  BY <1>1, <1>5
<1>7. ASSUME NEW h \in hits
      PROVE  /\ Place(hits, order, h) + 1 \in 1 .. n
             /\ sorted[Place(hits, order, h) + 1] = h
  <2> DEFINE k == Place(hits, order, h) + 1
  <2>1. k \in 1 .. n /\ k - 1 = Place(hits, order, h)
    BY <1>1
  <2>. HIDE DEF k
  <2>2. sorted[k] \in hits /\ Place(hits, order, sorted[k]) = Place(hits, order, h)
    BY <1>4, <2>1
  <2>3. sorted[k] = h
    BY <2>2, PlacesDiffer
  <2>. QED  BY <2>1, <2>3 DEF k
<1>. QED  BY <1>1, <1>4, <1>6, <1>7 DEF n, sorted

LEMMA SliceProperties ==
  ASSUME NEW S, NEW hits \in Seq(S), NEW start \in Nat, NEW count \in Nat
  PROVE  /\ Slice(hits, start, count) \in Seq(S)
         /\ Len(Slice(hits, start, count)) \in Nat
         /\ \A i \in Nat \ {0} : i <= Len(Slice(hits, start, count)) <=> i <= count /\ start + i <= Len(hits)
         /\ \A i \in 1 .. Len(Slice(hits, start, count)) : Slice(hits, start, count)[i] = hits[start + i]
<1> DEFINE last == IF start + count <= Len(hits) THEN start + count ELSE Len(hits)
           slice == SubSeq(hits, start + 1, last)
<1>1. Len(hits) \in Nat /\ last \in Int /\ last <= Len(hits) /\ start + 1 \in Int
  OBVIOUS
<1>2. \A i \in start + 1 .. last : hits[i] \in S
  BY <1>1
<1>3. Slice(hits, start, count) = slice
  BY DEF Slice
<1>4. last <= start + count /\ (last = start + count \/ last = Len(hits))
  OBVIOUS
<1>. HIDE DEF last
<1>5. /\ slice \in Seq(S)
      /\ Len(slice) = IF start + 1 <= last THEN last - (start + 1) + 1 ELSE 0
      /\ \A i \in 1 .. last - (start + 1) + 1 : slice[i] = hits[start + 1 + i - 1]
  BY <1>1, <1>2, SubSeqProperties
<1>. HIDE DEF slice
<1>6. Len(slice) \in Nat
  BY <1>5
<1>7. ASSUME NEW i \in Nat \ {0}
      PROVE  i <= Len(slice) <=> i <= count /\ start + i <= Len(hits)
  BY <1>1, <1>4, <1>5
<1>8. ASSUME NEW i \in 1 .. Len(slice)
      PROVE  slice[i] = hits[start + i]
  <2>1. i \in 1 .. last - (start + 1) + 1 /\ start + 1 + i - 1 = start + i
    BY <1>1, <1>5
  <2>. QED  BY <1>5, <2>1
<1>. QED  BY <1>3, <1>5, <1>6, <1>7, <1>8
\* The first hits of a set are those of the first places.
LEMMA FirstHits ==
  ASSUME NEW hits, HitSet(hits), NEW order, NEW limit \in Nat
  PROVE  Range(Slice(Sorted(hits, order), 0, limit)) = {h \in hits : Place(hits, order, h) < limit}
<1> DEFINE sorted == Sorted(hits, order)
           slice == Slice(sorted, 0, limit)
           n == Cardinality(hits)
<1>1. /\ sorted \in Seq(hits) /\ n \in Nat /\ Len(sorted) = n
      /\ \A k \in 1 .. n : sorted[k] \in hits /\ Place(hits, order, sorted[k]) = k - 1
      /\ \A h \in hits : Place(hits, order, h) + 1 \in 1 .. n /\ sorted[Place(hits, order, h) + 1] = h
  BY SortedProperties
<1>. HIDE DEF sorted, n
<1>2. /\ slice \in Seq(hits) /\ Len(slice) \in Nat
      /\ \A i \in Nat \ {0} : i <= Len(slice) <=> i <= limit /\ 0 + i <= n
      /\ \A i \in 1 .. Len(slice) : slice[i] = sorted[0 + i]
  BY <1>1, SliceProperties
<1>. HIDE DEF slice
<1>3. Range(slice) = {slice[i] : i \in 1 .. Len(slice)}
  BY <1>2 DEF Range
<1>4. ASSUME NEW i \in 1 .. Len(slice)
      PROVE  slice[i] \in hits /\ Place(hits, order, slice[i]) < limit
  <2>1. i \in Nat \ {0} /\ i \in 1 .. n /\ i <= limit /\ slice[i] = sorted[i]
    BY <1>1, <1>2
  <2>. QED  BY <1>1, <2>1
<1>5. ASSUME NEW h \in hits, Place(hits, order, h) < limit
      PROVE  \E i \in 1 .. Len(slice) : slice[i] = h
  <2>1. PICK i \in 1 .. n : i = Place(hits, order, h) + 1 /\ sorted[i] = h
    BY <1>1
  <2>2. Place(hits, order, h) \in Nat
    BY AheadFinite
  <2>3. i \in Nat \ {0} /\ i <= limit /\ 0 + i <= n
    BY <1>1, <1>5, <2>1, <2>2
  <2>4. i \in 1 .. Len(slice)
    BY <1>2, <2>3
  <2>. QED  BY <1>2, <2>1, <2>4
<1>. QED  BY <1>3, <1>4, <1>5 DEF slice, sorted

\* Any subset with the first hits of a set has the same first hits.
LEMMA FirstOfPart ==
  ASSUME NEW all, HitSet(all), NEW part \in SUBSET all, NEW order, NEW limit \in Nat,
         \A h \in all : Place(all, order, h) < limit => h \in part
  PROVE  Slice(Sorted(part, order), 0, limit) = Slice(Sorted(all, order), 0, limit)
<1> DEFINE n == Cardinality(all)
           m == Cardinality(part)
           sa == Sorted(all, order)
           sp == Sorted(part, order)
           fa == Slice(sa, 0, limit)
           fp == Slice(sp, 0, limit)
<1>1. HitSet(part) /\ m <= n /\ (n = m => all = part)
  BY FS_Subset DEF HitSet
<1>2. /\ sa \in Seq(all) /\ n \in Nat /\ Len(sa) = n
      /\ \A k \in 1 .. n : sa[k] \in all /\ Place(all, order, sa[k]) = k - 1
  BY SortedProperties
<1>3. /\ sp \in Seq(part) /\ m \in Nat /\ Len(sp) = m
      /\ \A h \in part : Place(part, order, h) + 1 \in 1 .. m /\ sp[Place(part, order, h) + 1] = h
  BY <1>1, SortedProperties
<1>4. ASSUME NEW h \in part, Place(all, order, h) < limit
      PROVE  Place(part, order, h) = Place(all, order, h)
  <2>1. ASSUME NEW g \in Ahead(all, order, h)
        PROVE  g \in part
    <3>1. g \in all /\ Precedes(order, g, h)
      BY DEF Ahead
    <3>2. Place(all, order, g) < Place(all, order, h)
      BY <3>1, PlaceGrows
    <3>3. Place(all, order, g) \in Nat /\ Place(all, order, h) \in Nat
      BY <3>1, AheadFinite
    <3>4. Place(all, order, g) < limit
      BY <1>4, <3>2, <3>3
    <3>. QED  BY <3>1, <3>4
  <2>2. Ahead(part, order, h) = Ahead(all, order, h)
    BY <2>1 DEF Ahead
  <2>. QED  BY <2>2 DEF Place
<1>. HIDE DEF sa, sp, n, m
<1>5. /\ fa \in Seq(all) /\ Len(fa) \in Nat
      /\ \A i \in Nat \ {0} : i <= Len(fa) <=> i <= limit /\ 0 + i <= n
      /\ \A i \in 1 .. Len(fa) : fa[i] = sa[0 + i]
  BY <1>2, SliceProperties
<1>6. /\ fp \in Seq(all) /\ Len(fp) \in Nat
      /\ \A i \in Nat \ {0} : i <= Len(fp) <=> i <= limit /\ 0 + i <= m
      /\ \A i \in 1 .. Len(fp) : fp[i] = sp[0 + i]
  <2>1. sp \in Seq(all)
    BY <1>3
  <2>. QED  BY <1>3, <2>1, SliceProperties
<1>. HIDE DEF fa, fp
<1>7. ASSUME NEW i \in Nat \ {0}, i <= limit, i <= n
      PROVE  i <= m /\ sp[i] = sa[i]
  <2>1. PICK h \in all : h = sa[i] /\ Place(all, order, h) = i - 1
    BY <1>2, <1>7
  <2>2. Place(all, order, h) < limit
    BY <1>7, <2>1
  <2>3. h \in part
    BY <2>2
  <2>4. Place(part, order, h) + 1 = i
    BY <1>4, <2>1, <2>2, <2>3
  <2>. QED  BY <1>3, <2>1, <2>3, <2>4
<1>8. \A i \in Nat \ {0} : i <= Len(fa) <=> i <= Len(fp)
  BY <1>1, <1>2, <1>3, <1>5, <1>6, <1>7
<1>9. Len(fa) = Len(fp)
  <2>1. Len(fa) <= Len(fp)
    <3>1. CASE Len(fa) = 0
      BY <1>6, <3>1
    <3>2. CASE Len(fa) # 0
      BY <1>5, <1>8, <3>2
    <3>. QED  BY <3>1, <3>2
  <2>2. Len(fp) <= Len(fa)
    <3>1. CASE Len(fp) = 0
      BY <1>5, <3>1
    <3>2. CASE Len(fp) # 0
      BY <1>6, <1>8, <3>2
    <3>. QED  BY <3>1, <3>2
  <2>. QED  BY <1>5, <1>6, <2>1, <2>2
<1>10. ASSUME NEW i \in 1 .. Len(fa)
       PROVE  fp[i] = fa[i]
  <2>1. i \in Nat \ {0} /\ i <= limit /\ i <= n /\ i \in 1 .. Len(fp)
    BY <1>2, <1>5, <1>9
  <2>. QED  BY <1>5, <1>6, <1>7, <2>1
<1>11. fp = fa
  BY <1>5, <1>6, <1>9, <1>10, SeqEqual
<1>. QED  BY <1>11 DEF fa, fp, sa, sp

\* The best of every part's best are the best of all.
BestOf(P, part, order, limit) == UNION {Range(Slice(Sorted(part[p], order), 0, limit)) : p \in P}

LEMMA BestOfBest ==
  ASSUME NEW all, HitSet(all), NEW P, NEW part, \A p \in P : part[p] \subseteq all,
         all = UNION {part[p] : p \in P}, NEW order, NEW limit \in Nat
  PROVE  Slice(Sorted(BestOf(P, part, order, limit), order), 0, limit) = Slice(Sorted(all, order), 0, limit)
<1> DEFINE best(p) == Range(Slice(Sorted(part[p], order), 0, limit))
           union == UNION {best(p) : p \in P}
<1>1. ASSUME NEW p \in P
      PROVE  /\ HitSet(part[p])
             /\ best(p) = {h \in part[p] : Place(part[p], order, h) < limit}
  <2>1. part[p] \in SUBSET all
    OBVIOUS
  <2>2. HitSet(part[p])
    BY <2>1, FS_Subset DEF HitSet
  <2>. QED  BY <2>2, FirstHits
<1>. HIDE DEF best
<1>2. union \in SUBSET all
  BY <1>1
<1>3. ASSUME NEW h \in all, Place(all, order, h) < limit
      PROVE  h \in union
  <2>1. PICK p \in P : h \in part[p]
    OBVIOUS
  <2>2. Ahead(part[p], order, h) \in SUBSET Ahead(all, order, h)
    BY DEF Ahead
  <2>3. IsFiniteSet(Ahead(all, order, h)) /\ Place(all, order, h) \in Nat
    BY AheadFinite
  <2>4. Place(part[p], order, h) <= Place(all, order, h)
    BY <2>2, <2>3, FS_Subset DEF Place
  <2>5. Place(part[p], order, h) \in Nat
    BY <1>1, <2>1, AheadFinite
  <2>6. Place(part[p], order, h) < limit
    BY <1>3, <2>3, <2>4, <2>5
  <2>. QED  BY <1>1, <2>1, <2>6
<1>. HIDE DEF union
<1>4. Slice(Sorted(union, order), 0, limit) = Slice(Sorted(all, order), 0, limit)
  BY <1>2, <1>3, FirstOfPart
<1>. QED  BY <1>4 DEF union, best, BestOf

-----------------------------------------------------------------------------
(* Searching the shards.                                                   *)

IndexTyped ==
  \A s \in IndexShards : \A d \in DOMAIN documents[s] :
    d \in DocumentIds /\ ShardOf[d] = s /\ documents[s][d] \in Contents

SearchInv == IndexInv /\ IndexTyped

\* The values of a function on a finite set.
LEMMA ImageFinite ==
  ASSUME NEW S, IsFiniteSet(S), NEW f, DOMAIN f = S
  PROVE  IsFiniteSet({f[x] : x \in S}) /\ Cardinality({f[x] : x \in S}) <= Cardinality(S)
<1> DEFINE T == {f[x] : x \in S}
           g == [x \in S |-> f[x]]
<1>1. g \in Surjection(S, T)
  BY DEF Surjection
<1>. HIDE DEF g, T
<1>2. IsFiniteSet(T) /\ Cardinality(T) <= Cardinality(S)
  BY <1>1, FS_Surjection
<1>. QED  BY <1>2 DEF T

\* A sum of counts is a count.
LEMMA TotalType ==
  ASSUME NEW n \in Nat, NEW counts \in [1 .. n -> Nat]
  PROVE  Total(counts) \in Nat
<1> DEFINE pairs == [i \in 1 .. n |-> {i} \X (1 .. counts[i])]
           parts == {pairs[i] : i \in 1 .. n}
<1>1. ASSUME NEW i \in 1 .. n
      PROVE  IsFiniteSet(pairs[i])
  <2>1. IsFiniteSet({i}) /\ IsFiniteSet(1 .. counts[i])
    <3>1. counts[i] \in Int /\ 1 \in Int
      OBVIOUS
    <3>. QED  BY <3>1, FS_Singleton, FS_Interval
  <2>2. IsFiniteSet({i} \X (1 .. counts[i]))
    BY <2>1, FS_Product
  <2>. QED  BY <2>2
<1>2. IsFiniteSet(1 .. n)
  BY FS_Interval
<1>3. IsFiniteSet(parts)
  <2>1. DOMAIN pairs = 1 .. n
    OBVIOUS
  <2>. HIDE DEF pairs
  <2>. QED  BY <1>2, <2>1, ImageFinite
<1>4. \A T \in parts : IsFiniteSet(T)
  BY <1>1
<1>. HIDE DEF parts, pairs
<1>5. IsFiniteSet(UNION parts)
  BY <1>3, <1>4, FS_UNION
<1>6. DOMAIN counts = 1 .. n
  OBVIOUS
<1>7. Total(counts) = Cardinality(UNION parts)
  <2>1. parts = {{i} \X (1 .. counts[i]) : i \in 1 .. n}
    BY DEF parts, pairs
  <2>. QED  BY <1>6, <2>1 DEF Total
<1>. QED  BY <1>5, <1>7, FS_CardinalityType

LEMMA FrequencyType ==
  ASSUME NEW text \in Contents, NEW w
  PROVE  /\ Frequency(text.words, w) \in Nat
         /\ w \notin Range(text.words) => Frequency(text.words, w) = 0
<1> DEFINE at == {i \in DOMAIN text.words : text.words[i] = w}
<1>1. PICK n \in Nat : DOMAIN text.words = 1 .. n
  <2>1. text \in [words : Seq(STRING), rank : Int]
    BY IndexAssumption
  <2>2. text.words \in Seq(STRING)
    BY <2>1
  <2>. QED  BY <2>2, LenProperties
<1>2. at \in SUBSET (1 .. n) /\ IsFiniteSet(1 .. n)
  BY <1>1, FS_Interval
<1>3. IsFiniteSet(at)
  BY <1>2, FS_Subset
<1>4. w \notin Range(text.words) => at = {}
  BY DEF Range
<1>. HIDE DEF at
<1>5. Cardinality(at) \in Nat /\ (at = {} => Cardinality(at) = 0)
  BY <1>3, FS_CardinalityType, FS_EmptySet
<1>. QED  BY <1>4, <1>5 DEF Frequency, at

\* The hits of a shard.
ShardHits(s, query) == {Hit(d, Score(s, query, d), documents[s][d].rank) : d \in Found(s, query)}

LEMMA InIndex ==
  ASSUME SearchInv, NEW s \in IndexShards, NEW d \in DOMAIN documents[s], NEW w
  PROVE  /\ Listed(s, w, d) <=> HasWord(s, d, w)
         /\ Listed(s, w, d) => postings[s][w][d] = Frequency(documents[s][d].words, w)
<1>1. PICK docs : docs = documents[s] /\ postings[s] = PostingsOf(docs)
  BY DEF SearchInv, IndexInv
<1>2. /\ DOMAIN PostingsOf(docs) = WordsOf(docs)
      /\ \A v : v \in WordsOf(docs) <=> Having(docs, v) # {}
  BY Postings
<1>3. \A v \in WordsOf(docs) : PostingsOf(docs)[v] = [e \in Having(docs, v) |-> Frequency(docs[e].words, v)]
  BY DEF PostingsOf
<1>4. d \in Having(docs, w) <=> HasWord(s, d, w)
  BY <1>1 DEF Having, HasWord
<1>5. w \in DOMAIN postings[s] <=> Having(docs, w) # {}
  BY <1>1, <1>2
<1>6. ASSUME w \in WordsOf(docs)
      PROVE  /\ DOMAIN postings[s][w] = Having(docs, w)
             /\ \A e \in Having(docs, w) : postings[s][w][e] = Frequency(docs[e].words, w)
  <2>1. postings[s][w] = [e \in Having(docs, w) |-> Frequency(docs[e].words, w)]
    BY <1>1, <1>3, <1>6
  <2>. QED  BY <2>1
<1>7. CASE w \in WordsOf(docs)
  <2>1. Listed(s, w, d) <=> d \in Having(docs, w)
    BY <1>1, <1>2, <1>6, <1>7 DEF Listed
  <2>. QED  BY <1>1, <1>4, <1>6, <1>7, <2>1
<1>8. CASE w \notin WordsOf(docs)
  <2>1. ~Listed(s, w, d) /\ d \notin Having(docs, w)
    BY <1>1, <1>2, <1>8 DEF Listed
  <2>. QED  BY <1>4, <2>1
<1>. QED  BY <1>7, <1>8

LEMMA ScoreIsRelevance ==
  ASSUME SearchInv, NEW query \in Queries, NEW s \in IndexShards, NEW d \in DOMAIN documents[s]
  PROVE  /\ Score(s, query, d) = Relevance(query, d)
         /\ Relevance(query, d) \in Nat
         /\ ShardOf[d] = s /\ d \in DocumentIds /\ documents[s][d].rank \in Int
<1>1. d \in DocumentIds /\ ShardOf[d] = s /\ documents[s][d] \in Contents
  BY DEF SearchInv, IndexTyped
<1>2. PICK n \in Nat : DOMAIN query = 1 .. n
  <2>1. query \in Seq(STRING)
    BY IndexAssumption
  <2>. QED  BY <2>1, LenProperties
<1> DEFINE count(w) == Frequency(documents[s][d].words, w)
           listed(w) == IF Listed(s, w, d) THEN postings[s][w][d] ELSE 0
<1>3. ASSUME NEW w
      PROVE  count(w) \in Nat /\ listed(w) = count(w)
  <2>1. count(w) \in Nat /\ (w \notin Range(documents[s][d].words) => count(w) = 0)
    BY <1>1, FrequencyType
  <2>. QED  BY <2>1, InIndex DEF HasWord
<1>. HIDE DEF count, listed
<1>4. [i \in DOMAIN query |-> listed(query[i])] = [i \in DOMAIN query |-> count(query[i])]
  BY <1>3
<1>5. Score(s, query, d) = Total([i \in DOMAIN query |-> listed(query[i])])
  BY DEF Score, listed
<1>6. Relevance(query, d) = Total([i \in DOMAIN query |-> count(query[i])])
  BY <1>1 DEF Relevance, count
<1>7. [i \in DOMAIN query |-> count(query[i])] \in [1 .. n -> Nat]
  BY <1>2, <1>3
<1>8. Total([i \in DOMAIN query |-> count(query[i])]) \in Nat
  BY <1>7, TotalType
<1>9. documents[s][d].rank \in Int
  <2>1. documents[s][d] \in [words : Seq(STRING), rank : Int]
    BY <1>1, IndexAssumption
  <2>. QED  BY <2>1
<1>. QED  BY <1>1, <1>4, <1>5, <1>6, <1>8, <1>9

\* What is found in the shards is what matches.
LEMMA FoundIsMatching ==
  ASSUME SearchInv, NEW query \in Queries
  PROVE  /\ \A s \in IndexShards : \A d \in Found(s, query) :
              d \in Matches(query) /\ ShardOf[d] = s /\ d \in DOMAIN documents[s]
         /\ \A d \in Matches(query) :
              /\ d \in DocumentIds /\ ShardOf[d] \in IndexShards
              /\ d \in DOMAIN documents[ShardOf[d]] /\ d \in Found(ShardOf[d], query)
<1>1. ASSUME NEW s \in IndexShards, NEW d \in DOMAIN documents[s]
      PROVE  /\ d \in DocumentIds /\ ShardOf[d] = s
             /\ d \in Found(s, query) <=> \E w \in Range(query) : HasWord(s, d, w)
  <2>1. d \in DocumentIds /\ ShardOf[d] = s
    BY DEF SearchInv, IndexTyped
  <2>2. \A w : Listed(s, w, d) <=> HasWord(s, d, w)
    BY InIndex
  <2>. QED  BY <2>1, <2>2 DEF Found
<1>2. \A d \in DocumentIds : ShardOf[d] \in IndexShards
  BY DEF IndexShards
<1>3. \A s \in IndexShards : Found(s, query) \subseteq DOMAIN documents[s]
  BY DEF Found
<1>4. Matches(query) \subseteq Stored /\ Stored \subseteq DocumentIds
  BY DEF Matches, Stored
<1>5. \A d \in Stored : d \in DOMAIN documents[ShardOf[d]]
  BY DEF Stored
<1>6. ASSUME NEW s \in IndexShards, NEW d \in Found(s, query)
      PROVE  d \in Matches(query) /\ ShardOf[d] = s /\ d \in DOMAIN documents[s]
  BY <1>1, <1>3 DEF Matches, Stored
<1>7. ASSUME NEW d \in Matches(query)
      PROVE  /\ d \in DocumentIds /\ ShardOf[d] \in IndexShards
             /\ d \in DOMAIN documents[ShardOf[d]] /\ d \in Found(ShardOf[d], query)
  <2>1. \E w \in Range(query) : HasWord(ShardOf[d], d, w)
    BY DEF Matches
  <2>. QED  BY <1>1, <1>2, <1>4, <1>5, <2>1
<1>. QED  BY <1>6, <1>7

LEMMA HitFields ==
  ASSUME NEW d, NEW score, NEW rank
  PROVE  /\ Hit(d, score, rank).id = d
         /\ d \in Int /\ score \in Int /\ rank \in Int => Hit(d, score, rank) \in HitType
BY DEF Hit, HitType

\* The hits of some documents, with some scores.
LEMMA HitsOfDocuments ==
  ASSUME NEW D \in SUBSET DocumentIds, NEW hit, DOMAIN hit = D,
         \A d \in D : hit[d] \in HitType /\ hit[d].id = d
  PROVE  /\ HitSet({hit[d] : d \in D})
         /\ Cardinality({hit[d] : d \in D}) <= Cardinality(DocumentIds)
<1>1. IsFiniteSet(D) /\ Cardinality(D) <= Cardinality(DocumentIds)
  BY FS_Subset, IndexAssumption
<1>2. /\ IsFiniteSet({hit[d] : d \in D})
      /\ Cardinality({hit[d] : d \in D}) <= Cardinality(D)
  BY <1>1, ImageFinite
<1>3. HitSet({hit[d] : d \in D})
  BY <1>2 DEF HitSet
<1>4. /\ Cardinality({hit[d] : d \in D}) \in Nat
      /\ Cardinality(D) \in Nat /\ Cardinality(DocumentIds) \in Nat
  BY <1>1, <1>2, FS_CardinalityType, IndexAssumption
<1>. QED  BY <1>1, <1>2, <1>3, <1>4

LEMMA SearchFindsBest ==
  ASSUME SearchInv
  PROVE  SearchIsGlobal
<1>. SUFFICES ASSUME NEW query \in Queries, NEW limit \in 1 .. Cardinality(DocumentIds)
              PROVE  Search(query, limit) =
                       Slice(Sorted({Hit(d, Relevance(query, d), documents[ShardOf[d]][d].rank) : d \in Matches(query)},
                                    "none"), 0, limit)
  BY DEF SearchIsGlobal
<1> DEFINE hit == [d \in Matches(query) |-> Hit(d, Relevance(query, d), documents[ShardOf[d]][d].rank)]
           all == {hit[d] : d \in Matches(query)}
           part == [s \in IndexShards |-> ShardHits(s, query)]
<1>1. limit \in Nat
  BY FS_CardinalityType, IndexAssumption
<1>2. /\ \A s \in IndexShards : \A d \in Found(s, query) :
           d \in Matches(query) /\ ShardOf[d] = s /\ d \in DOMAIN documents[s]
      /\ \A d \in Matches(query) :
           /\ d \in DocumentIds /\ ShardOf[d] \in IndexShards
           /\ d \in DOMAIN documents[ShardOf[d]] /\ d \in Found(ShardOf[d], query)
  BY FoundIsMatching
<1>3. ASSUME NEW d \in Matches(query)
      PROVE  hit[d] \in HitType /\ hit[d].id = d
  <2>1. Relevance(query, d) \in Int /\ documents[ShardOf[d]][d].rank \in Int /\ d \in Int
    <3>1. Relevance(query, d) \in Nat /\ documents[ShardOf[d]][d].rank \in Int
      BY <1>2, ScoreIsRelevance
    <3>2. d \in DocumentIds /\ DocumentIds \subseteq Int
      BY <1>2, IndexAssumption
    <3>. QED  BY <3>1, <3>2
  <2>. QED  BY <2>1, HitFields
<1>4. ASSUME NEW s \in IndexShards
      PROVE  part[s] = {hit[d] : d \in Found(s, query)}
  <2>1. \A d \in Found(s, query) : Hit(d, Score(s, query, d), documents[s][d].rank) = hit[d]
    BY <1>2, ScoreIsRelevance
  <2>. QED  BY <2>1 DEF ShardHits
<1>5. HitSet(all)
  <2>1. Matches(query) \in SUBSET DocumentIds /\ DOMAIN hit = Matches(query)
    BY <1>2
  <2>. HIDE DEF hit
  <2>. QED  BY <1>3, <2>1, HitsOfDocuments
<1>. HIDE DEF part, hit
<1>6. all = UNION {part[s] : s \in IndexShards}
  BY <1>2, <1>4
<1>7. \A s \in IndexShards : part[s] \subseteq all
  BY <1>6
<1>. HIDE DEF all
<1>0. PICK order : order = "none"
  OBVIOUS
<1>8. Slice(Sorted(BestOf(IndexShards, part, order, limit), order), 0, limit) = Slice(Sorted(all, order), 0, limit)
  BY <1>1, <1>5, <1>6, <1>7, BestOfBest
<1>9. BestOf(IndexShards, part, order, limit) = UNION {Range(ShardSearch(s, query, limit)) : s \in IndexShards}
  <2>1. \A s \in IndexShards : Slice(Sorted(part[s], order), 0, limit) = ShardSearch(s, query, limit)
    BY <1>0 DEF part, ShardHits, ShardSearch
  <2>. QED  BY <2>1 DEF BestOf
<1>10. all = {Hit(d, Relevance(query, d), documents[ShardOf[d]][d].rank) : d \in Matches(query)}
  BY DEF all, hit
<1>. QED  BY <1>0, <1>8, <1>9, <1>10 DEF Search

-----------------------------------------------------------------------------
(* Pages.                                                                  *)

StartOf(n, page) == (page - 1) * n

LEMMA Products ==
  ASSUME NEW a \in Nat, NEW b \in Nat, NEW n \in Nat
  PROVE  /\ a * n \in Nat /\ b * n \in Nat
         /\ (a + 1) * n = a * n + n
         /\ a < b => a * n + n <= b * n
<1>1. /\ a * n \in Nat /\ b * n \in Nat
      /\ (a + 1) * n = a * n + n
  OBVIOUS
<1>2. ASSUME a < b
      PROVE  a * n + n <= b * n
  <2>1. PICK k \in Nat : b = a + 1 + k
    <3>1. b - a - 1 \in Nat /\ b = a + 1 + (b - a - 1)
      BY <1>2
    <3>. QED  BY <3>1
  <2>2. b * n = a * n + n + k * n
    BY <2>1
  <2>3. k * n \in Nat
    OBVIOUS
  <2>. QED  BY <1>1, <2>2, <2>3
<1>. QED  BY <1>1, <1>2

\* Every position is on one page of n.
LEMMA OnSomePage ==
  ASSUME NEW r \in Nat, NEW n \in Nat \ {0}
  PROVE  \E p \in 1 .. r + 1, i \in 1 .. n : r = StartOf(n, p) + i - 1 /\ StartOf(n, p) \in Nat
<1> DEFINE past == {k \in Nat : r < k * n}
<1>1. r + 1 \in past
  <2>1. (r + 1) * n = r * n + n /\ r * n \in Nat
    BY Products
  <2>2. r <= r * n
    <3>1. PICK k \in Nat : n = k + 1
      <4>1. n - 1 \in Nat /\ n = (n - 1) + 1
        OBVIOUS
      <4>. QED  BY <4>1
    <3>2. r * n = r * k + r /\ r * k \in Nat
      BY <3>1
    <3>. QED  BY <3>2
  <2>. QED  BY <2>1, <2>2
<1>2. PICK p \in past : \A k \in past : p <= k
  <2>1. past \in SUBSET Nat /\ past # {}
    BY <1>1
  <2>. HIDE DEF past
  <2>. QED  BY <2>1, Smallest
<1>3. p \in Nat /\ r < p * n /\ p <= r + 1
  BY <1>1, <1>2
<1>4. p # 0
  BY <1>3
<1>5. p - 1 \in Nat /\ p - 1 \notin past
  BY <1>2, <1>3, <1>4
<1>6. PICK q \in Nat : q = p - 1
  BY <1>5
<1>7. q * n \in Nat /\ (q + 1) * n = q * n + n
  BY Products
<1>8. q * n <= r
  BY <1>5, <1>6, <1>7
<1>9. r < q * n + n
  <2>1. p = q + 1
    BY <1>3, <1>6
  <2>. QED  BY <1>3, <1>7, <2>1
<1> DEFINE i == r - q * n + 1
<1>10. i \in 1 .. n /\ r = q * n + i - 1
  BY <1>7, <1>8, <1>9
<1>. HIDE DEF i
<1>11. p \in 1 .. r + 1
  BY <1>3, <1>4
<1>. QED  BY <1>6, <1>7, <1>10, <1>11 DEF StartOf

\* Sorted hits on pages of n.
PageOf(hits, order, n, page) == Slice(Sorted(hits, order), (page - 1) * n, n)
Pages(hits, order, n, last) ==
  UNION {LET list == PageOf(hits, order, n, page)
         IN  {[page |-> page, place |-> i, hit |-> list[i]] : i \in DOMAIN list} : page \in 1 .. last}

\* What a page holds.
PageHolds(hits, order, n, page) ==
  /\ StartOf(n, page) \in Nat
  /\ \A i : i \in DOMAIN PageOf(hits, order, n, page)
            <=> i \in 1 .. n /\ StartOf(n, page) + i <= Cardinality(hits)
  /\ \A i \in DOMAIN PageOf(hits, order, n, page) :
       /\ PageOf(hits, order, n, page)[i] \in hits
       /\ Place(hits, order, PageOf(hits, order, n, page)[i]) = StartOf(n, page) + i - 1

LEMMA PagePlaces ==
  ASSUME NEW hits, HitSet(hits), NEW order, NEW n \in Nat \ {0}, NEW page \in Nat \ {0}
  PROVE  PageHolds(hits, order, n, page)
<1> DEFINE start == (page - 1) * n
           sorted == Sorted(hits, order)
           list == Slice(sorted, start, n)
           size == Cardinality(hits)
<1>1. start \in Nat
  <2>1. page - 1 \in Nat
    OBVIOUS
  <2>. QED  BY <2>1, Products
<1>2. /\ sorted \in Seq(hits) /\ size \in Nat /\ Len(sorted) = size
      /\ \A k \in 1 .. size : sorted[k] \in hits /\ Place(hits, order, sorted[k]) = k - 1
  BY SortedProperties
<1>. HIDE DEF sorted, start, size
<1>3. /\ list \in Seq(hits) /\ Len(list) \in Nat
      /\ \A i \in Nat \ {0} : i <= Len(list) <=> i <= n /\ start + i <= size
      /\ \A i \in 1 .. Len(list) : list[i] = sorted[start + i]
  BY <1>1, <1>2, SliceProperties
<1>. HIDE DEF list
<1>4. DOMAIN list = {i \in 1 .. n : start + i <= size}
  <2>1. DOMAIN list = 1 .. Len(list)
    BY <1>3
  <2>2. ASSUME NEW i \in 1 .. Len(list)
        PROVE  i \in 1 .. n /\ start + i <= size
    <3>1. i \in Nat \ {0} /\ i <= Len(list)
      BY <1>3
    <3>2. i <= n /\ start + i <= size
      BY <1>3, <3>1
    <3>. QED  BY <3>1, <3>2
  <2>3. ASSUME NEW i \in 1 .. n, start + i <= size
        PROVE  i \in 1 .. Len(list)
    <3>1. i \in Nat \ {0} /\ i <= n
      OBVIOUS
    <3>2. i <= Len(list)
      BY <1>3, <2>3, <3>1
    <3>. QED  BY <1>3, <3>1, <3>2
  <2>4. 1 .. Len(list) = {i \in 1 .. n : start + i <= size}
    <3> DEFINE Onto == {i \in 1 .. n : start + i <= size}
    <3>1. \A i \in 1 .. Len(list) : i \in Onto
      BY <2>2
    <3>2. \A i \in Onto : i \in 1 .. Len(list)
      BY <2>3
    <3>. HIDE DEF Onto
    <3>3. 1 .. Len(list) = Onto
      BY <3>1, <3>2
    <3>. QED  BY <3>3 DEF Onto
  <2>. QED  BY <2>1, <2>4
<1>5. ASSUME NEW i \in DOMAIN list
      PROVE  list[i] \in hits /\ Place(hits, order, list[i]) = start + i - 1
  <2>1. i \in 1 .. Len(list) /\ start + i \in 1 .. size
    BY <1>1, <1>2, <1>3, <1>4
  <2>2. list[i] = sorted[start + i]
    BY <1>3, <2>1
  <2>3. sorted[start + i] \in hits /\ Place(hits, order, sorted[start + i]) = start + i - 1
    <3>1. PICK k \in 1 .. size : k = start + i
      BY <2>1
    <3>2. sorted[k] \in hits /\ Place(hits, order, sorted[k]) = k - 1
      BY <1>2
    <3>. QED  BY <1>1, <1>4, <3>1, <3>2
  <2>. QED  BY <2>2, <2>3
<1>. QED  BY <1>1, <1>4, <1>5 DEF list, start, sorted, size, PageOf, StartOf, PageHolds

\* The pages have every hit, at its place.
LEMMA PagesHold ==
  ASSUME NEW hits, HitSet(hits), NEW order, NEW n \in Nat \ {0}, NEW last \in Nat, Cardinality(hits) <= last
  PROVE  /\ \A x \in Pages(hits, order, n, last) :
              /\ x.page \in 1 .. last /\ x.place \in 1 .. n /\ x.hit \in hits
              /\ Place(hits, order, x.hit) = StartOf(n, x.page) + x.place - 1
         /\ \A h \in hits : \E x \in Pages(hits, order, n, last) : x.hit = h
<1> DEFINE List(page) == PageOf(hits, order, n, page)
           pages == Pages(hits, order, n, last)
<1>1. ASSUME NEW x \in pages
      PROVE  \E page \in 1 .. last : \E i \in DOMAIN List(page) :
               x = [page |-> page, place |-> i, hit |-> List(page)[i]]
  BY DEF Pages
<1>2. ASSUME NEW page \in 1 .. last, NEW i \in DOMAIN List(page)
      PROVE  \E x \in pages : x.hit = List(page)[i]
  <2>1. [page |-> page, place |-> i, hit |-> List(page)[i]] \in pages
    BY DEF Pages
  <2>. QED  BY <2>1
<1>. HIDE DEF pages
<1>3. ASSUME NEW page \in 1 .. last
      PROVE  /\ page \in Nat \ {0} /\ StartOf(n, page) \in Nat
             /\ \A i : i \in DOMAIN List(page) <=> i \in 1 .. n /\ StartOf(n, page) + i <= Cardinality(hits)
             /\ \A i \in DOMAIN List(page) :
                  List(page)[i] \in hits /\ Place(hits, order, List(page)[i]) = StartOf(n, page) + i - 1
  <2>1. page \in Nat \ {0}
    OBVIOUS
  <2>2. PageHolds(hits, order, n, page)
    BY <2>1, PagePlaces
  <2>. QED  BY <2>1, <2>2 DEF PageHolds
<1>. HIDE DEF List
<1>4. ASSUME NEW x \in pages
      PROVE  /\ x.page \in 1 .. last /\ x.place \in 1 .. n /\ x.hit \in hits
             /\ Place(hits, order, x.hit) = StartOf(n, x.page) + x.place - 1
  <2>0. PICK page \in 1 .. last :
          \E i \in DOMAIN List(page) : x = [page |-> page, place |-> i, hit |-> List(page)[i]]
    BY <1>1
  <2>1. PICK i \in DOMAIN List(page) : x = [page |-> page, place |-> i, hit |-> List(page)[i]]
    BY <2>0
  <2>2. x.page = page /\ x.place = i /\ x.hit = List(page)[i]
    BY <2>1
  <2>3. i \in 1 .. n
    BY <1>3
  <2>. QED  BY <1>3, <2>2, <2>3
<1>5. ASSUME NEW h \in hits
      PROVE  \E x \in pages : x.hit = h
  <2>1. PICK r \in Nat : r = Place(hits, order, h) /\ r + 1 <= Cardinality(hits) /\ Cardinality(hits) \in Nat
    <3>1. Cardinality(hits) \in Nat /\ Place(hits, order, h) \in 0 .. Cardinality(hits) - 1
      BY PlacesTaken
    <3>. QED  BY <3>1
  <2>2. PICK p \in 1 .. r + 1, i \in 1 .. n : r = StartOf(n, p) + i - 1 /\ StartOf(n, p) \in Nat
    BY OnSomePage
  <2>3. p \in 1 .. last
    BY <2>1, <2>2
  <2>4. i \in DOMAIN List(p)
    <3>1. PICK start \in Nat : start = StartOf(n, p)
      BY <2>2 DEF StartOf
    <3>2. r = start + i - 1
      BY <2>2, <3>1 DEF StartOf
    <3>3. start + i <= Cardinality(hits)
      BY <2>1, <3>2
    <3>. QED  BY <1>3, <2>3, <3>1, <3>3
  <2>5. List(p)[i] = h
    <3>1. List(p)[i] \in hits /\ Place(hits, order, List(p)[i]) = Place(hits, order, h)
      BY <1>3, <2>1, <2>2, <2>3, <2>4
    <3>. QED  BY <3>1, PlacesDiffer
  <2>. QED  BY <1>2, <2>3, <2>4, <2>5
<1>. QED  BY <1>4, <1>5 DEF pages

\* A later place on the pages is a later place in the order.
LEMMA PagesInOrder ==
  ASSUME NEW hits, HitSet(hits), NEW order, NEW n \in Nat \ {0}, NEW last \in Nat, Cardinality(hits) <= last,
         NEW x \in Pages(hits, order, n, last), NEW y \in Pages(hits, order, n, last), Follows(x, y)
  PROVE  x.hit.id # y.hit.id /\ ~Precedes(order, x.hit, y.hit)
<1>1. /\ x.page \in 1 .. last /\ x.place \in 1 .. n /\ x.hit \in hits
      /\ Place(hits, order, x.hit) = StartOf(n, x.page) + x.place - 1
  BY PagesHold
<1>2. /\ y.page \in 1 .. last /\ y.place \in 1 .. n /\ y.hit \in hits
      /\ Place(hits, order, y.hit) = StartOf(n, y.page) + y.place - 1
  BY PagesHold
<1>3. PICK a \in Nat, b \in Nat : a = x.page - 1 /\ b = y.page - 1
  <2>1. x.page - 1 \in Nat /\ y.page - 1 \in Nat
    BY <1>1, <1>2
  <2>. QED  BY <2>1
<1>4. PICK i \in 1 .. n, j \in 1 .. n : i = x.place /\ j = y.place
  BY <1>1, <1>2
<1>5. /\ Place(hits, order, x.hit) = a * n + i - 1
      /\ Place(hits, order, y.hit) = b * n + j - 1
  BY <1>1, <1>2, <1>3, <1>4 DEF StartOf
<1>6. b < a \/ (b = a /\ j < i)
  BY <1>1, <1>2, <1>3, <1>4 DEF Follows
<1>7. a * n \in Nat /\ b * n \in Nat /\ (b < a => b * n + n <= a * n)
  BY Products
<1>8. b * n + j - 1 < a * n + i - 1
  <2>1. CASE b < a
    BY <1>7, <2>1
  <2>2. CASE b = a /\ j < i
    BY <1>7, <2>2
  <2>. QED  BY <1>6, <2>1, <2>2
<1>9. Place(hits, order, y.hit) < Place(hits, order, x.hit)
  BY <1>5, <1>8
<1>10. x.hit # y.hit
  <2>1. Place(hits, order, x.hit) \in Nat
    BY <1>1, AheadFinite
  <2>. QED  BY <1>9, <2>1
<1>11. ~Precedes(order, x.hit, y.hit)
  <2>1. ASSUME Precedes(order, x.hit, y.hit)
        PROVE  FALSE
    <3>1. Place(hits, order, x.hit) < Place(hits, order, y.hit)
      BY <1>1, <1>2, <2>1, PlaceGrows
    <3>2. Place(hits, order, x.hit) \in Nat /\ Place(hits, order, y.hit) \in Nat
      BY <1>1, <1>2, AheadFinite
    <3>. QED  BY <1>9, <3>1, <3>2
  <2>. QED  BY <2>1
<1>. QED  BY <1>1, <1>2, <1>10, <1>11 DEF HitSet

LEMMA PagesShowHits ==
  ASSUME SearchInv
  PROVE  PagesCoverHits
<1>. SUFFICES ASSUME NEW query \in Queries, NEW order, NEW perPage \in 1 .. MaxPerPage,
                     NEW score \in [Matches(query) -> 1 .. MaxScore]
              PROVE  /\ {x.hit.id : x \in Shown(query, score, order, perPage)} = Matches(query)
                     /\ \A x, y \in Shown(query, score, order, perPage) :
                          Follows(x, y) => x.hit.id # y.hit.id /\ ~Precedes(order, x.hit, y.hit)
  BY DEF PagesCoverHits
<1> DEFINE hit == [d \in Matches(query) |-> Hit(d, score[d], documents[ShardOf[d]][d].rank)]
           hits == {hit[d] : d \in Matches(query)}
           shown == Shown(query, score, order, perPage)
           last == Cardinality(DocumentIds)
<1>1. /\ \A s \in IndexShards : \A d \in Found(s, query) :
           d \in Matches(query) /\ ShardOf[d] = s /\ d \in DOMAIN documents[s]
      /\ \A d \in Matches(query) :
           /\ d \in DocumentIds /\ ShardOf[d] \in IndexShards
           /\ d \in DOMAIN documents[ShardOf[d]] /\ d \in Found(ShardOf[d], query)
  BY FoundIsMatching
<1>2. ASSUME NEW d \in Matches(query)
      PROVE  hit[d] \in HitType /\ hit[d].id = d
  <2>1. documents[ShardOf[d]][d].rank \in Int
    BY <1>1, ScoreIsRelevance
  <2>2. d \in DocumentIds /\ DocumentIds \subseteq Int
    BY <1>1, IndexAssumption
  <2>3. score[d] \in 1 .. MaxScore
    OBVIOUS
  <2>. QED  BY <2>1, <2>2, <2>3, HitFields
<1>3. HitSet(hits) /\ Cardinality(hits) <= last
  <2>1. Matches(query) \in SUBSET DocumentIds /\ DOMAIN hit = Matches(query)
    BY <1>1
  <2>. HIDE DEF hit
  <2>. QED  BY <1>2, <2>1, HitsOfDocuments
<1>4. last \in Nat
  BY FS_CardinalityType, IndexAssumption
<1>5. perPage \in Nat \ {0}
  BY IndexAssumption
<1>6. shown = Pages(hits, order, perPage, last)
  <2>1. UNION {Found(s, query) : s \in IndexShards} = Matches(query)
    BY <1>1
  <2>2. {Hit(d, score[d], documents[ShardOf[d]][d].rank) : d \in UNION {Found(s, query) : s \in IndexShards}} = hits
    BY <2>1
  <2>. HIDE DEF hits
  <2>3. \A page : Page(query, score, order, page, perPage) = PageOf(hits, order, perPage, page)
    BY <2>2 DEF Page, PageOf
  <2>. QED  BY <2>3 DEF Shown, Pages
<1>7. \A h \in hits : h.id \in Matches(query)
  BY <1>2
<1>8. \A d \in Matches(query) : hit[d] \in hits /\ hit[d].id = d
  BY <1>2
<1>. HIDE DEF hit, hits, shown, last
<1>9. /\ \A x \in shown : x.hit \in hits
      /\ \A h \in hits : \E x \in shown : x.hit = h
  <2>1. /\ \A x \in Pages(hits, order, perPage, last) : x.hit \in hits
        /\ \A h \in hits : \E x \in Pages(hits, order, perPage, last) : x.hit = h
    <3>. HIDE DEF last, hits
    <3>. QED  BY <1>3, <1>4, <1>5, PagesHold
  <2>. QED  BY <1>6, <2>1
<1>10. {x.hit.id : x \in shown} = Matches(query)
  <2>1. \A x \in shown : x.hit.id \in Matches(query)
    BY <1>7, <1>9
  <2>2. ASSUME NEW d \in Matches(query)
        PROVE  \E x \in shown : x.hit.id = d
    <3>1. PICK x \in shown : x.hit = hit[d]
      BY <1>8, <1>9
    <3>. QED  BY <1>8, <3>1
  <2>. QED  BY <2>1, <2>2
<1>11. ASSUME NEW x \in shown, NEW y \in shown, Follows(x, y)
       PROVE  x.hit.id # y.hit.id /\ ~Precedes(order, x.hit, y.hit)
  BY <1>3, <1>4, <1>5, <1>6, <1>11, PagesInOrder
<1>. QED  BY <1>10, <1>11 DEF shown

-----------------------------------------------------------------------------
LEMMA InitSearch == IndexInit => SearchInv
<1>. SUFFICES ASSUME IndexInit
              PROVE  SearchInv
  OBVIOUS
<1>1. \A s \in IndexShards : DOMAIN documents[s] = {}
  BY DEF IndexInit, NoDocument
<1>. QED  BY <1>1, InitIndex DEF SearchInv, IndexTyped

LEMMA StepSearch == SearchInv /\ [IndexNext]_indexVars => SearchInv'
<1>. SUFFICES ASSUME SearchInv, [IndexNext]_indexVars
              PROVE  IndexTyped'
  BY StepIndex DEF SearchInv
<1>1. CASE UNCHANGED indexVars
  BY <1>1 DEF indexVars, SearchInv, IndexTyped
<1>2. ASSUME NEW d \in DocumentIds, NEW new \in Contents, AddDocument(d, new)
      PROVE  IndexTyped'
  <2>1. PICK s \in IndexShards : s = ShardOf[d]
    BY DEF IndexShards
  <2>2. documents' = [documents EXCEPT ![s] = With(documents[s], d, new)]
    BY <1>2, <2>1 DEF AddDocument
  <2>3. /\ documents'[s] = With(documents[s], d, new)
        /\ \A r \in IndexShards \ {s} : documents'[r] = documents[r]
    BY <2>2 DEF SearchInv, IndexInv
  <2>4. /\ DOMAIN With(documents[s], d, new) = DOMAIN documents[s] \cup {d}
        /\ With(documents[s], d, new)[d] = new
        /\ \A e \in DOMAIN documents[s] \ {d} : With(documents[s], d, new)[e] = documents[s][e]
    BY DEF With
  <2>. QED  BY <2>1, <2>3, <2>4 DEF SearchInv, IndexTyped
<1>3. ASSUME NEW d \in DocumentIds, DeleteDocument(d)
      PROVE  IndexTyped'
  <2>1. PICK s \in IndexShards : s = ShardOf[d]
    BY DEF IndexShards
  <2>2. documents' = [documents EXCEPT ![s] = Without(documents[s], {d})]
    BY <1>3, <2>1 DEF DeleteDocument
  <2>3. /\ documents'[s] = Without(documents[s], {d})
        /\ \A r \in IndexShards \ {s} : documents'[r] = documents[r]
    BY <2>2 DEF SearchInv, IndexInv
  <2>4. /\ DOMAIN Without(documents[s], {d}) = DOMAIN documents[s] \ {d}
        /\ \A e \in DOMAIN documents[s] \ {d} : Without(documents[s], {d})[e] = documents[s][e]
    BY WithoutDocument
  <2>5. ASSUME NEW r \in IndexShards, NEW e \in DOMAIN documents'[r]
        PROVE  e \in DocumentIds /\ ShardOf[e] = r /\ documents'[r][e] \in Contents
    <3>1. e \in DOMAIN documents[r] /\ documents'[r][e] = documents[r][e]
      BY <2>3, <2>4, <2>5
    <3>. QED  BY <3>1 DEF SearchInv, IndexTyped
  <2>. QED  BY <2>5 DEF IndexTyped
<1>. QED  BY <1>1, <1>2, <1>3 DEF IndexNext

\* Searching every shard for its best hits only, and merging them (coordinator.py
\* search), finds what one index of all documents would find, in the same order, for
\* any documents, shards, queries and limits.
THEOREM SearchAlwaysGlobal == IndexSpec => []SearchIsGlobal
<1>. QED  BY InitSearch, StepSearch, SearchFindsBest, PTL DEF IndexSpec

\* Whatever the length of the pages, the field to sort by and the scores, the pages of
\* a search show every hit once and in one order (coordinator.py search).
THEOREM PagesAlwaysCover == IndexSpec => []PagesCoverHits
<1>. QED  BY InitSearch, StepSearch, PagesShowHits, PTL DEF IndexSpec

-----------------------------------------------------------------------------
(* The requests of the client library.                                     *)

LEMMA TwoJoinedIn ==
  ASSUME NEW S, NEW a \in S, NEW b \in S
  PROVE  <<a>> \o <<b>> = <<a, b>>
<1> DEFINE s == <<a>> \o <<b>>
           t == <<a, b>>
<1>1. s \in Seq(S) /\ Len(s) = 2 /\ \A i \in 1 .. 2 : s[i] = IF i <= 1 THEN <<a>>[i] ELSE <<b>>[i - 1]
  BY ConcatProperties
<1>2. t \in Seq(S) /\ Len(t) = 2 /\ \A i \in 1 .. 2 : t[i] = IF i <= 1 THEN a ELSE b
  OBVIOUS
<1>3. \A i \in 1 .. 2 : s[i] = t[i]
  BY <1>1, <1>2
<1> HIDE DEF s, t
<1>4. s = t
  BY <1>1, <1>2, <1>3, SeqEqual
<1>. QED  BY <1>4 DEF s, t

LEMMA TwoJoined ==
  ASSUME NEW a, NEW b
  PROVE  <<a>> \o <<b>> = <<a, b>>
BY TwoJoinedIn, a \in {a, b}, b \in {a, b}

LEMMA ThreeJoinedIn ==
  ASSUME NEW S, NEW a \in S, NEW b \in S, NEW c \in S
  PROVE  /\ <<a>> \o <<b, c>> = <<a, b, c>>
         /\ <<a, b>> \o <<c>> = <<a, b, c>>
<1> DEFINE s == <<a>> \o <<b, c>>
           r == <<a, b>> \o <<c>>
           t == <<a, b, c>>
<1>1. s \in Seq(S) /\ Len(s) = 3 /\ \A i \in 1 .. 3 : s[i] = IF i <= 1 THEN <<a>>[i] ELSE <<b, c>>[i - 1]
  BY ConcatProperties
<1>2. r \in Seq(S) /\ Len(r) = 3 /\ \A i \in 1 .. 3 : r[i] = IF i <= 2 THEN <<a, b>>[i] ELSE <<c>>[i - 2]
  BY ConcatProperties
<1>3. t \in Seq(S) /\ Len(t) = 3 /\ t[1] = a /\ t[2] = b /\ t[3] = c
  OBVIOUS
<1>4. \A i \in 1 .. 3 : s[i] = t[i] /\ r[i] = t[i]
  BY <1>1, <1>2, <1>3
<1> HIDE DEF s, r, t
<1>5. s = t /\ r = t
  BY <1>1, <1>2, <1>3, <1>4, SeqEqual
<1>. QED  BY <1>5 DEF s, r, t

LEMMA ThreeJoined ==
  ASSUME NEW a, NEW b, NEW c
  PROVE  /\ <<a>> \o <<b, c>> = <<a, b, c>>
         /\ <<a, b>> \o <<c>> = <<a, b, c>>
BY ThreeJoinedIn, a \in {a, b, c}, b \in {a, b, c}, c \in {a, b, c}

LEMMA FourJoinedIn ==
  ASSUME NEW S, NEW a \in S, NEW b \in S, NEW c \in S, NEW d \in S
  PROVE  /\ <<a, b>> \o <<c, d>> = <<a, b, c, d>>
         /\ <<a, b, c>> \o <<d>> = <<a, b, c, d>>
<1> DEFINE s == <<a, b>> \o <<c, d>>
           r == <<a, b, c>> \o <<d>>
           t == <<a, b, c, d>>
<1>1. s \in Seq(S) /\ Len(s) = 4 /\ \A i \in 1 .. 4 : s[i] = IF i <= 2 THEN <<a, b>>[i] ELSE <<c, d>>[i - 2]
  BY ConcatProperties
<1>2. r \in Seq(S) /\ Len(r) = 4 /\ \A i \in 1 .. 4 : r[i] = IF i <= 3 THEN <<a, b, c>>[i] ELSE <<d>>[i - 3]
  BY ConcatProperties
<1>3. t \in Seq(S) /\ Len(t) = 4 /\ t[1] = a /\ t[2] = b /\ t[3] = c /\ t[4] = d
  OBVIOUS
<1>4. \A i \in 1 .. 4 : s[i] = t[i] /\ r[i] = t[i]
  BY <1>1, <1>2, <1>3
<1> HIDE DEF s, r, t
<1>5. s = t /\ r = t
  BY <1>1, <1>2, <1>3, <1>4, SeqEqual
<1>. QED  BY <1>5 DEF s, r, t

LEMMA FourJoined ==
  ASSUME NEW a, NEW b, NEW c, NEW d
  PROVE  /\ <<a, b>> \o <<c, d>> = <<a, b, c, d>>
         /\ <<a, b, c>> \o <<d>> = <<a, b, c, d>>
<1>1. PICK S : a \in S /\ b \in S /\ c \in S /\ d \in S
  BY a \in {a, b, c, d}, b \in {a, b, c, d}, c \in {a, b, c, d}, d \in {a, b, c, d}
<1>. QED  BY <1>1, FourJoinedIn

\* Reading a request back: what its method, its path and its action ask for, when
\* the names in it are plain.
Asked(class, op, names, m, p) ==
  [class |-> class, op |-> op, method |-> m, names |-> names, path |-> p]

One(x) == <<x>>
OneName(x) == <<One(x)>>
TwoNames(x, y) == <<One(x), One(y)>>

Verb == [POST |-> "create", GET |-> "retrieve", PUT |-> "upsert", PATCH |-> "update",
         DELETE |-> "delete"]
ModelVerb == [Verb EXCEPT !["PUT"] = "update"]
ItemVerb == [GET |-> "get_item", PUT |-> "upsert_item", DELETE |-> "delete_item"]

\* Under a collection's documents.
DocumentsAsked(m, p, action) ==
  IF p[4] = "" THEN Asked("Documents", IF m = "POST" THEN action ELSE Verb[m], OneName(p[2]), m, p)
  ELSE IF p[4] \in {"search", "export", "import"} THEN Asked("Documents", p[4], OneName(p[2]), m, p)
  ELSE Asked("Document", Verb[m], TwoNames(p[2], p[4]), m, p)

\* Under a collection's overrides or synonyms.
RulesAsked(class, one, m, p) ==
  IF m # "PUT" /\ p[4] = "" THEN Asked(class, "retrieve", OneName(p[2]), m, p)
  ELSE Asked(IF m = "PUT" THEN class ELSE one, Verb[m], TwoNames(p[2], p[4]), m, p)

CollectionsAsked(m, p, action) ==
  IF Len(p) = 1 THEN Asked("Collections", Verb[m], <<>>, m, p)
  ELSE IF Len(p) = 2 THEN Asked("Collection", Verb[m], OneName(p[2]), m, p)
  ELSE IF p[3] = "documents" THEN DocumentsAsked(m, p, action)
  ELSE IF p[3] = "overrides" THEN RulesAsked("Overrides", "Override", m, p)
  ELSE RulesAsked("Synonyms", "Synonym", m, p)

\* A class of all objects of a kind, and a class of one of them.
KindAsked(class, one, verb, m, p) ==
  IF Len(p) = 1 THEN Asked(class, verb[m], <<>>, m, p)
  ELSE Asked(IF m = "PUT" /\ verb[m] = "upsert" THEN class ELSE one, verb[m], OneName(p[2]), m, p)

\* Sets of named items.
SetsAsked(class, one, m, p) ==
  IF Len(p) = 1 THEN Asked(class, "retrieve", <<>>, m, p)
  ELSE IF Len(p) = 2 THEN Asked(one, Verb[m], OneName(p[2]), m, p)
  ELSE IF Len(p) = 3 THEN Asked(one, "list_items", OneName(p[2]), m, p)
  ELSE Asked(one, ItemVerb[m], TwoNames(p[2], p[4]), m, p)

AnalyticsAsked(m, p) ==
  IF p[2] = "events" THEN Asked("AnalyticsEvents", Verb[m], <<>>, m, p)
  ELSE IF p[2] \in {"flush", "status"} THEN Asked("AnalyticsEvents", p[2], <<>>, m, p)
  ELSE IF Len(p) = 2 THEN Asked("AnalyticsRules", Verb[m], <<>>, m, p)
  ELSE Asked(IF m = "PUT" THEN "AnalyticsRules" ELSE "AnalyticsRule", Verb[m], OneName(p[3]), m, p)

ConversationsAsked(m, p) ==
  IF Len(p) = 2 THEN Asked("ConversationsModels", Verb[m], <<>>, m, p)
  ELSE Asked("ConversationModel", ModelVerb[m], OneName(p[3]), m, p)

StemmingAsked(m, p) ==
  IF Len(p) = 2 THEN Asked("StemmingDictionaries", "retrieve", <<>>, m, p)
  ELSE IF m = "POST" THEN Asked("StemmingDictionaries", "upsert", <<>>, m, p)
  ELSE Asked("StemmingDictionary", "retrieve", OneName(p[3]), m, p)

OperationsAsked(m, p) ==
  IF p[1] = "health" THEN Asked("Operations", "is_healthy", <<>>, m, p)
  ELSE IF p[1] = "config" THEN Asked("Operations", "toggle_slow_request_log", <<>>, m, p)
  ELSE Asked("Operations", "perform", <<IF Len(p) = 2 THEN <<p[2]>> ELSE <<p[2], p[3]>>>>, m, p)

ReadBack(m, p, action) ==
  CASE p[1] = "collections" -> CollectionsAsked(m, p, action)
    [] p[1] = "aliases" -> KindAsked("Aliases", "Alias", Verb, m, p)
    [] p[1] = "keys" -> KindAsked("Keys", "Key", Verb, m, p)
    [] p[1] = "stopwords" -> KindAsked("Stopwords", "StopwordsSet", Verb, m, p)
    [] p[1] = "nl_search_models" -> KindAsked("NLSearchModels", "NLSearchModel", ModelVerb, m, p)
    [] p[1] = "synonym_sets" -> SetsAsked("SynonymSets", "SynonymSet", m, p)
    [] p[1] = "curation_sets" -> SetsAsked("CurationSets", "CurationSet", m, p)
    [] p[1] = "analytics" -> AnalyticsAsked(m, p)
    [] p[1] = "conversations" -> ConversationsAsked(m, p)
    [] p[1] = "stemming" -> StemmingAsked(m, p)
    [] p[1] = "multi_search" -> Asked("MultiSearch", "perform", <<>>, m, p)
    [] p[1] = "debug" -> Asked("Debug", "retrieve", <<>>, m, p)
    [] p[1] = "metrics.json" -> Asked("Metrics", "retrieve", <<>>, m, p)
    [] OTHER -> OperationsAsked(m, p)


\* The action agrees with a call that has put its own into the dictionary.
Agrees(call, action) == Acting(call) => action = call.op

Word(x) == x \notin {"", "search", "export", "import"}
Bulk(x) == x \in {"search", "export", "import"}
Blank(x) == x = ""
IsPut(m) == m = "PUT"
DocumentOp(m, action) == IF m = "POST" THEN action ELSE Verb[m]

\* Paths of two, three and four segments.
Two(a, b) == <<a, b>>
Three(a, b, c) == <<a, b, c>>
Four(a, b, c, d) == <<a, b, c, d>>

IsTwo(p, a, b) == Len(p) = 2 /\ p[1] = a /\ p[2] = b
IsThree(p, a, b, c) == Len(p) = 3 /\ p[1] = a /\ p[2] = b /\ p[3] = c
IsFour(p, a, b, c, d) == Len(p) = 4 /\ p[1] = a /\ p[2] = b /\ p[3] = c /\ p[4] = d

LEMMA Segments ==
  \A a, b, c, d : /\ IsTwo(Two(a, b), a, b)
                  /\ IsThree(Three(a, b, c), a, b, c)
                  /\ IsFour(Four(a, b, c, d), a, b, c, d)
BY DEF Two, Three, Four, IsTwo, IsThree, IsFour

LEMMA ShortPaths ==
  \A a, b, x : /\ <<a>> \o One(x) = Two(a, x)
               /\ <<a, b>> \o One(x) = Three(a, b, x)
BY TwoJoined, ThreeJoined DEF One, Two, Three

FourPath(a, x, b, y) ==
  /\ <<a>> \o One(x) \o <<b>> \o One(y) = Four(a, x, b, y)
  /\ <<a>> \o One(x) \o <<b, y>> = Four(a, x, b, y)

LEMMA LongPaths ==
  \A a, x, b, y : <<a>> \o One(x) \o <<b>> = Three(a, x, b) /\ FourPath(a, x, b, y)
<1>. TAKE a, x, b, y
<1>1. <<a>> \o <<x>> = <<a, x>>
  BY TwoJoined
<1>2. <<a, x>> \o <<b>> = <<a, x, b>>
  BY ThreeJoined
<1>3. <<a, x, b>> \o <<y>> = <<a, x, b, y>> /\ <<a, x>> \o <<b, y>> = <<a, x, b, y>>
  BY FourJoined
<1>. QED  BY <1>1, <1>2, <1>3 DEF One, Three, Four, FourPath

\* What one class's requests look like.
Inverts(verb, methods) == \A op \in DOMAIN methods : verb[methods[op]] = op

LEMMA RequestsOf ==
  ASSUME NEW class, NEW methods, NEW names, NEW p, NEW call \in Requests(class, methods, names, p)
  PROVE  /\ call.path = p /\ call.class = class
         /\ call.op \in DOMAIN methods /\ call.method = methods[call.op]
         /\ call = Asked(class, call.op, names, call.method, p)
BY DEF Requests, Asked

LEMMA VerbsRead ==
  ASSUME NEW class, NEW methods, NEW names, NEW p, NEW verb, Inverts(verb, methods),
         NEW call \in Requests(class, methods, names, p)
  PROVE  call.path = p /\ call = Asked(class, verb[call.method], names, call.method, p)
<1>1. /\ call.path = p /\ call.op \in DOMAIN methods /\ call.method = methods[call.op]
      /\ call = Asked(class, call.op, names, call.method, p)
  BY RequestsOf
<1>2. verb[call.method] = call.op
  BY <1>1 DEF Inverts
<1>. QED  BY <1>1, <1>2

\* The operations' methods.
CreateRead == [create |-> "POST", retrieve |-> "GET"]
ReadUpdateDelete == [retrieve |-> "GET", update |-> "PATCH", delete |-> "DELETE"]
ReadPutDelete == [retrieve |-> "GET", upsert |-> "PUT", delete |-> "DELETE"]
ReadReplaceDelete == [retrieve |-> "GET", update |-> "PUT", delete |-> "DELETE"]
ReadDelete == [retrieve |-> "GET", delete |-> "DELETE"]
JustRead == [retrieve |-> "GET"]
JustPut == [upsert |-> "PUT"]
JustDelete == [delete |-> "DELETE"]
Items == [get_item |-> "GET", upsert_item |-> "PUT", delete_item |-> "DELETE"]

LEMMA MethodsInverted ==
  /\ Inverts(Verb, CreateRead) /\ Inverts(Verb, ReadUpdateDelete) /\ Inverts(Verb, ReadPutDelete)
  /\ Inverts(Verb, ReadDelete) /\ Inverts(Verb, JustPut) /\ Inverts(Verb, JustRead)
  /\ Inverts(Verb, JustDelete)
  /\ Inverts(ModelVerb, CreateRead) /\ Inverts(ModelVerb, ReadReplaceDelete)
  /\ Inverts(ItemVerb, Items)
<1>1. Inverts(Verb, CreateRead) /\ Inverts(Verb, ReadUpdateDelete) /\ Inverts(Verb, ReadPutDelete)
  BY DEF Inverts, Verb, CreateRead, ReadUpdateDelete, ReadPutDelete
<1>2. /\ Inverts(Verb, ReadDelete) /\ Inverts(Verb, JustPut)
      /\ Inverts(Verb, JustRead) /\ Inverts(Verb, JustDelete)
  BY DEF Inverts, Verb, ReadDelete, JustPut, JustRead, JustDelete
<1>3. Inverts(ModelVerb, CreateRead) /\ Inverts(ModelVerb, ReadReplaceDelete)
  BY DEF Inverts, ModelVerb, Verb, CreateRead, ReadReplaceDelete
<1>4. Inverts(ItemVerb, Items)
  BY DEF Inverts, ItemVerb, Items
<1>. QED  BY <1>1, <1>2, <1>3, <1>4

LEMMA MethodsOf ==
  ASSUME NEW class, NEW names, NEW p, NEW methods, NEW call \in Requests(class, methods, names, p)
  PROVE  /\ methods = CreateRead => ~IsPut(call.method)
         /\ methods = ReadDelete => ~IsPut(call.method)
         /\ methods = JustRead => ~IsPut(call.method) /\ call.op = "retrieve"
         /\ methods = JustPut => IsPut(call.method) /\ Verb[call.method] = "upsert"
<1>1. call.op \in DOMAIN methods /\ call.method = methods[call.op]
  BY RequestsOf
<1>2. methods = CreateRead => ~IsPut(call.method)
  BY <1>1 DEF CreateRead, IsPut
<1>3. methods = ReadDelete => ~IsPut(call.method)
  BY <1>1 DEF ReadDelete, IsPut
<1>4. methods = JustRead => ~IsPut(call.method) /\ call.op = "retrieve"
  BY <1>1 DEF JustRead, IsPut
<1>5. methods = JustPut => IsPut(call.method) /\ Verb[call.method] = "upsert"
  BY <1>1 DEF JustPut, IsPut, Verb
<1>. QED  BY <1>2, <1>3, <1>4, <1>5

LEMMA DeleteOf ==
  ASSUME NEW class, NEW names, NEW p, NEW call \in Requests(class, JustDelete, names, p), NEW action
  PROVE  DocumentOp(call.method, action) = call.op
<1>1. call.op \in DOMAIN JustDelete /\ call.method = JustDelete[call.op]
  BY RequestsOf
<1>. QED  BY <1>1 DEF JustDelete, DocumentOp, Verb

-----------------------------------------------------------------------------
(* What is read back from a path.                                          *)

LEMMA OnCollections ==
  ASSUME NEW p, NEW x, NEW y, NEW m, NEW action
  PROVE  /\ IsFour(p, "collections", x, "documents", y) =>
              ReadBack(m, p, action) = DocumentsAsked(m, p, action)
         /\ IsFour(p, "collections", x, "overrides", y) =>
              ReadBack(m, p, action) = RulesAsked("Overrides", "Override", m, p)
         /\ IsFour(p, "collections", x, "synonyms", y) =>
              ReadBack(m, p, action) = RulesAsked("Synonyms", "Synonym", m, p)
<1>1. p[1] = "collections" => ReadBack(m, p, action) = CollectionsAsked(m, p, action)
  BY DEF ReadBack
<1>2. Len(p) = 4 =>
        /\ p[3] = "documents" => CollectionsAsked(m, p, action) = DocumentsAsked(m, p, action)
        /\ p[3] = "overrides" => CollectionsAsked(m, p, action) = RulesAsked("Overrides", "Override", m, p)
        /\ p[3] = "synonyms" => CollectionsAsked(m, p, action) = RulesAsked("Synonyms", "Synonym", m, p)
  BY DEF CollectionsAsked
<1>. QED  BY <1>1, <1>2 DEF IsFour

LEMMA OnDocuments ==
  ASSUME NEW p, NEW x, NEW y, NEW m, NEW action, IsFour(p, "collections", x, "documents", y)
  PROVE  /\ Blank(y) => ReadBack(m, p, action) = Asked("Documents", DocumentOp(m, action), OneName(x), m, p)
         /\ Bulk(y) => ReadBack(m, p, action) = Asked("Documents", y, OneName(x), m, p)
         /\ Word(y) => ReadBack(m, p, action) = Asked("Document", Verb[m], TwoNames(x, y), m, p)
<1>1. p[2] = x /\ p[4] = y
  BY DEF IsFour
<1>2. ReadBack(m, p, action) = DocumentsAsked(m, p, action)
  BY OnCollections
<1>3. DocumentsAsked(m, p, action) =
        IF Blank(y) THEN Asked("Documents", DocumentOp(m, action), OneName(x), m, p)
        ELSE IF Bulk(y) THEN Asked("Documents", y, OneName(x), m, p)
        ELSE Asked("Document", Verb[m], TwoNames(x, y), m, p)
  BY <1>1 DEF DocumentsAsked, DocumentOp, Blank, Bulk
<1>4. (Blank(y) => ~Bulk(y)) /\ (Word(y) <=> ~Blank(y) /\ ~Bulk(y))
  BY DEF Word, Blank, Bulk
<1>. QED  BY <1>2, <1>3, <1>4

LEMMA OnRules ==
  ASSUME NEW p, NEW x, NEW y, NEW m, NEW class, NEW one, p[2] = x, p[4] = y
  PROVE  /\ IsPut(m) => RulesAsked(class, one, m, p) = Asked(class, Verb[m], TwoNames(x, y), m, p)
         /\ ~IsPut(m) /\ Blank(y) => RulesAsked(class, one, m, p) = Asked(class, "retrieve", OneName(x), m, p)
         /\ ~IsPut(m) /\ Word(y) => RulesAsked(class, one, m, p) = Asked(one, Verb[m], TwoNames(x, y), m, p)
BY DEF RulesAsked, Word, Blank, IsPut

LEMMA OnKinds ==
  ASSUME NEW p, NEW m, NEW action
  PROVE  /\ p[1] = "aliases" => ReadBack(m, p, action) = KindAsked("Aliases", "Alias", Verb, m, p)
         /\ p[1] = "keys" => ReadBack(m, p, action) = KindAsked("Keys", "Key", Verb, m, p)
         /\ p[1] = "stopwords" =>
              ReadBack(m, p, action) = KindAsked("Stopwords", "StopwordsSet", Verb, m, p)
         /\ p[1] = "nl_search_models" =>
              ReadBack(m, p, action) = KindAsked("NLSearchModels", "NLSearchModel", ModelVerb, m, p)
         /\ p[1] = "synonym_sets" => ReadBack(m, p, action) = SetsAsked("SynonymSets", "SynonymSet", m, p)
         /\ p[1] = "curation_sets" => ReadBack(m, p, action) = SetsAsked("CurationSets", "CurationSet", m, p)
BY DEF ReadBack

LEMMA OnKind ==
  ASSUME NEW p, NEW m, NEW class, NEW one, NEW verb
  PROVE  /\ Len(p) = 1 => KindAsked(class, one, verb, m, p) = Asked(class, verb[m], <<>>, m, p)
         /\ \A k, x : IsTwo(p, k, x) =>
              KindAsked(class, one, verb, m, p) =
                     Asked(IF IsPut(m) /\ verb[m] = "upsert" THEN class ELSE one, verb[m], OneName(x), m, p)
BY DEF KindAsked, IsTwo, IsPut

LEMMA OnSet ==
  ASSUME NEW p, NEW m, NEW class, NEW one
  PROVE  /\ Len(p) = 1 => SetsAsked(class, one, m, p) = Asked(class, "retrieve", <<>>, m, p)
         /\ \A k, x : IsTwo(p, k, x) =>
              SetsAsked(class, one, m, p) = Asked(one, Verb[m], OneName(x), m, p)
         /\ \A k, x, r : IsThree(p, k, x, r) =>
              SetsAsked(class, one, m, p) = Asked(one, "list_items", OneName(x), m, p)
         /\ \A k, x, r, y : IsFour(p, k, x, r, y) =>
              SetsAsked(class, one, m, p) = Asked(one, ItemVerb[m], TwoNames(x, y), m, p)
<1>1. Len(p) = 1 => SetsAsked(class, one, m, p) = Asked(class, "retrieve", <<>>, m, p)
  BY DEF SetsAsked
<1>2. ASSUME NEW k, NEW x, IsTwo(p, k, x)
      PROVE  SetsAsked(class, one, m, p) = Asked(one, Verb[m], OneName(x), m, p)
  BY <1>2 DEF SetsAsked, IsTwo
<1>3. ASSUME NEW k, NEW x, NEW r, IsThree(p, k, x, r)
      PROVE  SetsAsked(class, one, m, p) = Asked(one, "list_items", OneName(x), m, p)
  BY <1>3 DEF SetsAsked, IsThree
<1>4. ASSUME NEW k, NEW x, NEW r, NEW y, IsFour(p, k, x, r, y)
      PROVE  SetsAsked(class, one, m, p) = Asked(one, ItemVerb[m], TwoNames(x, y), m, p)
  BY <1>4 DEF SetsAsked, IsFour
<1>. QED  BY <1>1, <1>2, <1>3, <1>4

LEMMA OnAnalytics ==
  ASSUME NEW p, NEW m, NEW action
  PROVE  /\ IsTwo(p, "analytics", "events") =>
              ReadBack(m, p, action) = Asked("AnalyticsEvents", Verb[m], <<>>, m, p)
         /\ IsTwo(p, "analytics", "flush") =>
              ReadBack(m, p, action) = Asked("AnalyticsEvents", "flush", <<>>, m, p)
         /\ IsTwo(p, "analytics", "status") =>
              ReadBack(m, p, action) = Asked("AnalyticsEvents", "status", <<>>, m, p)
         /\ IsTwo(p, "analytics", "rules") =>
              ReadBack(m, p, action) = Asked("AnalyticsRules", Verb[m], <<>>, m, p)
         /\ \A x : IsThree(p, "analytics", "rules", x) =>
              ReadBack(m, p, action) =
                Asked(IF IsPut(m) THEN "AnalyticsRules" ELSE "AnalyticsRule", Verb[m], OneName(x), m, p)
<1>1. p[1] = "analytics" => ReadBack(m, p, action) = AnalyticsAsked(m, p)
  BY DEF ReadBack
<1>2. ASSUME NEW x, IsThree(p, "analytics", "rules", x)
      PROVE  AnalyticsAsked(m, p) =
                Asked(IF IsPut(m) THEN "AnalyticsRules" ELSE "AnalyticsRule", Verb[m], OneName(x), m, p)
  BY <1>2 DEF AnalyticsAsked, IsThree, IsPut, IsPut
<1>3. /\ IsTwo(p, "analytics", "events") => AnalyticsAsked(m, p) = Asked("AnalyticsEvents", Verb[m], <<>>, m, p)
      /\ IsTwo(p, "analytics", "rules") => AnalyticsAsked(m, p) = Asked("AnalyticsRules", Verb[m], <<>>, m, p)
  BY DEF AnalyticsAsked, IsTwo
<1>4. /\ IsTwo(p, "analytics", "flush") => AnalyticsAsked(m, p) = Asked("AnalyticsEvents", "flush", <<>>, m, p)
      /\ IsTwo(p, "analytics", "status") => AnalyticsAsked(m, p) = Asked("AnalyticsEvents", "status", <<>>, m, p)
  BY DEF AnalyticsAsked, IsTwo
<1>. QED  BY <1>1, <1>2, <1>3, <1>4 DEF IsTwo, IsThree

LEMMA OnModels ==
  ASSUME NEW p, NEW m, NEW action
  PROVE  /\ IsTwo(p, "conversations", "models") =>
              ReadBack(m, p, action) = Asked("ConversationsModels", Verb[m], <<>>, m, p)
         /\ \A x : IsThree(p, "conversations", "models", x) =>
              ReadBack(m, p, action) = Asked("ConversationModel", ModelVerb[m], OneName(x), m, p)
         /\ IsTwo(p, "stemming", "dictionaries") =>
              ReadBack(m, p, action) = Asked("StemmingDictionaries", "retrieve", <<>>, m, p)
         /\ m = "POST" /\ IsThree(p, "stemming", "dictionaries", "import") =>
              ReadBack(m, p, action) = Asked("StemmingDictionaries", "upsert", <<>>, m, p)
         /\ \A x : m = "GET" /\ IsThree(p, "stemming", "dictionaries", x) =>
              ReadBack(m, p, action) = Asked("StemmingDictionary", "retrieve", OneName(x), m, p)
<1>1. p[1] = "conversations" => ReadBack(m, p, action) = ConversationsAsked(m, p)
  BY DEF ReadBack
<1>2. p[1] = "stemming" => ReadBack(m, p, action) = StemmingAsked(m, p)
  BY DEF ReadBack
<1>3. /\ Len(p) = 2 => ConversationsAsked(m, p) = Asked("ConversationsModels", Verb[m], <<>>, m, p)
      /\ Len(p) = 3 => ConversationsAsked(m, p) = Asked("ConversationModel", ModelVerb[m], OneName(p[3]), m, p)
  BY DEF ConversationsAsked
<1>4. /\ Len(p) = 2 => StemmingAsked(m, p) = Asked("StemmingDictionaries", "retrieve", <<>>, m, p)
      /\ Len(p) = 3 /\ m = "POST" => StemmingAsked(m, p) = Asked("StemmingDictionaries", "upsert", <<>>, m, p)
      /\ Len(p) = 3 /\ m = "GET" =>
           StemmingAsked(m, p) = Asked("StemmingDictionary", "retrieve", OneName(p[3]), m, p)
  BY DEF StemmingAsked
<1>5. /\ IsTwo(p, "conversations", "models") =>
           ReadBack(m, p, action) = Asked("ConversationsModels", Verb[m], <<>>, m, p)
      /\ IsTwo(p, "stemming", "dictionaries") =>
           ReadBack(m, p, action) = Asked("StemmingDictionaries", "retrieve", <<>>, m, p)
  BY <1>1, <1>2, <1>3, <1>4 DEF IsTwo
<1>6. ASSUME NEW x, IsThree(p, "conversations", "models", x)
      PROVE  ReadBack(m, p, action) = Asked("ConversationModel", ModelVerb[m], OneName(x), m, p)
  BY <1>1, <1>3, <1>6 DEF IsThree
<1>7. ASSUME NEW x, IsThree(p, "stemming", "dictionaries", x)
      PROVE  /\ m = "POST" => ReadBack(m, p, action) = Asked("StemmingDictionaries", "upsert", <<>>, m, p)
             /\ m = "GET" => ReadBack(m, p, action) = Asked("StemmingDictionary", "retrieve", OneName(x), m, p)
  BY <1>2, <1>4, <1>7 DEF IsThree
<1>. QED  BY <1>5, <1>6, <1>7

-----------------------------------------------------------------------------
(* What the requests of every class are read back as.                      *)

NoName == ""

LEMMA NoNameBlank == Blank(NoName)
BY DEF Blank, NoName

LEMMA CollectionsRead ==
  ASSUME NEW call \in Collections, NEW action
  PROVE  call = ReadBack(call.method, call.path, action)
<1>1. call \in Requests("Collections", CreateRead, <<>>, <<"collections">>)
  BY DEF Collections, CreateRead
<1>2. /\ call.path = <<"collections">>
      /\ call = Asked("Collections", Verb[call.method], <<>>, call.method, <<"collections">>)
  BY <1>1, MethodsInverted, VerbsRead
<1>3. \A m, p : p = <<"collections">> => ReadBack(m, p, action) = Asked("Collections", Verb[m], <<>>, m, p)
  BY DEF ReadBack, CollectionsAsked
<1>. QED  BY <1>2, <1>3

LEMMA CollectionRead ==
  ASSUME NEW x, NEW call \in Collection(One(x)), NEW action
  PROVE  call = ReadBack(call.method, call.path, action)
<1> DEFINE p == Two("collections", x)
<1>1. call \in Requests("Collection", ReadUpdateDelete, OneName(x), p)
  BY ShortPaths DEF Collection, ReadUpdateDelete, OneName
<1>2. call.path = p /\ call = Asked("Collection", Verb[call.method], OneName(x), call.method, p)
  BY <1>1, MethodsInverted, VerbsRead
<1>3. IsTwo(p, "collections", x)
  BY Segments
<1>. HIDE DEF p
<1>4. \A m : ReadBack(m, p, action) = Asked("Collection", Verb[m], OneName(x), m, p)
  BY <1>3 DEF IsTwo, ReadBack, CollectionsAsked
<1>. QED  BY <1>2, <1>4

LEMMA DocumentsPaths ==
  \A x, y :
    /\ DocumentsPath(One(x), y) = Four("collections", x, "documents", y)
    /\ <<"collections">> \o One(x) \o <<"documents">> \o One(y) = Four("collections", x, "documents", y)
    /\ IsFour(Four("collections", x, "documents", y), "collections", x, "documents", y)
<1>. TAKE x, y
<1>1. IsFour(Four("collections", x, "documents", y), "collections", x, "documents", y)
  BY Segments
<1>2. FourPath("collections", x, "documents", y)
  BY LongPaths
<1>. QED  BY <1>1, <1>2 DEF FourPath, DocumentsPath

LEMMA DocumentsRead ==
  ASSUME NEW x, NEW action, NEW call \in Documents(One(x)), Agrees(call, action)
  PROVE  call = ReadBack(call.method, call.path, action)
<1> DEFINE writes == [create |-> "POST", upsert |-> "POST", update |-> "PATCH"]
           p == DocumentsPath(One(x), "")
<1>1. call \in Requests("Documents", writes, OneName(x), p)
  BY DEF Documents, OneName
<1>2. IsFour(p, "collections", x, "documents", NoName)
  BY DocumentsPaths DEF NoName
<1>. HIDE DEF p, writes
<1>3. /\ call.path = p /\ call.class = "Documents"
      /\ call.op \in DOMAIN writes /\ call.method = writes[call.op]
      /\ call = Asked("Documents", call.op, OneName(x), call.method, p)
  BY <1>1, RequestsOf
<1>4. /\ call.op \in Actions
      /\ call.op \in {"create", "upsert"} => call.method = "POST"
      /\ call.op = "update" => call.method = "PATCH"
  BY <1>3 DEF writes, Actions
<1>5. action = call.op
  BY <1>3, <1>4 DEF Agrees, Acting
<1>6. DocumentOp(call.method, action) = call.op
  BY <1>4, <1>5 DEF Actions, Verb, DocumentOp
<1>7. ReadBack(call.method, p, action)
        = Asked("Documents", DocumentOp(call.method, action), OneName(x), call.method, p)
  BY <1>2, NoNameBlank, OnDocuments
<1>. QED  BY <1>3, <1>6, <1>7

LEMMA DocumentsDeleteRead ==
  ASSUME NEW x, NEW call \in DocumentsDelete(One(x)), NEW action
  PROVE  call = ReadBack(call.method, call.path, action)
<1> DEFINE p == DocumentsPath(One(x), "")
<1>1. call \in Requests("Documents", JustDelete, OneName(x), p)
  BY DEF DocumentsDelete, OneName, JustDelete
<1>2. IsFour(p, "collections", x, "documents", NoName)
  BY DocumentsPaths DEF NoName
<1>. HIDE DEF p
<1>3. call.path = p /\ call = Asked("Documents", call.op, OneName(x), call.method, p)
  BY <1>1, RequestsOf
<1>4. DocumentOp(call.method, action) = call.op
  BY <1>1, DeleteOf
<1>5. ReadBack(call.method, p, action)
        = Asked("Documents", DocumentOp(call.method, action), OneName(x), call.method, p)
  BY <1>2, NoNameBlank, OnDocuments
<1>. QED  BY <1>3, <1>4, <1>5

LEMMA BulkRead ==
  ASSUME NEW x, NEW action,
         NEW call \in UNION {DocumentsSearch(One(x)), DocumentsExport(One(x)), DocumentsImport(One(x))}
  PROVE  call = ReadBack(call.method, call.path, action)
<1> DEFINE p(w) == DocumentsPath(One(x), w)
<1>1. \/ call \in Requests("Documents", [search |-> "GET"], OneName(x), p("search"))
      \/ call \in Requests("Documents", [export |-> "GET"], OneName(x), p("export"))
      \/ call \in Requests("Documents", [import |-> "POST"], OneName(x), p("import"))
  BY DEF DocumentsSearch, DocumentsExport, DocumentsImport, OneName
<1>2. \A w : IsFour(p(w), "collections", x, "documents", w)
  BY DocumentsPaths
<1>. HIDE DEF p
<1>3. PICK w \in {"search", "export", "import"} :
        call.path = p(w) /\ call = Asked("Documents", w, OneName(x), call.method, p(w))
  BY <1>1 DEF Requests, Asked
<1>4. Bulk(w)
  BY DEF Bulk
<1>5. ReadBack(call.method, p(w), action) = Asked("Documents", w, OneName(x), call.method, p(w))
  BY <1>2, <1>4, OnDocuments
<1>. QED  BY <1>3, <1>5

LEMMA DocumentRead ==
  ASSUME NEW x, NEW y, Word(y), NEW call \in Document(One(x), One(y)), NEW action
  PROVE  call = ReadBack(call.method, call.path, action)
<1> DEFINE p == Four("collections", x, "documents", y)
<1>0. IsFour(p, "collections", x, "documents", y)
  BY DocumentsPaths
<1>1. <<"collections">> \o One(x) \o <<"documents">> \o One(y) = p
  BY DocumentsPaths
<1>. HIDE DEF p
<1>2. call \in Requests("Document", ReadUpdateDelete, TwoNames(x, y), p)
  BY <1>1 DEF Document, ReadUpdateDelete, TwoNames
<1>3. call.path = p /\ call = Asked("Document", Verb[call.method], TwoNames(x, y), call.method, p)
  BY <1>2, MethodsInverted, VerbsRead
<1>4. ReadBack(call.method, p, action) = Asked("Document", Verb[call.method], TwoNames(x, y), call.method, p)
  BY <1>0, OnDocuments
<1>. QED  BY <1>3, <1>4

LEMMA OverridesPaths ==
  \A x, y :
    /\ <<"collections">> \o One(x) \o <<"overrides">> \o One(y) = Four("collections", x, "overrides", y)
    /\ <<"collections">> \o One(x) \o <<"overrides", y>> = Four("collections", x, "overrides", y)
    /\ IsFour(Four("collections", x, "overrides", y), "collections", x, "overrides", y)
<1>. TAKE x, y
<1>1. IsFour(Four("collections", x, "overrides", y), "collections", x, "overrides", y)
  BY Segments
<1>2. FourPath("collections", x, "overrides", y)
  BY LongPaths
<1>. QED  BY <1>1, <1>2 DEF FourPath

LEMMA OverridesRead ==
  ASSUME NEW x, NEW y, Word(y), NEW call \in Overrides(One(x), One(y)) \cup Override(One(x), One(y)), NEW action
  PROVE  call = ReadBack(call.method, call.path, action)
<1> DEFINE p == Four("collections", x, "overrides", y)
           all == Four("collections", x, "overrides", NoName)
<1>0. IsFour(p, "collections", x, "overrides", y) /\ IsFour(all, "collections", x, "overrides", NoName)
  BY OverridesPaths
<1>7. p[2] = x /\ p[4] = y /\ all[2] = x /\ all[4] = NoName
  BY <1>0 DEF IsFour
<1>1. /\ <<"collections">> \o One(x) \o <<"overrides">> \o One(y) = p
      /\ <<"collections">> \o One(x) \o <<"overrides", NoName>> = all
  BY OverridesPaths
<1>. HIDE DEF p, all
<1>2. \/ call \in Requests("Overrides", JustPut, TwoNames(x, y), p)
      \/ call \in Requests("Overrides", JustRead, OneName(x), all)
      \/ call \in Requests("Override", ReadDelete, TwoNames(x, y), p)
  BY <1>1 DEF Overrides, Override, NoName, JustPut, JustRead, ReadDelete, OneName, TwoNames
<1>3. \A m : /\ ReadBack(m, p, action) = RulesAsked("Overrides", "Override", m, p)
             /\ ReadBack(m, all, action) = RulesAsked("Overrides", "Override", m, all)
  BY <1>0, OnCollections
<1>4. CASE call \in Requests("Overrides", JustPut, TwoNames(x, y), p)
  <2>1. call.path = p /\ call = Asked("Overrides", Verb[call.method], TwoNames(x, y), call.method, p)
    BY <1>4, MethodsInverted, VerbsRead
  <2>2. IsPut(call.method)
    BY <1>4, MethodsOf
  <2>3. RulesAsked("Overrides", "Override", call.method, p)
          = Asked("Overrides", Verb[call.method], TwoNames(x, y), call.method, p)
    BY <1>7, <2>2, OnRules
  <2>. QED  BY <1>3, <2>1, <2>3
<1>5. CASE call \in Requests("Overrides", JustRead, OneName(x), all)
  <2>1. /\ call.path = all /\ call = Asked("Overrides", "retrieve", OneName(x), call.method, all)
        /\ ~IsPut(call.method)
    BY <1>5, MethodsOf, RequestsOf
  <2>2. RulesAsked("Overrides", "Override", call.method, all) = Asked("Overrides", "retrieve", OneName(x), call.method, all)
    BY <1>7, <2>1, NoNameBlank, OnRules
  <2>. QED  BY <1>3, <2>1, <2>2
<1>6. CASE call \in Requests("Override", ReadDelete, TwoNames(x, y), p)
  <2>1. call.path = p /\ call = Asked("Override", Verb[call.method], TwoNames(x, y), call.method, p)
    BY <1>6, MethodsInverted, VerbsRead
  <2>2. ~IsPut(call.method)
    BY <1>6, MethodsOf
  <2>3. RulesAsked("Overrides", "Override", call.method, p)
          = Asked("Override", Verb[call.method], TwoNames(x, y), call.method, p)
    BY <1>7, <2>2, OnRules
  <2>. QED  BY <1>3, <2>1, <2>3
<1>. QED  BY <1>2, <1>4, <1>5, <1>6

LEMMA SynonymsPaths ==
  \A x, y :
    /\ <<"collections">> \o One(x) \o <<"synonyms">> \o One(y) = Four("collections", x, "synonyms", y)
    /\ <<"collections">> \o One(x) \o <<"synonyms", y>> = Four("collections", x, "synonyms", y)
    /\ IsFour(Four("collections", x, "synonyms", y), "collections", x, "synonyms", y)
<1>. TAKE x, y
<1>1. IsFour(Four("collections", x, "synonyms", y), "collections", x, "synonyms", y)
  BY Segments
<1>2. FourPath("collections", x, "synonyms", y)
  BY LongPaths
<1>. QED  BY <1>1, <1>2 DEF FourPath

LEMMA SynonymsRead ==
  ASSUME NEW x, NEW y, Word(y), NEW call \in Synonyms(One(x), One(y)) \cup Synonym(One(x), One(y)), NEW action
  PROVE  call = ReadBack(call.method, call.path, action)
<1> DEFINE p == Four("collections", x, "synonyms", y)
           all == Four("collections", x, "synonyms", NoName)
<1>0. IsFour(p, "collections", x, "synonyms", y) /\ IsFour(all, "collections", x, "synonyms", NoName)
  BY SynonymsPaths
<1>7. p[2] = x /\ p[4] = y /\ all[2] = x /\ all[4] = NoName
  BY <1>0 DEF IsFour
<1>1. /\ <<"collections">> \o One(x) \o <<"synonyms">> \o One(y) = p
      /\ <<"collections">> \o One(x) \o <<"synonyms", NoName>> = all
  BY SynonymsPaths
<1>. HIDE DEF p, all
<1>2. \/ call \in Requests("Synonyms", JustPut, TwoNames(x, y), p)
      \/ call \in Requests("Synonyms", JustRead, OneName(x), all)
      \/ call \in Requests("Synonym", ReadDelete, TwoNames(x, y), p)
  BY <1>1 DEF Synonyms, Synonym, NoName, JustPut, JustRead, ReadDelete, OneName, TwoNames
<1>3. \A m : /\ ReadBack(m, p, action) = RulesAsked("Synonyms", "Synonym", m, p)
             /\ ReadBack(m, all, action) = RulesAsked("Synonyms", "Synonym", m, all)
  BY <1>0, OnCollections
<1>4. CASE call \in Requests("Synonyms", JustPut, TwoNames(x, y), p)
  <2>1. call.path = p /\ call = Asked("Synonyms", Verb[call.method], TwoNames(x, y), call.method, p)
    BY <1>4, MethodsInverted, VerbsRead
  <2>2. IsPut(call.method)
    BY <1>4, MethodsOf
  <2>3. RulesAsked("Synonyms", "Synonym", call.method, p)
          = Asked("Synonyms", Verb[call.method], TwoNames(x, y), call.method, p)
    BY <1>7, <2>2, OnRules
  <2>. QED  BY <1>3, <2>1, <2>3
<1>5. CASE call \in Requests("Synonyms", JustRead, OneName(x), all)
  <2>1. /\ call.path = all /\ call = Asked("Synonyms", "retrieve", OneName(x), call.method, all)
        /\ ~IsPut(call.method)
    BY <1>5, MethodsOf, RequestsOf
  <2>2. RulesAsked("Synonyms", "Synonym", call.method, all) = Asked("Synonyms", "retrieve", OneName(x), call.method, all)
    BY <1>7, <2>1, NoNameBlank, OnRules
  <2>. QED  BY <1>3, <2>1, <2>2
<1>6. CASE call \in Requests("Synonym", ReadDelete, TwoNames(x, y), p)
  <2>1. call.path = p /\ call = Asked("Synonym", Verb[call.method], TwoNames(x, y), call.method, p)
    BY <1>6, MethodsInverted, VerbsRead
  <2>2. ~IsPut(call.method)
    BY <1>6, MethodsOf
  <2>3. RulesAsked("Synonyms", "Synonym", call.method, p)
          = Asked("Synonym", Verb[call.method], TwoNames(x, y), call.method, p)
    BY <1>7, <2>2, OnRules
  <2>. QED  BY <1>3, <2>1, <2>3
<1>. QED  BY <1>2, <1>4, <1>5, <1>6

LEMMA AliasesRead ==
  ASSUME NEW x, NEW call \in Aliases(One(x)) \cup Alias(One(x)), NEW action
  PROVE  call = ReadBack(call.method, call.path, action)
<1> DEFINE p == Two("aliases", x)
<1>1. \/ call \in Requests("Aliases", JustPut, OneName(x), p)
      \/ call \in Requests("Aliases", JustRead, <<>>, <<"aliases">>)
      \/ call \in Requests("Alias", ReadDelete, OneName(x), p)
  BY ShortPaths DEF Aliases, Alias, JustPut, JustRead, ReadDelete, OneName
<1>2. IsTwo(p, "aliases", x)
  BY Segments
<1>. HIDE DEF p
<1>3. p[1] = "aliases"
  BY <1>2 DEF IsTwo
<1>4. \A m : ReadBack(m, p, action) = Asked(IF IsPut(m) /\ Verb[m] = "upsert" THEN "Aliases" ELSE "Alias",
                                            Verb[m], OneName(x), m, p)
  BY <1>2, <1>3, OnKind, OnKinds
<1>5. CASE call \in Requests("Aliases", JustPut, OneName(x), p)
  <2>1. call.path = p /\ call = Asked("Aliases", Verb[call.method], OneName(x), call.method, p)
    BY <1>5, MethodsInverted, VerbsRead
  <2>2. IsPut(call.method) /\ Verb[call.method] = "upsert"
    BY <1>5, MethodsOf
  <2>. QED  BY <1>4, <2>1, <2>2
<1>6. CASE call \in Requests("Aliases", JustRead, <<>>, <<"aliases">>)
  <2>1. /\ call.path = <<"aliases">>
        /\ call = Asked("Aliases", Verb[call.method], <<>>, call.method, <<"aliases">>)
    BY <1>6, MethodsInverted, VerbsRead
  <2>2. \A m, q : q = <<"aliases">> => ReadBack(m, q, action) = Asked("Aliases", Verb[m], <<>>, m, q)
    BY OnKind, OnKinds
  <2>. QED  BY <2>1, <2>2
<1>7. CASE call \in Requests("Alias", ReadDelete, OneName(x), p)
  <2>1. call.path = p /\ call = Asked("Alias", Verb[call.method], OneName(x), call.method, p)
    BY <1>7, MethodsInverted, VerbsRead
  <2>2. ~IsPut(call.method)
    BY <1>7, MethodsOf
  <2>. QED  BY <1>4, <2>1, <2>2
<1>. QED  BY <1>1, <1>5, <1>6, <1>7

LEMMA StopwordsRead ==
  ASSUME NEW x, NEW call \in Stopwords(One(x)) \cup StopwordsSet(One(x)), NEW action
  PROVE  call = ReadBack(call.method, call.path, action)
<1> DEFINE p == Two("stopwords", x)
<1>1. \/ call \in Requests("Stopwords", JustPut, OneName(x), p)
      \/ call \in Requests("Stopwords", JustRead, <<>>, <<"stopwords">>)
      \/ call \in Requests("StopwordsSet", ReadDelete, OneName(x), p)
  BY ShortPaths DEF Stopwords, StopwordsSet, JustPut, JustRead, ReadDelete, OneName
<1>2. IsTwo(p, "stopwords", x)
  BY Segments
<1>. HIDE DEF p
<1>3. p[1] = "stopwords"
  BY <1>2 DEF IsTwo
<1>4. \A m : ReadBack(m, p, action) = Asked(IF IsPut(m) /\ Verb[m] = "upsert" THEN "Stopwords" ELSE "StopwordsSet",
                                            Verb[m], OneName(x), m, p)
  BY <1>2, <1>3, OnKind, OnKinds
<1>5. CASE call \in Requests("Stopwords", JustPut, OneName(x), p)
  <2>1. call.path = p /\ call = Asked("Stopwords", Verb[call.method], OneName(x), call.method, p)
    BY <1>5, MethodsInverted, VerbsRead
  <2>2. IsPut(call.method) /\ Verb[call.method] = "upsert"
    BY <1>5, MethodsOf
  <2>. QED  BY <1>4, <2>1, <2>2
<1>6. CASE call \in Requests("Stopwords", JustRead, <<>>, <<"stopwords">>)
  <2>1. /\ call.path = <<"stopwords">>
        /\ call = Asked("Stopwords", Verb[call.method], <<>>, call.method, <<"stopwords">>)
    BY <1>6, MethodsInverted, VerbsRead
  <2>2. \A m, q : q = <<"stopwords">> => ReadBack(m, q, action) = Asked("Stopwords", Verb[m], <<>>, m, q)
    BY OnKind, OnKinds
  <2>. QED  BY <2>1, <2>2
<1>7. CASE call \in Requests("StopwordsSet", ReadDelete, OneName(x), p)
  <2>1. call.path = p /\ call = Asked("StopwordsSet", Verb[call.method], OneName(x), call.method, p)
    BY <1>7, MethodsInverted, VerbsRead
  <2>2. ~IsPut(call.method)
    BY <1>7, MethodsOf
  <2>. QED  BY <1>4, <2>1, <2>2
<1>. QED  BY <1>1, <1>5, <1>6, <1>7

LEMMA KeysRead ==
  ASSUME NEW x, NEW call \in Keys \cup Key(One(x)), NEW action
  PROVE  call = ReadBack(call.method, call.path, action)
<1> DEFINE p == Two("keys", x)
<1>1. \/ call \in Requests("Keys", CreateRead, <<>>, <<"keys">>)
      \/ call \in Requests("Key", ReadDelete, OneName(x), p)
  BY ShortPaths DEF Keys, Key, CreateRead, ReadDelete, OneName
<1>2. IsTwo(p, "keys", x)
  BY Segments
<1>. HIDE DEF p
<1>3. p[1] = "keys"
  BY <1>2 DEF IsTwo
<1>4. \A m : ReadBack(m, p, action) = Asked(IF IsPut(m) /\ Verb[m] = "upsert" THEN "Keys" ELSE "Key",
                                            Verb[m], OneName(x), m, p)
  BY <1>2, <1>3, OnKind, OnKinds
<1>5. CASE call \in Requests("Keys", CreateRead, <<>>, <<"keys">>)
  <2>1. /\ call.path = <<"keys">>
        /\ call = Asked("Keys", Verb[call.method], <<>>, call.method, <<"keys">>)
    BY <1>5, MethodsInverted, VerbsRead
  <2>2. \A m, q : q = <<"keys">> => ReadBack(m, q, action) = Asked("Keys", Verb[m], <<>>, m, q)
    BY OnKind, OnKinds
  <2>. QED  BY <2>1, <2>2
<1>6. CASE call \in Requests("Key", ReadDelete, OneName(x), p)
  <2>1. call.path = p /\ call = Asked("Key", Verb[call.method], OneName(x), call.method, p)
    BY <1>6, MethodsInverted, VerbsRead
  <2>2. ~(IsPut(call.method) /\ Verb[call.method] = "upsert")
    BY <1>6, MethodsOf
  <2>. QED  BY <1>4, <2>1, <2>2
<1>. QED  BY <1>1, <1>5, <1>6

LEMMA NLSearchModelsRead ==
  ASSUME NEW x, NEW call \in NLSearchModels \cup NLSearchModel(One(x)), NEW action
  PROVE  call = ReadBack(call.method, call.path, action)
<1> DEFINE p == Two("nl_search_models", x)
<1>1. \/ call \in Requests("NLSearchModels", CreateRead, <<>>, <<"nl_search_models">>)
      \/ call \in Requests("NLSearchModel", ReadReplaceDelete, OneName(x), p)
  BY ShortPaths DEF NLSearchModels, NLSearchModel, CreateRead, ReadReplaceDelete, OneName
<1>2. IsTwo(p, "nl_search_models", x)
  BY Segments
<1>. HIDE DEF p
<1>3. p[1] = "nl_search_models"
  BY <1>2 DEF IsTwo
<1>4. \A m : ReadBack(m, p, action) = Asked(IF IsPut(m) /\ ModelVerb[m] = "upsert" THEN "NLSearchModels" ELSE "NLSearchModel",
                                            ModelVerb[m], OneName(x), m, p)
  BY <1>2, <1>3, OnKind, OnKinds
<1>5. CASE call \in Requests("NLSearchModels", CreateRead, <<>>, <<"nl_search_models">>)
  <2>1. /\ call.path = <<"nl_search_models">>
        /\ call = Asked("NLSearchModels", ModelVerb[call.method], <<>>, call.method, <<"nl_search_models">>)
    BY <1>5, MethodsInverted, VerbsRead
  <2>2. \A m, q : q = <<"nl_search_models">> => ReadBack(m, q, action) = Asked("NLSearchModels", ModelVerb[m], <<>>, m, q)
    BY OnKind, OnKinds
  <2>. QED  BY <2>1, <2>2
<1>6. CASE call \in Requests("NLSearchModel", ReadReplaceDelete, OneName(x), p)
  <2>1. call.path = p /\ call = Asked("NLSearchModel", ModelVerb[call.method], OneName(x), call.method, p)
    BY <1>6, MethodsInverted, VerbsRead
  <2>2. ~(IsPut(call.method) /\ ModelVerb[call.method] = "upsert")
    BY DEF IsPut, ModelVerb, Verb
  <2>. QED  BY <1>4, <2>1, <2>2
<1>. QED  BY <1>1, <1>5, <1>6

LEMMA SynonymSetsRead ==
  ASSUME NEW x, NEW y, NEW call \in SynonymSets \cup SynonymSet(One(x), One(y)), NEW action
  PROVE  call = ReadBack(call.method, call.path, action)
<1> DEFINE two == Two("synonym_sets", x)
           three == Three("synonym_sets", x, "items")
           four == Four("synonym_sets", x, "items", y)
<1>0. IsTwo(two, "synonym_sets", x) /\ IsThree(three, "synonym_sets", x, "items") /\ IsFour(four, "synonym_sets", x, "items", y)
  BY Segments
<1>2. <<"synonym_sets">> \o One(x) = two
  BY ShortPaths
<1>8. /\ <<"synonym_sets">> \o One(x) \o <<"items">> = three
      /\ <<"synonym_sets">> \o One(x) \o <<"items">> \o One(y) = four
  <2>1. <<"synonym_sets">> \o One(x) \o <<"items">> = three /\ FourPath("synonym_sets", x, "items", y)
    BY LongPaths
  <2>. QED  BY <2>1 DEF FourPath
<1>. HIDE DEF two, three, four
<1>1. \/ call \in Requests("SynonymSets", JustRead, <<>>, <<"synonym_sets">>)
      \/ call \in Requests("SynonymSet", ReadPutDelete, OneName(x), two)
      \/ call \in Requests("SynonymSet", [list_items |-> "GET"], OneName(x), three)
      \/ call \in Requests("SynonymSet", Items, TwoNames(x, y), four)
  BY <1>2, <1>8 DEF SynonymSets, SynonymSet, JustRead, ReadPutDelete, Items, OneName, TwoNames
<1>3. two[1] = "synonym_sets" /\ three[1] = "synonym_sets" /\ four[1] = "synonym_sets"
  BY <1>0 DEF IsTwo, IsThree, IsFour
<1>4. CASE call \in Requests("SynonymSets", JustRead, <<>>, <<"synonym_sets">>)
  <2>1. call.path = <<"synonym_sets">> /\ call = Asked("SynonymSets", "retrieve", <<>>, call.method, <<"synonym_sets">>)
    BY <1>4, RequestsOf, MethodsOf
  <2>2. \A m, q : q = <<"synonym_sets">> => ReadBack(m, q, action) = Asked("SynonymSets", "retrieve", <<>>, m, q)
    BY OnSet, OnKinds
  <2>. QED  BY <2>1, <2>2
<1>5. CASE call \in Requests("SynonymSet", ReadPutDelete, OneName(x), two)
  <2>1. call.path = two /\ call = Asked("SynonymSet", Verb[call.method], OneName(x), call.method, two)
    BY <1>5, MethodsInverted, VerbsRead
  <2>2. ReadBack(call.method, two, action) = Asked("SynonymSet", Verb[call.method], OneName(x), call.method, two)
    BY <1>0, <1>3, OnSet, OnKinds
  <2>. QED  BY <2>1, <2>2
<1>6. CASE call \in Requests("SynonymSet", [list_items |-> "GET"], OneName(x), three)
  <2>1. call.path = three /\ call = Asked("SynonymSet", "list_items", OneName(x), call.method, three)
    BY <1>6 DEF Requests, Asked
  <2>2. ReadBack(call.method, three, action) = Asked("SynonymSet", "list_items", OneName(x), call.method, three)
    BY <1>0, <1>3, OnSet, OnKinds
  <2>. QED  BY <2>1, <2>2
<1>7. CASE call \in Requests("SynonymSet", Items, TwoNames(x, y), four)
  <2>1. call.path = four /\ call = Asked("SynonymSet", ItemVerb[call.method], TwoNames(x, y), call.method, four)
    BY <1>7, MethodsInverted, VerbsRead
  <2>2. ReadBack(call.method, four, action)
          = Asked("SynonymSet", ItemVerb[call.method], TwoNames(x, y), call.method, four)
    BY <1>0, <1>3, OnSet, OnKinds
  <2>. QED  BY <2>1, <2>2
<1>. QED  BY <1>1, <1>4, <1>5, <1>6, <1>7

LEMMA CurationSetsRead ==
  ASSUME NEW x, NEW y, NEW call \in CurationSets \cup CurationSet(One(x), One(y)), NEW action
  PROVE  call = ReadBack(call.method, call.path, action)
<1> DEFINE two == Two("curation_sets", x)
           three == Three("curation_sets", x, "items")
           four == Four("curation_sets", x, "items", y)
<1>0. IsTwo(two, "curation_sets", x) /\ IsThree(three, "curation_sets", x, "items") /\ IsFour(four, "curation_sets", x, "items", y)
  BY Segments
<1>2. <<"curation_sets">> \o One(x) = two
  BY ShortPaths
<1>8. /\ <<"curation_sets">> \o One(x) \o <<"items">> = three
      /\ <<"curation_sets">> \o One(x) \o <<"items">> \o One(y) = four
  <2>1. <<"curation_sets">> \o One(x) \o <<"items">> = three /\ FourPath("curation_sets", x, "items", y)
    BY LongPaths
  <2>. QED  BY <2>1 DEF FourPath
<1>. HIDE DEF two, three, four
<1>1. \/ call \in Requests("CurationSets", JustRead, <<>>, <<"curation_sets">>)
      \/ call \in Requests("CurationSet", ReadPutDelete, OneName(x), two)
      \/ call \in Requests("CurationSet", [list_items |-> "GET"], OneName(x), three)
      \/ call \in Requests("CurationSet", Items, TwoNames(x, y), four)
  BY <1>2, <1>8 DEF CurationSets, CurationSet, JustRead, ReadPutDelete, Items, OneName, TwoNames
<1>3. two[1] = "curation_sets" /\ three[1] = "curation_sets" /\ four[1] = "curation_sets"
  BY <1>0 DEF IsTwo, IsThree, IsFour
<1>4. CASE call \in Requests("CurationSets", JustRead, <<>>, <<"curation_sets">>)
  <2>1. call.path = <<"curation_sets">> /\ call = Asked("CurationSets", "retrieve", <<>>, call.method, <<"curation_sets">>)
    BY <1>4, RequestsOf, MethodsOf
  <2>2. \A m, q : q = <<"curation_sets">> => ReadBack(m, q, action) = Asked("CurationSets", "retrieve", <<>>, m, q)
    BY OnSet, OnKinds
  <2>. QED  BY <2>1, <2>2
<1>5. CASE call \in Requests("CurationSet", ReadPutDelete, OneName(x), two)
  <2>1. call.path = two /\ call = Asked("CurationSet", Verb[call.method], OneName(x), call.method, two)
    BY <1>5, MethodsInverted, VerbsRead
  <2>2. ReadBack(call.method, two, action) = Asked("CurationSet", Verb[call.method], OneName(x), call.method, two)
    BY <1>0, <1>3, OnSet, OnKinds
  <2>. QED  BY <2>1, <2>2
<1>6. CASE call \in Requests("CurationSet", [list_items |-> "GET"], OneName(x), three)
  <2>1. call.path = three /\ call = Asked("CurationSet", "list_items", OneName(x), call.method, three)
    BY <1>6 DEF Requests, Asked
  <2>2. ReadBack(call.method, three, action) = Asked("CurationSet", "list_items", OneName(x), call.method, three)
    BY <1>0, <1>3, OnSet, OnKinds
  <2>. QED  BY <2>1, <2>2
<1>7. CASE call \in Requests("CurationSet", Items, TwoNames(x, y), four)
  <2>1. call.path = four /\ call = Asked("CurationSet", ItemVerb[call.method], TwoNames(x, y), call.method, four)
    BY <1>7, MethodsInverted, VerbsRead
  <2>2. ReadBack(call.method, four, action)
          = Asked("CurationSet", ItemVerb[call.method], TwoNames(x, y), call.method, four)
    BY <1>0, <1>3, OnSet, OnKinds
  <2>. QED  BY <2>1, <2>2
<1>. QED  BY <1>1, <1>4, <1>5, <1>6, <1>7

LEMMA AnalyticsEventsRead ==
  ASSUME NEW call \in AnalyticsEvents, NEW action
  PROVE  call = ReadBack(call.method, call.path, action)
<1> DEFINE p(w) == Two("analytics", w)
<1>1. \/ call \in Requests("AnalyticsEvents", CreateRead, <<>>, p("events"))
      \/ call \in Requests("AnalyticsEvents", [flush |-> "POST"], <<>>, p("flush"))
      \/ call \in Requests("AnalyticsEvents", [status |-> "GET"], <<>>, p("status"))
  BY DEF AnalyticsEvents, CreateRead, Two
<1>2. \A w : IsTwo(p(w), "analytics", w)
  BY Segments
<1>. HIDE DEF p
<1>3. CASE call \in Requests("AnalyticsEvents", CreateRead, <<>>, p("events"))
  <2>1. call.path = p("events") /\ call = Asked("AnalyticsEvents", Verb[call.method], <<>>, call.method, p("events"))
    BY <1>3, MethodsInverted, VerbsRead
  <2>. QED  BY <1>2, <2>1, OnAnalytics
<1>4. CASE call \in Requests("AnalyticsEvents", [flush |-> "POST"], <<>>, p("flush"))
  <2>1. call.path = p("flush") /\ call = Asked("AnalyticsEvents", "flush", <<>>, call.method, p("flush"))
    BY <1>4 DEF Requests, Asked
  <2>. QED  BY <1>2, <2>1, OnAnalytics
<1>5. CASE call \in Requests("AnalyticsEvents", [status |-> "GET"], <<>>, p("status"))
  <2>1. call.path = p("status") /\ call = Asked("AnalyticsEvents", "status", <<>>, call.method, p("status"))
    BY <1>5 DEF Requests, Asked
  <2>. QED  BY <1>2, <2>1, OnAnalytics
<1>. QED  BY <1>1, <1>3, <1>4, <1>5

LEMMA AnalyticsRulesRead ==
  ASSUME NEW x, NEW action,
         NEW call \in UNION {AnalyticsRules(One(x)), AnalyticsRule(One(x)),
                             AnalyticsRulesV1(One(x)), AnalyticsRuleV1(One(x))}
  PROVE  call = ReadBack(call.method, call.path, action)
<1> DEFINE p == Three("analytics", "rules", x)
           all == Two("analytics", "rules")
<1>1. \/ call \in Requests("AnalyticsRules", JustPut, OneName(x), p)
      \/ call \in Requests("AnalyticsRules", CreateRead, <<>>, all)
      \/ call \in Requests("AnalyticsRule", ReadDelete, OneName(x), p)
  <2>1. <<"analytics", "rules">> \o One(x) = p
    BY ShortPaths
  <2>2. <<"analytics", "rules">> = all
    BY DEF Two
  <2>. QED  BY <2>1, <2>2 DEF AnalyticsRules, AnalyticsRule, AnalyticsRulesV1, AnalyticsRuleV1, JustPut,
                               CreateRead, ReadDelete, OneName
<1>2. IsThree(p, "analytics", "rules", x) /\ IsTwo(all, "analytics", "rules")
  BY Segments
<1>. HIDE DEF p, all
<1>3. \A m : ReadBack(m, p, action) =
               Asked(IF IsPut(m) THEN "AnalyticsRules" ELSE "AnalyticsRule", Verb[m], OneName(x), m, p)
  BY <1>2, OnAnalytics
<1>4. CASE call \in Requests("AnalyticsRules", JustPut, OneName(x), p)
  <2>1. /\ call.path = p /\ call = Asked("AnalyticsRules", Verb[call.method], OneName(x), call.method, p)
        /\ IsPut(call.method)
    BY <1>4, MethodsInverted, VerbsRead, MethodsOf
  <2>. QED  BY <1>3, <2>1
<1>5. CASE call \in Requests("AnalyticsRules", CreateRead, <<>>, all)
  <2>1. call.path = all /\ call = Asked("AnalyticsRules", Verb[call.method], <<>>, call.method, all)
    BY <1>5, MethodsInverted, VerbsRead
  <2>2. ReadBack(call.method, all, action) = Asked("AnalyticsRules", Verb[call.method], <<>>, call.method, all)
    BY <1>2, OnAnalytics
  <2>. QED  BY <2>1, <2>2
<1>6. CASE call \in Requests("AnalyticsRule", ReadDelete, OneName(x), p)
  <2>1. /\ call.path = p /\ call = Asked("AnalyticsRule", Verb[call.method], OneName(x), call.method, p)
        /\ ~IsPut(call.method)
    BY <1>6, MethodsInverted, VerbsRead, MethodsOf
  <2>. QED  BY <1>3, <2>1
<1>. QED  BY <1>1, <1>4, <1>5, <1>6

LEMMA ConversationsRead ==
  ASSUME NEW x, NEW action, NEW call \in ConversationsModels \cup ConversationModel(One(x))
  PROVE  call = ReadBack(call.method, call.path, action)
<1> DEFINE p == Three("conversations", "models", x)
           all == Two("conversations", "models")
<1>1. \/ call \in Requests("ConversationsModels", CreateRead, <<>>, all)
      \/ call \in Requests("ConversationModel", ReadReplaceDelete, OneName(x), p)
  <2>1. <<"conversations", "models">> \o One(x) = p
    BY ShortPaths
  <2>2. <<"conversations", "models">> = all
    BY DEF Two
  <2>. QED  BY <2>1, <2>2 DEF ConversationsModels, ConversationModel, CreateRead, ReadReplaceDelete, OneName
<1>2. IsThree(p, "conversations", "models", x) /\ IsTwo(all, "conversations", "models")
  BY Segments
<1>. HIDE DEF p, all
<1>3. CASE call \in Requests("ConversationsModels", CreateRead, <<>>, all)
  <2>1. call.path = all /\ call = Asked("ConversationsModels", Verb[call.method], <<>>, call.method, all)
    BY <1>3, MethodsInverted, VerbsRead
  <2>2. ReadBack(call.method, all, action) = Asked("ConversationsModels", Verb[call.method], <<>>, call.method, all)
    BY <1>2, OnModels
  <2>. QED  BY <2>1, <2>2
<1>4. CASE call \in Requests("ConversationModel", ReadReplaceDelete, OneName(x), p)
  <2>1. call.path = p /\ call = Asked("ConversationModel", ModelVerb[call.method], OneName(x), call.method, p)
    BY <1>4, MethodsInverted, VerbsRead
  <2>2. ReadBack(call.method, p, action) = Asked("ConversationModel", ModelVerb[call.method], OneName(x), call.method, p)
    BY <1>2, OnModels
  <2>. QED  BY <2>1, <2>2
<1>. QED  BY <1>1, <1>3, <1>4

LEMMA StemmingRead ==
  ASSUME NEW x, NEW action, NEW call \in StemmingDictionaries \cup StemmingDictionary(One(x))
  PROVE  call = ReadBack(call.method, call.path, action)
<1> DEFINE p(w) == Three("stemming", "dictionaries", w)
           all == Two("stemming", "dictionaries")
<1>1. \/ call \in Requests("StemmingDictionaries", JustRead, <<>>, all)
      \/ call \in Requests("StemmingDictionaries", [upsert |-> "POST"], <<>>, p("import"))
      \/ call \in Requests("StemmingDictionary", JustRead, OneName(x), p(x))
  <2>1. <<"stemming", "dictionaries">> \o One(x) = p(x)
    BY ShortPaths
  <2>2. <<"stemming", "dictionaries">> = all /\ <<"stemming", "dictionaries", "import">> = p("import")
    BY DEF Two, Three
  <2>. QED  BY <2>1, <2>2 DEF StemmingDictionaries, StemmingDictionary, JustRead, OneName
<1>2. /\ \A w : IsThree(p(w), "stemming", "dictionaries", w)
      /\ IsTwo(all, "stemming", "dictionaries")
  BY Segments
<1>. HIDE DEF p, all
<1>3. CASE call \in Requests("StemmingDictionaries", JustRead, <<>>, all)
  <2>1. call.path = all /\ call = Asked("StemmingDictionaries", "retrieve", <<>>, call.method, all)
    BY <1>3, RequestsOf, MethodsOf
  <2>2. ReadBack(call.method, all, action) = Asked("StemmingDictionaries", "retrieve", <<>>, call.method, all)
    BY <1>2, OnModels
  <2>. QED  BY <2>1, <2>2
<1>4. CASE call \in Requests("StemmingDictionaries", [upsert |-> "POST"], <<>>, p("import"))
  <2>1. /\ call.path = p("import") /\ call = Asked("StemmingDictionaries", "upsert", <<>>, call.method, p("import"))
        /\ call.method = "POST"
    BY <1>4 DEF Requests, Asked
  <2>2. ReadBack(call.method, p("import"), action)
          = Asked("StemmingDictionaries", "upsert", <<>>, call.method, p("import"))
    BY <1>2, <2>1, OnModels
  <2>. QED  BY <2>1, <2>2
<1>5. CASE call \in Requests("StemmingDictionary", JustRead, OneName(x), p(x))
  <2>1. /\ call.path = p(x) /\ call = Asked("StemmingDictionary", "retrieve", OneName(x), call.method, p(x))
        /\ call.method = "GET"
    BY <1>5 DEF Requests, Asked, JustRead
  <2>2. ReadBack(call.method, p(x), action) = Asked("StemmingDictionary", "retrieve", OneName(x), call.method, p(x))
    BY <1>2, <2>1, OnModels
  <2>. QED  BY <2>1, <2>2
<1>. QED  BY <1>1, <1>3, <1>4, <1>5

LEMMA OperationsRead ==
  ASSUME NEW call \in UNION {MultiSearch, Operations, Debug, Metrics}, NEW action
  PROVE  call = ReadBack(call.method, call.path, action)
<1>1. ASSUME NEW p, NEW m
      PROVE  /\ p[1] = "multi_search" => ReadBack(m, p, action) = Asked("MultiSearch", "perform", <<>>, m, p)
             /\ p[1] = "debug" => ReadBack(m, p, action) = Asked("Debug", "retrieve", <<>>, m, p)
             /\ p[1] = "metrics.json" => ReadBack(m, p, action) = Asked("Metrics", "retrieve", <<>>, m, p)
             /\ p[1] \in {"health", "config", "operations"} => ReadBack(m, p, action) = OperationsAsked(m, p)
  BY DEF ReadBack
<1>2. CASE call \in UNION {MultiSearch, Debug, Metrics}
  <2>1. \/ /\ call.path = <<"multi_search">>
           /\ call = Asked("MultiSearch", "perform", <<>>, call.method, call.path)
        \/ /\ call.path = <<"debug">>
           /\ call = Asked("Debug", "retrieve", <<>>, call.method, call.path)
        \/ /\ call.path = <<"metrics.json">>
           /\ call = Asked("Metrics", "retrieve", <<>>, call.method, call.path)
    BY <1>2 DEF MultiSearch, Debug, Metrics, Requests, Asked
  <2>. QED  BY <1>1, <2>1
<1>3. CASE call \in Requests("Operations", [is_healthy |-> "GET"], <<>>, <<"health">>)
  <2>1. call.path = <<"health">> /\ call = Asked("Operations", "is_healthy", <<>>, call.method, call.path)
    BY <1>3 DEF Requests, Asked
  <2>2. \A m, p : p = <<"health">> => OperationsAsked(m, p) = Asked("Operations", "is_healthy", <<>>, m, p)
    BY DEF OperationsAsked
  <2>. QED  BY <1>1, <2>1, <2>2
<1>4. CASE call \in Requests("Operations", [toggle_slow_request_log |-> "POST"], <<>>, <<"config">>)
  <2>1. /\ call.path = <<"config">>
        /\ call = Asked("Operations", "toggle_slow_request_log", <<>>, call.method, call.path)
    BY <1>4 DEF Requests, Asked
  <2>2. \A m, p : p = <<"config">> =>
          OperationsAsked(m, p) = Asked("Operations", "toggle_slow_request_log", <<>>, m, p)
    BY DEF OperationsAsked
  <2>. QED  BY <1>1, <2>1, <2>2
<1>5. ASSUME NEW operation, NEW p, call \in Requests("Operations", [perform |-> "POST"], <<operation>>, p),
             p[1] = "operations",
             operation = IF Len(p) = 2 THEN <<p[2]>> ELSE <<p[2], p[3]>>
      PROVE  call = ReadBack(call.method, call.path, action)
  <2>1. call.path = p /\ call = Asked("Operations", "perform", <<operation>>, call.method, p)
    BY <1>5 DEF Requests, Asked
  <2>2. OperationsAsked(call.method, p) = Asked("Operations", "perform", <<operation>>, call.method, p)
    BY <1>5 DEF OperationsAsked
  <2>. QED  BY <1>1, <1>5, <2>1, <2>2
<1>6. ASSUME NEW w, call \in Requests("Operations", [perform |-> "POST"], <<<<w>>>>, <<"operations">> \o <<w>>)
      PROVE  call = ReadBack(call.method, call.path, action)
  <2>1. <<"operations">> \o <<w>> = <<"operations", w>>
    BY TwoJoined
  <2>2. ASSUME NEW p, p = <<"operations", w>>
        PROVE  p[1] = "operations" /\ <<w>> = IF Len(p) = 2 THEN <<p[2]>> ELSE <<p[2], p[3]>>
    BY <2>2
  <2>. QED  BY <1>5, <1>6, <2>1, <2>2
<1>7. ASSUME NEW v, NEW w,
             call \in Requests("Operations", [perform |-> "POST"], <<<<v, w>>>>, <<"operations">> \o <<v, w>>)
      PROVE  call = ReadBack(call.method, call.path, action)
  <2> DEFINE operation == <<v, w>>
             p == <<"operations", v, w>>
  <2>1. <<"operations">> \o <<v, w>> = p
    BY ThreeJoined
  <2>2. call \in Requests("Operations", [perform |-> "POST"], <<operation>>, p)
    BY <1>7, <2>1
  <2>3. p[1] = "operations" /\ operation = IF Len(p) = 2 THEN <<p[2]>> ELSE <<p[2], p[3]>>
    OBVIOUS
  <2>. HIDE DEF operation, p
  <2>. QED  BY <1>5, <2>2, <2>3
<1>8. CASE call \in Operations
  <2>1. PICK operation \in {<<"snapshot">>, <<"vote">>, <<"db", "compact">>, <<"cache", "clear">>} :
          \/ call \in Requests("Operations", [is_healthy |-> "GET"], <<>>, <<"health">>)
          \/ call \in Requests("Operations", [toggle_slow_request_log |-> "POST"], <<>>, <<"config">>)
          \/ call \in Requests("Operations", [perform |-> "POST"], <<operation>>, <<"operations">> \o operation)
    BY <1>8 DEF Operations
  <2>. QED  BY <1>3, <1>4, <1>6, <1>7, <2>1
<1>. QED  BY <1>2, <1>8

-----------------------------------------------------------------------------
(* A request of a client is read back as what it asks for.                 *)

LEMMA SingleSeq ==
  ASSUME NEW S, NEW n \in Seq(S), Len(n) = 1
  PROVE  n = <<n[1]>>
OBVIOUS

LEMMA NamesOf ==
  ASSUME NEW class, NEW methods, NEW names, NEW p, NEW call \in Requests(class, methods, names, p)
  PROVE  call.names = names /\ call.class = class
BY DEF Requests

LEMMA PlainOne ==
  ASSUME NEW call, PlainNames(call), call.class # "Operations"
  PROVE  /\ \A n \in Seq(STRING) : call.names = <<n>> => n = One(n[1])
         /\ \A n, k \in Seq(STRING) : call.names = <<n, k>> => n = One(n[1]) /\ k = One(k[1]) /\ Word(k[1])
<1>1. \A k \in DOMAIN call.names : Plain(call.names[k])
  BY DEF PlainNames
<1>2. ASSUME NEW n \in Seq(STRING), Plain(n)
      PROVE  n = One(n[1]) /\ Word(n[1])
  <2>1. n = <<n[1]>>
    BY <1>2, SingleSeq DEF Plain
  <2>2. Word(n[1])
    BY <1>2 DEF Plain, Word
  <2>. QED  BY <2>1, <2>2 DEF One
<1>3. ASSUME NEW n \in Seq(STRING), call.names = <<n>>
      PROVE  Plain(n)
  <2>1. 1 \in DOMAIN call.names /\ call.names[1] = n
    BY <1>3
  <2>. QED  BY <1>1, <2>1
<1>4. ASSUME NEW n \in Seq(STRING), NEW k \in Seq(STRING), call.names = <<n, k>>
      PROVE  Plain(n) /\ Plain(k)
  <2>1. 1 \in DOMAIN call.names /\ call.names[1] = n /\ 2 \in DOMAIN call.names /\ call.names[2] = k
    BY <1>4
  <2>. QED  BY <1>1, <2>1
<1>. QED  BY <1>2, <1>3, <1>4

LEMMA NamedRead ==
  ASSUME NEW call, PlainNames(call), NEW action, Agrees(call, action), NEW n \in Seq(STRING),
         call \in UNION {Collection(n), Documents(n), DocumentsDelete(n), DocumentsSearch(n), DocumentsExport(n),
                         DocumentsImport(n), Alias(n), Key(n), StopwordsSet(n), AnalyticsRule(n),
                         AnalyticsRuleV1(n), ConversationModel(n), NLSearchModel(n), StemmingDictionary(n)}
  PROVE  call = ReadBack(call.method, call.path, action)
<1> DEFINE x == n[1]
<1>1. ASSUME call.names = <<n>>, call.class # "Operations"
      PROVE  n = One(x)
  BY <1>1, PlainOne
<1>. HIDE DEF x
<1>2. CASE call \in Collection(n)
  <2>1. call.names = <<n>> /\ call.class # "Operations"
    BY <1>2 DEF Collection, Requests
  <2>2. call \in Collection(One(x))
    BY <1>1, <1>2, <2>1
  <2>. QED  BY <2>2, CollectionRead
<1>3. CASE call \in Documents(n)
  <2>1. call.names = <<n>> /\ call.class # "Operations"
    <3>1. call \in Requests("Documents", [create |-> "POST", upsert |-> "POST", update |-> "PATCH"], <<n>>,
                           DocumentsPath(n, ""))
      BY <1>3 DEF Documents
    <3>2. call.names = <<n>> /\ call.class = "Documents"
      BY <3>1, NamesOf
    <3>. QED  BY <3>2
  <2>2. call \in Documents(One(x))
    BY <1>1, <1>3, <2>1
  <2>. QED  BY <2>2, DocumentsRead
<1>4. CASE call \in DocumentsDelete(n)
  <2>1. call.names = <<n>> /\ call.class # "Operations"
    <3>. DEFINE methods == [delete |-> "DELETE"]
                p == DocumentsPath(n, "")
    <3>1. call \in Requests("Documents", methods, <<n>>, p)
      BY <1>4 DEF DocumentsDelete
    <3>. HIDE DEF methods, p
    <3>2. call.names = <<n>> /\ call.class = "Documents"
      BY <3>1, NamesOf
    <3>. QED  BY <3>2
  <2>2. call \in DocumentsDelete(One(x))
    BY <1>1, <1>4, <2>1
  <2>. QED  BY <2>2, DocumentsDeleteRead
<1>5. CASE call \in DocumentsSearch(n)
  <2>1. call.names = <<n>> /\ call.class # "Operations"
    BY <1>5 DEF DocumentsSearch, Requests
  <2>2. call \in DocumentsSearch(One(x))
    BY <1>1, <1>5, <2>1
  <2>. QED  BY <2>2, BulkRead
<1>6. CASE call \in DocumentsExport(n)
  <2>1. call.names = <<n>> /\ call.class # "Operations"
    BY <1>6 DEF DocumentsExport, Requests
  <2>2. call \in DocumentsExport(One(x))
    BY <1>1, <1>6, <2>1
  <2>. QED  BY <2>2, BulkRead
<1>7. CASE call \in DocumentsImport(n)
  <2>1. call.names = <<n>> /\ call.class # "Operations"
    BY <1>7 DEF DocumentsImport, Requests
  <2>2. call \in DocumentsImport(One(x))
    BY <1>1, <1>7, <2>1
  <2>. QED  BY <2>2, BulkRead
<1>8. CASE call \in Alias(n)
  <2>1. call.names = <<n>> /\ call.class # "Operations"
    BY <1>8 DEF Alias, Requests
  <2>2. call \in Alias(One(x))
    BY <1>1, <1>8, <2>1
  <2>. QED  BY <2>2, AliasesRead
<1>9. CASE call \in Key(n)
  <2>1. call.names = <<n>> /\ call.class # "Operations"
    BY <1>9 DEF Key, Requests
  <2>2. call \in Key(One(x))
    BY <1>1, <1>9, <2>1
  <2>. QED  BY <2>2, KeysRead
<1>10. CASE call \in StopwordsSet(n)
  <2>1. call.names = <<n>> /\ call.class # "Operations"
    BY <1>10 DEF StopwordsSet, Requests
  <2>2. call \in StopwordsSet(One(x))
    BY <1>1, <1>10, <2>1
  <2>. QED  BY <2>2, StopwordsRead
<1>11. CASE call \in AnalyticsRule(n)
  <2>1. call.names = <<n>> /\ call.class # "Operations"
    BY <1>11 DEF AnalyticsRule, Requests
  <2>2. call \in AnalyticsRule(One(x))
    BY <1>1, <1>11, <2>1
  <2>. QED  BY <2>2, AnalyticsRulesRead
<1>12. CASE call \in AnalyticsRuleV1(n)
  <2>1. call.names = <<n>> /\ call.class # "Operations"
    BY <1>12 DEF AnalyticsRuleV1, Requests
  <2>2. call \in AnalyticsRuleV1(One(x))
    BY <1>1, <1>12, <2>1
  <2>. QED  BY <2>2, AnalyticsRulesRead
<1>13. CASE call \in ConversationModel(n)
  <2>1. call.names = <<n>> /\ call.class # "Operations"
    BY <1>13 DEF ConversationModel, Requests
  <2>2. call \in ConversationModel(One(x))
    BY <1>1, <1>13, <2>1
  <2>. QED  BY <2>2, ConversationsRead
<1>14. CASE call \in NLSearchModel(n)
  <2>1. call.names = <<n>> /\ call.class # "Operations"
    BY <1>14 DEF NLSearchModel, Requests
  <2>2. call \in NLSearchModel(One(x))
    BY <1>1, <1>14, <2>1
  <2>. QED  BY <2>2, NLSearchModelsRead
<1>15. CASE call \in StemmingDictionary(n)
  <2>1. call.names = <<n>> /\ call.class # "Operations"
    BY <1>15 DEF StemmingDictionary, Requests
  <2>2. call \in StemmingDictionary(One(x))
    BY <1>1, <1>15, <2>1
  <2>. QED  BY <2>2, StemmingRead
<1>. QED  BY <1>2, <1>3, <1>4, <1>5, <1>6, <1>7, <1>8,
            <1>9, <1>10, <1>11, <1>12, <1>13, <1>14, <1>15

LEMMA KindsRead ==
  ASSUME NEW call, PlainNames(call), NEW action, NEW n \in Seq(STRING),
         call \in UNION {Aliases(n), Stopwords(n), AnalyticsRules(n), AnalyticsRulesV1(n)}
  PROVE  call = ReadBack(call.method, call.path, action)
<1> DEFINE x == n[1]
<1>1. ASSUME call.names = <<n>>, call.class # "Operations"
      PROVE  n = One(x)
  BY <1>1, PlainOne
<1>. HIDE DEF x
<1>2. CASE call \in Aliases(n)
  <2>1. (call.names = <<n>> /\ call.class # "Operations") \/ call \in Aliases(One(x))
    BY <1>2 DEF Aliases, Requests
  <2>2. call \in Aliases(One(x))
    BY <1>1, <1>2, <2>1
  <2>. QED  BY <2>2, AliasesRead
<1>3. CASE call \in Stopwords(n)
  <2>1. (call.names = <<n>> /\ call.class # "Operations") \/ call \in Stopwords(One(x))
    BY <1>3 DEF Stopwords, Requests
  <2>2. call \in Stopwords(One(x))
    BY <1>1, <1>3, <2>1
  <2>. QED  BY <2>2, StopwordsRead
<1>4. CASE call \in AnalyticsRules(n)
  <2>1. (call.names = <<n>> /\ call.class # "Operations") \/ call \in AnalyticsRules(One(x))
    BY <1>4 DEF AnalyticsRules, Requests
  <2>2. call \in AnalyticsRules(One(x))
    BY <1>1, <1>4, <2>1
  <2>. QED  BY <2>2, AnalyticsRulesRead
<1>5. CASE call \in AnalyticsRulesV1(n)
  <2>1. (call.names = <<n>> /\ call.class # "Operations") \/ call \in AnalyticsRulesV1(One(x))
    BY <1>5 DEF AnalyticsRulesV1, Requests
  <2>2. call \in AnalyticsRulesV1(One(x))
    BY <1>1, <1>5, <2>1
  <2>. QED  BY <2>2, AnalyticsRulesRead
<1>. QED  BY <1>2, <1>3, <1>4, <1>5

LEMMA WithinRead ==
  ASSUME NEW call, PlainNames(call), NEW action, NEW n \in Seq(STRING), NEW k \in Seq(STRING),
         call \in UNION {Document(n, k), Overrides(n, k), Override(n, k), Synonyms(n, k), Synonym(n, k),
                         SynonymSet(n, k), CurationSet(n, k)}
  PROVE  call = ReadBack(call.method, call.path, action)
<1> DEFINE x == n[1]
           y == k[1]
<1>1. ASSUME call.names = <<n, k>>, call.class # "Operations"
      PROVE  n = One(x) /\ k = One(y) /\ Word(y)
  BY <1>1, PlainOne
<1>2. ASSUME call.names = <<n>>, call.class # "Operations"
      PROVE  n = One(x)
  BY <1>2, PlainOne
<1>3. PICK z : Word(z)
  <2>1. Word("a")
    BY DEF Word
  <2>. QED  BY <2>1
<1>. HIDE DEF x, y
<1>4. CASE call \in Document(n, k)
  <2>1. call.names = <<n, k>> /\ call.class # "Operations"
    BY <1>4 DEF Document, Requests
  <2>2. Word(y) /\ call \in Document(One(x), One(y))
    BY <1>1, <1>4, <2>1
  <2>. QED  BY <2>2, DocumentRead
<1>5. CASE call \in Override(n, k)
  <2>1. call.names = <<n, k>> /\ call.class # "Operations"
    BY <1>5 DEF Override, Requests
  <2>2. Word(y) /\ call \in Override(One(x), One(y))
    BY <1>1, <1>5, <2>1
  <2>. QED  BY <2>2, OverridesRead
<1>6. CASE call \in Synonym(n, k)
  <2>1. call.names = <<n, k>> /\ call.class # "Operations"
    BY <1>6 DEF Synonym, Requests
  <2>2. Word(y) /\ call \in Synonym(One(x), One(y))
    BY <1>1, <1>6, <2>1
  <2>. QED  BY <2>2, SynonymsRead
<1>7. CASE call \in Overrides(n, k)
  <2>1. /\ call.class # "Operations"
        /\ call.names = <<n, k>> \/ (call.names = <<n>> /\ call \in Overrides(n, One(z)))
    <3>1. CASE call \in Requests("Overrides", [upsert |-> "PUT"], <<n, k>>, <<"collections">> \o n \o <<"overrides">> \o k)
      BY <3>1, NamesOf
    <3>2. CASE call \in Requests("Overrides", [retrieve |-> "GET"], <<n>>, <<"collections">> \o n \o <<"overrides", "">>)
      <4> DEFINE methods == [retrieve |-> "GET"]
                 p == <<"collections">> \o n \o <<"overrides", "">>
      <4>0. call \in Requests("Overrides", methods, <<n>>, p)
        BY <3>2
      <4>. HIDE DEF methods, p
      <4>1. call.names = <<n>> /\ call.class = "Overrides"
        BY <4>0, NamesOf
      <4>2. call \in Overrides(n, One(z))
        BY <3>2 DEF Overrides
      <4>. QED  BY <4>1, <4>2
    <3>. QED  BY <1>7, <3>1, <3>2 DEF Overrides
  <2>2. CASE call.names = <<n, k>>
    <3>1. Word(y) /\ call \in Overrides(One(x), One(y))
      BY <1>1, <1>7, <2>1, <2>2
    <3>. QED  BY <3>1, OverridesRead
  <2>3. CASE call.names = <<n>> /\ call \in Overrides(n, One(z))
    <3>1. call \in Overrides(One(x), One(z))
      BY <1>2, <2>1, <2>3
    <3>. QED  BY <1>3, <3>1, OverridesRead
  <2>. QED  BY <2>1, <2>2, <2>3
<1>8. CASE call \in Synonyms(n, k)
  <2>1. /\ call.class # "Operations"
        /\ call.names = <<n, k>> \/ (call.names = <<n>> /\ call \in Synonyms(n, One(z)))
    <3>1. CASE call \in Requests("Synonyms", [upsert |-> "PUT"], <<n, k>>, <<"collections">> \o n \o <<"synonyms">> \o k)
      BY <3>1, NamesOf
    <3>2. CASE call \in Requests("Synonyms", [retrieve |-> "GET"], <<n>>, <<"collections">> \o n \o <<"synonyms", "">>)
      <4> DEFINE methods == [retrieve |-> "GET"]
                 p == <<"collections">> \o n \o <<"synonyms", "">>
      <4>0. call \in Requests("Synonyms", methods, <<n>>, p)
        BY <3>2
      <4>. HIDE DEF methods, p
      <4>1. call.names = <<n>> /\ call.class = "Synonyms"
        BY <4>0, NamesOf
      <4>2. call \in Synonyms(n, One(z))
        BY <3>2 DEF Synonyms
      <4>. QED  BY <4>1, <4>2
    <3>. QED  BY <1>8, <3>1, <3>2 DEF Synonyms
  <2>2. CASE call.names = <<n, k>>
    <3>1. Word(y) /\ call \in Synonyms(One(x), One(y))
      BY <1>1, <1>8, <2>1, <2>2
    <3>. QED  BY <3>1, SynonymsRead
  <2>3. CASE call.names = <<n>> /\ call \in Synonyms(n, One(z))
    <3>1. call \in Synonyms(One(x), One(z))
      BY <1>2, <2>1, <2>3
    <3>. QED  BY <1>3, <3>1, SynonymsRead
  <2>. QED  BY <2>1, <2>2, <2>3
<1>9. CASE call \in SynonymSet(n, k)
  <2>1. /\ call.class # "Operations"
        /\ call.names = <<n, k>> \/ (call.names = <<n>> /\ call \in SynonymSet(n, One(z)))
    BY <1>9 DEF SynonymSet, Requests
  <2>2. CASE call.names = <<n, k>>
    <3>1. call \in SynonymSet(One(x), One(y))
      BY <1>1, <1>9, <2>1, <2>2
    <3>. QED  BY <3>1, SynonymSetsRead
  <2>3. CASE call.names = <<n>> /\ call \in SynonymSet(n, One(z))
    <3>1. call \in SynonymSet(One(x), One(z))
      BY <1>2, <2>1, <2>3
    <3>. QED  BY <1>3, <3>1, SynonymSetsRead
  <2>. QED  BY <2>1, <2>2, <2>3
<1>10. CASE call \in CurationSet(n, k)
  <2>1. /\ call.class # "Operations"
        /\ call.names = <<n, k>> \/ (call.names = <<n>> /\ call \in CurationSet(n, One(z)))
    BY <1>10 DEF CurationSet, Requests
  <2>2. CASE call.names = <<n, k>>
    <3>1. call \in CurationSet(One(x), One(y))
      BY <1>1, <1>10, <2>1, <2>2
    <3>. QED  BY <3>1, CurationSetsRead
  <2>3. CASE call.names = <<n>> /\ call \in CurationSet(n, One(z))
    <3>1. call \in CurationSet(One(x), One(z))
      BY <1>2, <2>1, <2>3
    <3>. QED  BY <1>3, <3>1, CurationSetsRead
  <2>. QED  BY <2>1, <2>2, <2>3
<1>. QED  BY <1>4, <1>5, <1>6, <1>7, <1>8, <1>9, <1>10

LEMMA ClientRead ==
  ASSUME NEW call \in Client, PlainNames(call), NEW action, Agrees(call, action)
  PROVE  call = ReadBack(call.method, call.path, action)
<1>1. CASE call \in OfClient
  <2>1. CASE call \in UNION {MultiSearch, Operations, Debug, Metrics}
    BY <2>1, OperationsRead
  <2>2. CASE call \in UNION {Collections, Keys, SynonymSets, CurationSets}
    BY <2>2, CollectionsRead, KeysRead, SynonymSetsRead, CurationSetsRead
  <2>3. CASE call \in UNION {AnalyticsEvents, ConversationsModels, NLSearchModels, StemmingDictionaries}
    BY <2>3, AnalyticsEventsRead, ConversationsRead, NLSearchModelsRead, StemmingRead
  <2>. QED  BY <1>1, <2>1, <2>2, <2>3 DEF OfClient
<1>2. ASSUME NEW n \in Names, call \in ByName(n)
      PROVE  call = ReadBack(call.method, call.path, action)
  <2>1. n \in Seq(STRING)
    BY RequestsAssumption
  <2>2. CASE call \in UNION {Aliases(n), Stopwords(n), AnalyticsRules(n), AnalyticsRulesV1(n)}
    BY <2>1, <2>2, KindsRead
  <2>3. CASE call \in UNION {Collection(n), Documents(n), DocumentsDelete(n), DocumentsSearch(n), DocumentsExport(n),
                             DocumentsImport(n), Alias(n), Key(n), StopwordsSet(n), AnalyticsRule(n),
                             AnalyticsRuleV1(n), ConversationModel(n), NLSearchModel(n), StemmingDictionary(n)}
    BY <2>1, <2>3, NamedRead
  <2>. QED  BY <1>2, <2>2, <2>3 DEF ByName
<1>3. ASSUME NEW p \in Names \X Names, call \in Within(p[1], p[2])
      PROVE  call = ReadBack(call.method, call.path, action)
  <2>1. p[1] \in Seq(STRING) /\ p[2] \in Seq(STRING)
    BY RequestsAssumption
  <2>. QED  BY <1>3, <2>1, WithinRead DEF Within
<1>4. \/ call \in OfClient
      \/ \E n \in Names : call \in ByName(n)
      \/ \E p \in Names \X Names : call \in Within(p[1], p[2])
  BY DEF Client
<1>5. CASE \E n \in Names : call \in ByName(n)
  BY <1>2, <1>5, Zenon
<1>6. CASE \E p \in Names \X Names : call \in Within(p[1], p[2])
  BY <1>3, <1>6, Zenon
<1>. QED  BY <1>1, <1>4, <1>5, <1>6, Zenon

-----------------------------------------------------------------------------
(* The dictionary the calls share.                                         *)

\* The call writes the dictionary and sends what is in it.
Takes(call) == Acting(call) \/ call.op = "import"

\* The latest call that put its action into the dictionary finds it there, and every
\* call that is not mixed up was last sent with its own.
RequestsInv ==
  /\ calls \in Seq(Client) /\ DOMAIN sent = DOMAIN calls /\ mixed \subseteq DOMAIN calls
  /\ flag \in {"True", "true"}
  /\ sent \in Seq([action : Actions \cup {NoAction}, flag : {"True", "true", "none"}])
  /\ shared \in Actions \cup {NoAction}
  /\ \A i \in DOMAIN calls :
       /\ sent[i] # NoParams <=> Takes(calls[i])
       /\ Acting(calls[i]) /\ (\A j \in DOMAIN calls : j > i => ~Takes(calls[j])) => shared = calls[i].op
       /\ i \notin mixed => Agrees(calls[i], sent[i].action)

LEMMA RequestsInvInit == RequestsInit => RequestsInv
BY DEF RequestsInit, RequestsInv, NoAction

LEMMA RequestKeeps ==
  ASSUME RequestsInv, NEW call \in Client, Request(call)
  PROVE  RequestsInv'
<1> DEFINE n == Len(calls)
<1>1. /\ calls' \in Seq(Client) /\ Len(calls') = n + 1 /\ DOMAIN calls = 1 .. n /\ DOMAIN calls' = 1 .. n + 1
      /\ \A i \in 1 .. n : calls'[i] = calls[i]
      /\ calls'[n + 1] = call /\ n \in Nat
  BY AppendProperties DEF RequestsInv, Request
<1>2. PICK params \in [action : Actions \cup {NoAction}, flag : {"True", "true", "none"}] :
        /\ sent' = Append(sent, params)
        /\ params # NoParams <=> Takes(call)
        /\ Takes(call) => params.action = shared' /\ shared' = ActionOf(call)
        /\ ~Takes(call) => shared' = shared
        /\ flag' \in {"True", "true"}
        /\ shared' \in Actions \cup {NoAction}
  <2>1. CASE Takes(call)
    <3>1. /\ shared' = ActionOf(call) /\ flag' = "true"
          /\ sent' = Append(sent, [action |-> shared', flag |-> flag'])
      BY <2>1 DEF Request, Takes
    <3>2. ActionOf(call) \in Actions \cup {NoAction}
      BY DEF ActionOf, Acting, RequestsInv
    <3>3. [action |-> shared', flag |-> flag'] # NoParams
      BY <3>1 DEF NoParams
    <3>. QED  BY <2>1, <3>1, <3>2, <3>3
  <2>2. CASE ~Takes(call)
    <3>1. sent' = Append(sent, NoParams) /\ shared' = shared /\ flag' = flag
      BY <2>2 DEF Request, Takes
    <3>2. NoParams \in [action : Actions \cup {NoAction}, flag : {"True", "true", "none"}]
      BY DEF NoParams
    <3>. QED  BY <2>2, <3>1, <3>2 DEF RequestsInv
  <2>. QED  BY <2>1, <2>2
<1>3. /\ sent' \in Seq([action : Actions \cup {NoAction}, flag : {"True", "true", "none"}])
      /\ DOMAIN sent' = 1 .. n + 1
      /\ \A i \in 1 .. n : sent'[i] = sent[i]
      /\ sent'[n + 1] = params
  <2>1. Len(sent) = n
    BY <1>1 DEF RequestsInv
  <2>. QED  BY <1>2, <2>1, AppendProperties DEF RequestsInv
<1>4. mixed' = mixed /\ mixed \subseteq 1 .. n
  BY <1>1 DEF Request, RequestsInv
<1>. HIDE DEF n
<1>5. ASSUME NEW i \in 1 .. n + 1
      PROVE  /\ sent'[i] # NoParams <=> Takes(calls'[i])
             /\ Acting(calls'[i]) /\ (\A j \in 1 .. n + 1 : j > i => ~Takes(calls'[j])) => shared' = calls'[i].op
             /\ i \notin mixed => Agrees(calls'[i], sent'[i].action)
  <2>1. CASE i = n + 1
    <3>1. calls'[i] = call /\ sent'[i] = params
      BY <1>1, <1>3, <2>1
    <3>2. Acting(call) => Takes(call) /\ ActionOf(call) = call.op
      BY DEF Takes, ActionOf
    <3>. QED  BY <1>2, <3>1, <3>2 DEF Agrees
  <2>2. CASE i # n + 1
    <3>1. i \in 1 .. n /\ calls'[i] = calls[i] /\ sent'[i] = sent[i] /\ i \in DOMAIN calls
      <4>1. n \in Nat
        BY <1>1
      <4>2. i \in 1 .. n
        BY <2>2, <4>1
      <4>. QED  BY <1>1, <1>3, <4>2
    <3>2. ASSUME Acting(calls[i]), \A j \in 1 .. n + 1 : j > i => ~Takes(calls'[j])
          PROVE  shared' = calls[i].op
      <4>1. ~Takes(call)
        BY <1>1, <3>1, <3>2
      <4>2. \A j \in DOMAIN calls : j > i => ~Takes(calls[j])
        BY <1>1, <3>2
      <4>. QED  BY <1>2, <3>1, <3>2, <4>1, <4>2 DEF RequestsInv
    <3>. QED  BY <3>1, <3>2 DEF RequestsInv
  <2>. QED  BY <2>1, <2>2
<1>6. DOMAIN sent' = DOMAIN calls' /\ mixed' \subseteq DOMAIN calls'
  BY <1>1, <1>3, <1>4
<1>7. \A i \in DOMAIN calls' :
        /\ sent'[i] # NoParams <=> Takes(calls'[i])
        /\ Acting(calls'[i]) /\ (\A j \in DOMAIN calls' : j > i => ~Takes(calls'[j])) => shared' = calls'[i].op
        /\ i \notin mixed' => Agrees(calls'[i], sent'[i].action)
  BY <1>1, <1>4, <1>5
<1>. QED  BY <1>1, <1>2, <1>3, <1>6, <1>7 DEF RequestsInv

LEMMA SendAgainKeeps ==
  ASSUME RequestsInv, NEW k \in DOMAIN calls, SendAgain(k)
  PROVE  RequestsInv'
<1> DEFINE params == [action |-> shared, flag |-> flag]
<1>1. calls' = calls /\ shared' = shared /\ flag' = flag /\ sent' = [sent EXCEPT ![k] = params]
  BY DEF SendAgain
<1>2. params \in [action : Actions \cup {NoAction}, flag : {"True", "true", "none"}] /\ params # NoParams
  BY DEF RequestsInv, NoParams
<1>3. Takes(calls[k]) /\ k \in DOMAIN sent
  BY DEF SendAgain, RequestsInv
<1>4. /\ sent' \in Seq([action : Actions \cup {NoAction}, flag : {"True", "true", "none"}])
      /\ DOMAIN sent' = DOMAIN sent
      /\ sent'[k] = params /\ \A i \in DOMAIN sent : i # k => sent'[i] = sent[i]
  BY <1>1, <1>2, <1>3, ExceptSeq DEF RequestsInv
<1>5. /\ mixed \subseteq mixed' /\ mixed' \subseteq mixed \cup {k}
      /\ (\E j \in DOMAIN calls : j > k /\ Takes(calls[j])) => k \in mixed'
  BY DEF SendAgain, RequestsInv
<1>. HIDE DEF params
<1>6. ASSUME NEW i \in DOMAIN calls, i \notin mixed'
      PROVE  Agrees(calls[i], sent'[i].action)
  <2>1. CASE i = k
    <3>1. sent'[i].action = shared
      BY <1>4, <2>1 DEF params
    <3>2. Acting(calls[i]) => shared = calls[i].op
      BY <1>5, <1>6, <2>1 DEF RequestsInv
    <3>. QED  BY <3>1, <3>2 DEF Agrees
  <2>2. CASE i # k
    BY <1>4, <1>5, <1>6, <2>2 DEF RequestsInv
  <2>. QED  BY <2>1, <2>2
<1>7. ASSUME NEW i \in DOMAIN calls
      PROVE  sent'[i] # NoParams <=> Takes(calls[i])
  BY <1>2, <1>3, <1>4 DEF RequestsInv
<1>. QED  BY <1>1, <1>3, <1>4, <1>5, <1>6, <1>7 DEF RequestsInv

LEMMA RequestsInvKept == RequestsSpec => []RequestsInv
<1>1. RequestsInv /\ [RequestsNext]_requestVars => RequestsInv'
  <2>. SUFFICES ASSUME RequestsInv, [RequestsNext]_requestVars
                PROVE  RequestsInv'
    OBVIOUS
  <2>1. CASE UNCHANGED requestVars
    BY <2>1 DEF requestVars, RequestsInv
  <2>. QED  BY <2>1, RequestKeeps, SendAgainKeeps DEF RequestsNext
<1>. QED  BY <1>1, RequestsInvInit, PTL DEF RequestsSpec

\* Whatever the calls, in whatever order, and however often they are sent again: two requests
\* that look the same, with plain names, ask for the same operation on the same object.
THEOREM RequestsAlwaysTellApart == RequestsSpec => []RequestsTellApart
<1>1. RequestsInv => RequestsTellApart
  <2>. SUFFICES ASSUME RequestsInv, NEW i \in DOMAIN calls \ mixed, NEW j \in DOMAIN calls \ mixed,
                       calls[i].method = calls[j].method, calls[i].path = calls[j].path,
                       sent[i].action = sent[j].action, PlainNames(calls[i]), PlainNames(calls[j])
                PROVE  calls[i] = calls[j]
    BY DEF RequestsTellApart
  <2>1. ASSUME NEW k \in DOMAIN calls \ mixed, PlainNames(calls[k])
        PROVE  calls[k] = ReadBack(calls[k].method, calls[k].path, sent[k].action)
    <3>1. calls[k] \in Client /\ Agrees(calls[k], sent[k].action)
      BY DEF RequestsInv
    <3>. QED  BY <2>1, <3>1, ClientRead
  <2>. QED  BY <2>1
<1>. QED  BY <1>1, RequestsInvKept, PTL
-----------------------------------------------------------------------------
(* The loop over a payload.                                                *)

LEMMA IntervalSize ==
  ASSUME NEW b \in Nat
  PROVE  IsFiniteSet(1 .. b) /\ Cardinality(1 .. b) = b
BY FS_Interval

Sending(prev, entries) == [prevLogIndex |-> prev, entries |-> entries]

\* What merging gives, entry by entry.
LEMMA MergedWithoutConflict ==
  ASSUME NEW l \in Seq(Entry), NEW prev \in 0 .. Len(l), NEW entries \in Seq(Entry),
         Conflicts(l, Sending(prev, entries)) = {}
  PROVE  LET merged == Merged(l, Sending(prev, entries))
         IN  /\ merged \in Seq(Entry)
             /\ Len(merged) = IF Len(l) >= prev + Len(entries) THEN Len(l) ELSE prev + Len(entries)
             /\ \A p \in 1 .. Len(merged) : merged[p] = IF p <= Len(l) THEN l[p] ELSE entries[p - prev]
<1> DEFINE rest == SubSeq(entries, Len(l) - prev + 1, Len(entries))
<1>1. Merged(l, Sending(prev, entries)) = l \o rest
  BY DEF Merged, KeptPrefix, Sending
<1>2. /\ rest \in Seq(Entry)
      /\ Len(rest) = IF Len(l) - prev + 1 <= Len(entries) THEN Len(entries) - (Len(l) - prev) ELSE 0
      /\ \A p \in 1 .. Len(rest) : rest[p] = entries[Len(l) - prev + p]
  BY SubSeqProperties
<1>. HIDE DEF rest
<1>3. /\ l \o rest \in Seq(Entry) /\ Len(l \o rest) = Len(l) + Len(rest)
      /\ \A p \in 1 .. Len(l) + Len(rest) : (l \o rest)[p] = IF p <= Len(l) THEN l[p] ELSE rest[p - Len(l)]
  BY <1>2, ConcatProperties
<1>4. PICK k \in Nat, m \in Nat, r \in Nat :
        /\ k = Len(l) /\ m = Len(entries) /\ r = Len(rest) /\ prev \in 0 .. k
        /\ r = IF k - prev + 1 <= m THEN m - (k - prev) ELSE 0
  BY <1>2, LenProperties
<1>5. k + r = IF k >= prev + m THEN k ELSE prev + m
  BY <1>4
<1>6. ASSUME NEW p \in 1 .. k + r
      PROVE  (l \o rest)[p] = IF p <= k THEN l[p] ELSE entries[p - prev]
  <2>1. CASE p <= k
    BY <1>3, <1>4, <2>1
  <2>2. CASE ~(p <= k)
    <3>1. p - k \in 1 .. r /\ (k - prev) + (p - k) = p - prev
      BY <1>4, <2>2
    <3>2. rest[p - k] = entries[(k - prev) + (p - k)]
      BY <1>2, <1>4, <3>1
    <3>. QED  BY <1>3, <1>4, <2>2, <3>1, <3>2
  <2>. QED  BY <2>1, <2>2
<1>. QED  BY <1>1, <1>3, <1>4, <1>5, <1>6

LEMMA MergedAtConflict ==
  ASSUME NEW l \in Seq(Entry), NEW prev \in 0 .. Len(l), NEW entries \in Seq(Entry),
         NEW c \in Conflicts(l, Sending(prev, entries)),
         \A d \in Conflicts(l, Sending(prev, entries)) : c <= d
  PROVE  LET merged == Merged(l, Sending(prev, entries))
         IN  /\ merged \in Seq(Entry)
             /\ Len(merged) = prev + Len(entries)
             /\ \A p \in 1 .. Len(merged) : merged[p] = IF p < prev + c THEN l[p] ELSE entries[p - prev]
<1> DEFINE m == Sending(prev, entries)
           kept == SubSeq(l, 1, prev + c - 1)
           rest == SubSeq(entries, c, Len(entries))
<1>0. Len(l) \in Nat /\ Len(entries) \in Nat /\ prev \in Nat
  OBVIOUS
<1>1. c \in 1 .. Len(entries) /\ prev + c <= Len(l)
  BY DEF Conflicts, Sending
<1>2. Unopposed(l, m) = 1 .. c - 1
  <2>1. ASSUME NEW k \in 1 .. Len(entries)
        PROVE  (\A j \in 1 .. k : j \notin Conflicts(l, m)) <=> k < c
    <3>1. CASE k < c
      <4>1. ASSUME NEW j \in 1 .. k
            PROVE  j \notin Conflicts(l, m)
        <5>1. ~(c <= j)
          BY <1>0, <1>1, <3>1
        <5>. QED  BY <5>1
      <4>. QED  BY <3>1, <4>1
    <3>2. CASE ~(k < c)
      <4>1. c \in 1 .. k
        BY <1>0, <1>1, <3>2
      <4>. QED  BY <3>2, <4>1
    <3>. QED  BY <3>1, <3>2
  <2>2. Unopposed(l, m) = {k \in 1 .. Len(entries) : k < c}
    BY <2>1 DEF Unopposed, Sending
  <2>. QED  BY <1>0, <1>1, <2>2
<1>3. Cardinality(Unopposed(l, m)) = c - 1
  <2>1. c - 1 \in Nat
    BY <1>0, <1>1
  <2>. QED  BY <1>2, <2>1, IntervalSize
<1>4. /\ kept \in Seq(Entry) /\ Len(kept) = prev + c - 1
      /\ \A p \in 1 .. Len(kept) : kept[p] = l[p]
  BY <1>0, <1>1, SubSeqProperties
<1>5. Merged(l, m) = kept \o rest
  <2>1. KeptPrefix(l, m) = SubSeq(l, 1, prev + (c - 1))
    BY <1>3 DEF KeptPrefix, Sending
  <2>2. KeptPrefix(l, m) = kept
    <3>1. prev + (c - 1) = prev + c - 1
      BY <1>0, <1>1
    <3>. QED  BY <2>1, <3>1
  <2>3. Len(kept) - prev + 1 = c
    BY <1>0, <1>1, <1>4
  <2>. HIDE DEF kept
  <2>4. Merged(l, m) = kept \o SubSeq(entries, Len(kept) - prev + 1, Len(entries))
    BY <2>2 DEF Merged, Sending
  <2>. QED  BY <2>3, <2>4
<1>6. /\ rest \in Seq(Entry) /\ Len(rest) = Len(entries) - c + 1
      /\ \A p \in 1 .. Len(rest) : rest[p] = entries[c + p - 1]
  BY <1>0, <1>1, SubSeqProperties
<1>. HIDE DEF kept, rest, m
<1>7. /\ Merged(l, m) \in Seq(Entry)
      /\ Len(Merged(l, m)) = prev + Len(entries)
      /\ \A p \in 1 .. prev + Len(entries) : Merged(l, m)[p] = IF p <= Len(kept) THEN kept[p] ELSE rest[p - Len(kept)]
  <2>1. /\ kept \o rest \in Seq(Entry)
        /\ Len(kept \o rest) = Len(kept) + Len(rest)
        /\ \A p \in 1 .. Len(kept) + Len(rest) :
             (kept \o rest)[p] = IF p <= Len(kept) THEN kept[p] ELSE rest[p - Len(kept)]
    BY <1>4, <1>6, ConcatProperties
  <2>2. Len(kept) + Len(rest) = prev + Len(entries)
    BY <1>0, <1>1, <1>4, <1>6
  <2>. QED  BY <1>5, <2>1, <2>2
<1>8. ASSUME NEW p \in 1 .. prev + Len(entries)
      PROVE  Merged(l, m)[p] = IF p < prev + c THEN l[p] ELSE entries[p - prev]
  <2>1. CASE p < prev + c
    BY <1>0, <1>1, <1>4, <1>7, <2>1
  <2>2. CASE ~(p < prev + c)
    <3>0. Len(kept) = prev + c - 1 /\ Len(rest) = Len(entries) - c + 1 /\ c \in Nat
      BY <1>1, <1>4, <1>6
    <3>1. /\ p - Len(kept) \in 1 .. Len(rest)
          /\ c + (p - Len(kept)) - 1 = p - prev
          /\ ~(p <= Len(kept))
      BY <1>0, <2>2, <3>0
    <3>2. Merged(l, m)[p] = rest[p - Len(kept)]
      BY <1>7, <3>1
    <3>. QED  BY <1>6, <2>2, <3>1, <3>2
  <2>. QED  BY <2>1, <2>2
<1>. QED  BY <1>7, <1>8 DEF m

LEMMA SameSequence ==
  ASSUME NEW s \in Seq(Entry), NEW t \in Seq(Entry), Len(s) = Len(t), \A p \in 1 .. Len(s) : s[p] = t[p]
  PROVE  s = t
BY SeqEqual

\* The closed form, one more entry: what one turn of the loop must give.
OneMore(merged, x, entry) ==
  IF x <= Len(merged) /\ merged[x].term = entry.term THEN merged
  ELSE Append(SubSeq(merged, 1, x - 1), entry)

LEMMA Replaced ==
  ASSUME NEW l \in Seq(Entry), NEW x \in 1 .. Len(l) + 1, NEW e \in Entry
  PROVE  LET new == Append(SubSeq(l, 1, x - 1), e)
         IN  /\ new \in Seq(Entry) /\ Len(new) = x
             /\ new[x] = e /\ \A p \in 1 .. x - 1 : new[p] = l[p]
<1> DEFINE kept == SubSeq(l, 1, x - 1)
<1>1. Len(l) \in Nat /\ x \in Nat
  OBVIOUS
<1>2. kept \in Seq(Entry) /\ Len(kept) = x - 1 /\ \A p \in 1 .. x - 1 : kept[p] = l[p]
  BY <1>1, SubSeqProperties
<1>. HIDE DEF kept
<1>. QED  BY <1>1, <1>2, AppendProperties

LEMMA MergedNext ==
  ASSUME NEW l \in Seq(Entry), NEW prev \in 0 .. Len(l), NEW entries \in Seq(Entry), NEW k \in 1 .. Len(entries)
  PROVE  LET merged == Merged(l, Sending(prev, SubSeq(entries, 1, k - 1)))
         IN  /\ merged \in Seq(Entry)
             /\ prev + k \in 1 .. Len(merged) + 1
             /\ Merged(l, Sending(prev, SubSeq(entries, 1, k))) = OneMore(merged, prev + k, entries[k])
<1> DEFINE first == SubSeq(entries, 1, k - 1)
           next == SubSeq(entries, 1, k)
           mf == Sending(prev, first)
           mn == Sending(prev, next)
           merged == Merged(l, mf)
           after == Merged(l, mn)
           x == prev + k
           e == entries[k]
<1>1. Len(l) \in Nat /\ Len(entries) \in Nat /\ prev \in Nat /\ k \in Nat /\ k > 0 /\ e \in Entry /\ x \in Nat
  OBVIOUS
<1>2. first \in Seq(Entry) /\ Len(first) = k - 1 /\ \A p \in 1 .. k - 1 : first[p] = entries[p]
  BY <1>1, SubSeqProperties
<1>3. next \in Seq(Entry) /\ Len(next) = k /\ \A p \in 1 .. k : next[p] = entries[p]
  BY <1>1, SubSeqProperties
<1>4. x = prev + k
  OBVIOUS
<1>5. Conflicts(l, mf) = {p \in 1 .. k - 1 : prev + p <= Len(l) /\ l[prev + p].term # entries[p].term}
  BY <1>2 DEF Conflicts, Sending
<1>6. Conflicts(l, mn) = {p \in 1 .. k : prev + p <= Len(l) /\ l[prev + p].term # entries[p].term}
  BY <1>3 DEF Conflicts, Sending
<1>. HIDE DEF first, next, x, e
<1>7. CASE Conflicts(l, mf) = {}
  <2>1. /\ merged \in Seq(Entry)
        /\ Len(merged) = IF Len(l) >= prev + (k - 1) THEN Len(l) ELSE prev + (k - 1)
        /\ \A p \in 1 .. Len(merged) : merged[p] = IF p <= Len(l) THEN l[p] ELSE first[p - prev]
    <3>1. /\ merged \in Seq(Entry)
          /\ Len(merged) = IF Len(l) >= prev + Len(first) THEN Len(l) ELSE prev + Len(first)
          /\ \A p \in 1 .. Len(merged) : merged[p] = IF p <= Len(l) THEN l[p] ELSE first[p - prev]
      BY <1>2, <1>7, MergedWithoutConflict
    <3>. QED  BY <1>2, <3>1
  <2>2. x \in 1 .. Len(merged) + 1
    BY <1>1, <1>4, <2>1
  <2>3. CASE x <= Len(l) /\ l[x].term # e.term
    <3>1. k \in Conflicts(l, mn) /\ \A d \in Conflicts(l, mn) : k <= d
      BY <1>1, <1>4, <1>5, <1>6, <1>7, <2>3 DEF e
    <3>2. /\ after \in Seq(Entry)
          /\ Len(after) = prev + k
          /\ \A p \in 1 .. Len(after) : after[p] = IF p < prev + k THEN l[p] ELSE next[p - prev]
      BY <1>1, <1>3, <3>1, MergedAtConflict
    <3>. DEFINE new == Append(SubSeq(merged, 1, x - 1), e)
    <3>3. /\ new \in Seq(Entry) /\ Len(new) = x
          /\ new[x] = e /\ \A p \in 1 .. x - 1 : new[p] = merged[p]
      BY <1>1, <2>1, <2>2, Replaced
    <3>4. OneMore(merged, x, e) = new
      BY <1>1, <1>4, <2>1, <2>3 DEF OneMore
    <3>. HIDE DEF new, merged, after, mf, mn
    <3>5. ASSUME NEW p \in 1 .. x
          PROVE  after[p] = new[p]
      <4>1. CASE p = x
        BY <1>1, <1>3, <1>4, <3>2, <3>3, <4>1 DEF e
      <4>2. CASE p # x
        <5>1. p \in 1 .. x - 1 /\ p < prev + k /\ p <= Len(l) /\ p \in 1 .. Len(merged) /\ p \in 1 .. Len(after)
          BY <1>1, <1>4, <2>1, <2>3, <3>2, <4>2
        <5>. QED  BY <2>1, <3>2, <3>3, <5>1
      <4>. QED  BY <4>1, <4>2
    <3>6. after = new
      BY <1>4, <3>2, <3>3, <3>5, SameSequence
    <3>. QED  BY <2>1, <2>2, <3>4, <3>6 DEF merged, after, mf, mn, x, e, first, next
  <2>4. CASE ~(x <= Len(l) /\ l[x].term # e.term)
    <3>1. Conflicts(l, mn) = {}
      <4>1. ASSUME NEW d \in Conflicts(l, mn)
            PROVE  FALSE
        <5>1. CASE d = k
          BY <1>4, <1>6, <2>4, <5>1 DEF e
        <5>2. CASE d # k
          BY <1>1, <1>5, <1>6, <1>7, <5>2
        <5>. QED  BY <5>1, <5>2
      <4>. QED  BY <4>1
    <3>2. /\ after \in Seq(Entry)
          /\ Len(after) = IF Len(l) >= prev + k THEN Len(l) ELSE prev + k
          /\ \A p \in 1 .. Len(after) : after[p] = IF p <= Len(l) THEN l[p] ELSE next[p - prev]
      BY <1>1, <1>3, <3>1, MergedWithoutConflict
    <3>. HIDE DEF merged, after, mf, mn
    <3>3. CASE x <= Len(l)
      <4>1. OneMore(merged, x, e) = merged
        BY <1>1, <1>4, <2>1, <2>4, <3>3 DEF OneMore
      <4>2. Len(after) = Len(merged) /\ \A p \in 1 .. Len(after) : after[p] = merged[p]
        BY <1>1, <1>4, <2>1, <3>2, <3>3
      <4>3. after = merged
        BY <2>1, <3>2, <4>2, SameSequence
      <4>. QED  BY <2>1, <2>2, <4>1, <4>3 DEF merged, after, mf, mn, x, e, first, next
    <3>4. CASE ~(x <= Len(l))
      <4>. DEFINE new == Append(SubSeq(merged, 1, x - 1), e)
      <4>1. /\ new \in Seq(Entry) /\ Len(new) = x
            /\ new[x] = e /\ \A p \in 1 .. x - 1 : new[p] = merged[p]
        BY <1>1, <2>1, <2>2, Replaced
      <4>2. OneMore(merged, x, e) = new
        BY <1>1, <1>4, <2>1, <3>4 DEF OneMore
      <4>. HIDE DEF new
      <4>3. ASSUME NEW p \in 1 .. x
            PROVE  after[p] = new[p]
        <5>1. CASE p = x
          BY <1>1, <1>3, <1>4, <3>2, <3>4, <4>1, <5>1 DEF e
        <5>2. CASE p # x /\ p <= Len(l)
          <6>1. p \in 1 .. x - 1 /\ p \in 1 .. Len(merged) /\ p \in 1 .. Len(after)
            BY <1>1, <1>4, <2>1, <3>2, <3>4, <5>2
          <6>. QED  BY <2>1, <3>2, <4>1, <5>2, <6>1
        <5>3. CASE p # x /\ ~(p <= Len(l))
          <6>1. p - prev \in 1 .. k - 1 /\ p \in 1 .. x - 1 /\ p \in 1 .. Len(merged)
            BY <1>1, <1>4, <2>1, <3>4, <5>3
          <6>2. first[p - prev] = next[p - prev]
            BY <1>1, <1>2, <1>3, <6>1
          <6>. QED  BY <1>1, <1>4, <2>1, <3>2, <3>4, <4>1, <5>3, <6>1, <6>2
        <5>. QED  BY <5>1, <5>2, <5>3
      <4>4. Len(after) = x
        BY <1>1, <1>4, <3>2, <3>4
      <4>5. after = new
        BY <3>2, <4>1, <4>3, <4>4, SameSequence
      <4>. QED  BY <2>1, <2>2, <4>2, <4>5 DEF merged, after, mf, mn, x, e, first, next
    <3>. QED  BY <3>3, <3>4
  <2>. QED  BY <2>3, <2>4
<1>8. CASE Conflicts(l, mf) # {}
  <2>1. PICK c \in Conflicts(l, mf) : \A d \in Conflicts(l, mf) : c <= d
    <3>1. Conflicts(l, mf) \in SUBSET Nat
      BY <1>1, <1>5
    <3>. HIDE DEF mf
    <3>. QED  BY <1>8, <3>1, Smallest
  <2>2. c \in 1 .. k - 1
    BY <1>5
  <2>3. c \in Conflicts(l, mn) /\ \A d \in Conflicts(l, mn) : c <= d
    <3>1. c \in Conflicts(l, mn)
      BY <1>1, <1>5, <1>6, <2>2
    <3>2. ASSUME NEW d \in Conflicts(l, mn)
          PROVE  c <= d
      <4>1. CASE d = k
        BY <1>1, <2>2, <4>1
      <4>2. CASE d # k
        <5>1. d \in Conflicts(l, mf)
          BY <1>1, <1>5, <1>6, <4>2
        <5>. QED  BY <2>1, <5>1
      <4>. QED  BY <4>1, <4>2
    <3>. QED  BY <3>1, <3>2
  <2>4. /\ merged \in Seq(Entry)
        /\ Len(merged) = prev + (k - 1)
        /\ \A p \in 1 .. Len(merged) : merged[p] = IF p < prev + c THEN l[p] ELSE first[p - prev]
    <3>1. /\ merged \in Seq(Entry)
          /\ Len(merged) = prev + Len(first)
          /\ \A p \in 1 .. Len(merged) : merged[p] = IF p < prev + c THEN l[p] ELSE first[p - prev]
      BY <1>2, <2>1, MergedAtConflict
    <3>. QED  BY <1>2, <3>1
  <2>5. /\ after \in Seq(Entry)
        /\ Len(after) = prev + k
        /\ \A p \in 1 .. Len(after) : after[p] = IF p < prev + c THEN l[p] ELSE next[p - prev]
    BY <1>1, <1>3, <2>3, MergedAtConflict
  <2>6. x \in 1 .. Len(merged) + 1 /\ ~(x <= Len(merged))
    BY <1>1, <1>4, <2>4
  <2>. DEFINE new == Append(SubSeq(merged, 1, x - 1), e)
  <2>7. /\ new \in Seq(Entry) /\ Len(new) = x
        /\ new[x] = e /\ \A p \in 1 .. x - 1 : new[p] = merged[p]
    BY <1>1, <2>4, <2>6, Replaced
  <2>8. OneMore(merged, x, e) = new
    BY <2>6 DEF OneMore
  <2>. HIDE DEF new, merged, after, mf, mn
  <2>9. ASSUME NEW p \in 1 .. x
        PROVE  after[p] = new[p]
    <3>1. CASE p = x
      BY <1>1, <1>3, <1>4, <2>2, <2>5, <2>7, <3>1 DEF e
    <3>2. CASE p # x /\ p < prev + c
      <4>1. p \in 1 .. x - 1 /\ p \in 1 .. Len(merged) /\ p \in 1 .. Len(after)
        BY <1>1, <1>4, <2>4, <2>5, <3>2
      <4>. QED  BY <2>4, <2>5, <2>7, <3>2, <4>1
    <3>3. CASE p # x /\ ~(p < prev + c)
      <4>1. p - prev \in 1 .. k - 1 /\ p \in 1 .. x - 1 /\ p \in 1 .. Len(merged)
        BY <1>1, <1>4, <2>2, <2>4, <3>3
      <4>2. first[p - prev] = next[p - prev]
        BY <1>1, <1>2, <1>3, <4>1
      <4>. QED  BY <1>1, <1>4, <2>4, <2>5, <2>7, <3>3, <4>1, <4>2
    <3>. QED  BY <3>1, <3>2, <3>3
  <2>10. after = new
    BY <1>4, <2>5, <2>7, <2>9, SameSequence
  <2>. QED  BY <2>4, <2>6, <2>8, <2>10 DEF merged, after, mf, mn, x, e, first, next
<1>. QED  BY <1>7, <1>8

AsItem(at, entry) == [index |-> at, term |-> entry.term, command |-> entry.command]

Item == [index : Nat, term : Nat, command : Command]

LEMMA IndexedProperties ==
  ASSUME NEW l \in Seq(Entry)
  PROVE  /\ Indexed(l) \in Seq(Item) /\ Len(Indexed(l)) = Len(l)
         /\ \A p \in 1 .. Len(l) : Indexed(l)[p] = AsItem(p, l[p])
         /\ \A p \in 1 .. Len(l) : Indexed(l)[p].index = p /\ Indexed(l)[p].term = l[p].term
<1>1. Indexed(l) = [p \in 1 .. Len(l) |-> AsItem(p, l[p])]
  BY DEF Indexed, AsItem
<1>2. ASSUME NEW p \in 1 .. Len(l)
      PROVE  AsItem(p, l[p]) \in Item /\ AsItem(p, l[p]).index = p /\ AsItem(p, l[p]).term = l[p].term
  <2>1. l[p] \in Entry /\ p \in Nat
    OBVIOUS
  <2>2. l[p].term \in Nat /\ l[p].command \in Command
    BY <2>1 DEF Entry
  <2>. QED  BY <2>1, <2>2 DEF AsItem, Item
<1>3. Indexed(l) \in [1 .. Len(l) -> Item]
  BY <1>1, <1>2
<1>4. \A p \in 1 .. Len(l) : Indexed(l)[p] = AsItem(p, l[p])
  BY <1>1
<1>. QED  BY <1>2, <1>3, <1>4

\* The items at an index: the one at that position.
LEMMA EntriesAtIndex ==
  ASSUME NEW l \in Seq(Entry), NEW x \in Nat
  PROVE  EntriesAt(Indexed(l), x) = IF x \in 1 .. Len(l) THEN {Indexed(l)[x]} ELSE {}
<1>1. \A j \in 1 .. Len(Indexed(l)) : j \in 1 .. Len(l) /\ Indexed(l)[j].index = j
  BY IndexedProperties
<1>2. Len(Indexed(l)) = Len(l)
  BY IndexedProperties
<1>. QED  BY <1>1, <1>2 DEF EntriesAt

\* Dropping the items from an index on keeps the positions before it.
LEMMA BelowIndexed ==
  ASSUME NEW l \in Seq(Entry), NEW x \in 1 .. Len(l) + 1
  PROVE  BelowIndex(Indexed(l), x) = Indexed(SubSeq(l, 1, x - 1))
<1> DEFINE list == Indexed(l)
           kept == {j \in 1 .. Len(list) : list[j].index < x}
           Nth(k) == CHOOSE j \in kept : Cardinality({h \in kept : h <= j}) = k
           prefix == SubSeq(l, 1, x - 1)
<1>0. Len(l) \in Nat /\ x \in Nat /\ x > 0
  OBVIOUS
<1>1. /\ Len(list) = Len(l)
      /\ \A p \in 1 .. Len(l) : list[p] = AsItem(p, l[p])
      /\ \A p \in 1 .. Len(l) : list[p].index = p
  BY IndexedProperties
<1>2. \A j \in 1 .. Len(l) : list[j].index = j
  BY <1>1
<1>. HIDE DEF list
<1>3. kept = 1 .. x - 1
  BY <1>0, <1>1, <1>2
<1>. HIDE DEF kept
<1>4. ASSUME NEW j \in 1 .. x - 1
      PROVE  Cardinality({h \in kept : h <= j}) = j
  <2>1. {h \in kept : h <= j} = 1 .. j
    BY <1>0, <1>3
  <2>2. j \in Nat
    BY <1>0
  <2>. QED  BY <2>1, <2>2, IntervalSize
<1>5. Cardinality(kept) = x - 1
  <2>1. x - 1 \in Nat
    BY <1>0
  <2>. QED  BY <1>3, <2>1, IntervalSize
<1>6. ASSUME NEW k \in 1 .. x - 1
      PROVE  Nth(k) = k
  <2>1. k \in kept /\ Cardinality({h \in kept : h <= k}) = k
    BY <1>3, <1>4
  <2>2. Nth(k) \in kept /\ Cardinality({h \in kept : h <= Nth(k)}) = k
    BY <2>1
  <2>. HIDE DEF Nth
  <2>3. Cardinality({h \in kept : h <= Nth(k)}) = Nth(k)
    BY <1>3, <1>4, <2>2
  <2>. QED  BY <2>2, <2>3
<1>7. BelowIndex(list, x) = [k \in 1 .. x - 1 |-> list[Nth(k)]]
  BY <1>5 DEF BelowIndex, kept
<1>. HIDE DEF Nth
<1>8. BelowIndex(list, x) = [k \in 1 .. x - 1 |-> list[k]]
  BY <1>6, <1>7
<1>9. prefix \in Seq(Entry) /\ Len(prefix) = x - 1 /\ \A p \in 1 .. x - 1 : prefix[p] = l[p]
  BY <1>0, SubSeqProperties
<1>. HIDE DEF prefix
<1>10. Indexed(prefix) = [k \in 1 .. x - 1 |-> AsItem(k, prefix[k])]
  BY <1>9 DEF Indexed, AsItem
<1>11. \A k \in 1 .. x - 1 : list[k] = AsItem(k, prefix[k])
  BY <1>0, <1>1, <1>9
<1>. QED  BY <1>8, <1>10, <1>11 DEF list, prefix

LEMMA SameItems ==
  ASSUME NEW s \in Seq(Item), NEW t \in Seq(Item), Len(s) = Len(t), \A p \in 1 .. Len(s) : s[p] = t[p]
  PROVE  s = t
BY SeqEqual

LEMMA AppendIndexed ==
  ASSUME NEW l \in Seq(Entry), NEW e \in Entry
  PROVE  Append(Indexed(l), AsItem(Len(l) + 1, e)) = Indexed(Append(l, e))
<1> DEFINE item == AsItem(Len(l) + 1, e)
           left == Append(Indexed(l), item)
           longer == Append(l, e)
<1>1. item \in Item /\ Len(l) \in Nat
  BY DEF AsItem, Item, Entry
<1>2. /\ Indexed(l) \in Seq(Item) /\ Len(Indexed(l)) = Len(l)
      /\ \A p \in 1 .. Len(l) : Indexed(l)[p] = AsItem(p, l[p])
  BY IndexedProperties
<1>3. /\ longer \in Seq(Entry) /\ Len(longer) = Len(l) + 1
      /\ longer[Len(l) + 1] = e /\ \A p \in 1 .. Len(l) : longer[p] = l[p]
  BY AppendProperties
<1>. HIDE DEF longer
<1>4. /\ Indexed(longer) \in Seq(Item) /\ Len(Indexed(longer)) = Len(l) + 1
      /\ \A p \in 1 .. Len(l) + 1 : Indexed(longer)[p] = AsItem(p, longer[p])
  BY <1>3, IndexedProperties
<1>. HIDE DEF item
<1>5. /\ left \in Seq(Item) /\ Len(left) = Len(l) + 1
      /\ left[Len(l) + 1] = item /\ \A p \in 1 .. Len(l) : left[p] = Indexed(l)[p]
  BY <1>1, <1>2, AppendProperties
<1>. HIDE DEF left
<1>6. ASSUME NEW p \in 1 .. Len(l) + 1
      PROVE  left[p] = Indexed(longer)[p]
  <2>1. CASE p = Len(l) + 1
    BY <1>1, <1>3, <1>4, <1>5, <2>1 DEF item
  <2>2. CASE p # Len(l) + 1
    <3>1. p \in 1 .. Len(l)
      BY <1>1, <2>2
    <3>. QED  BY <1>2, <1>3, <1>4, <1>5, <3>1
  <2>. QED  BY <2>1, <2>2
<1>7. left = Indexed(longer)
  BY <1>4, <1>5, <1>6, SameItems
<1>. QED  BY <1>7 DEF left, longer, item

PayloadType == [prevLogIndex : Nat, entries : Seq(Entry)]

LoopInv ==
  /\ before \in Seq(Entry)
  /\ payload \in PayloadType /\ payload.prevLogIndex <= Len(before)
  /\ position \in 1 .. Len(payload.entries) + 1
  /\ LoopIsMerged

LEMMA LoopedIs ==
  ASSUME payload \in PayloadType
  PROVE  Looped = Sending(payload.prevLogIndex, SubSeq(payload.entries, 1, position - 1))
<1> DEFINE part == SubSeq(payload.entries, 1, position - 1)
<1>1. Looped = [payload EXCEPT !.entries = part]
  BY DEF Looped
<1>. HIDE DEF part
<1>2. Looped = [prevLogIndex |-> payload.prevLogIndex, entries |-> part]
  BY <1>1 DEF PayloadType
<1>. QED  BY <1>2 DEF Sending, part

LEMMA LogsAreSequences ==
  ASSUME NEW l \in Logs
  PROVE  l \in Seq(Entry)
<1>1. PICK k \in 0 .. MaxLength : l \in [1 .. k -> [term : 1 .. MaxEntryTerm, command : Command]]
  BY DEF Logs
<1>2. k \in Nat
  BY LoopBoundAssumption
<1>3. \A p \in 1 .. k : l[p] \in Entry
  BY <1>1, LoopBoundAssumption DEF Entry
<1>4. l \in [1 .. k -> Entry]
  BY <1>1, <1>3
<1>. QED  BY <1>2, <1>4

LEMMA LoopStarts ==
  ASSUME LoopInit
  PROVE  LoopInv
<1>1. before \in Seq(Entry) /\ Len(before) \in Nat
  BY LogsAreSequences DEF LoopInit
<1>2. payload \in [prevLogIndex : 0 .. Len(before), entries : Logs]
  BY DEF LoopInit, Payloads
<1>3. payload \in PayloadType /\ payload.prevLogIndex <= Len(before)
  BY <1>1, <1>2, LogsAreSequences DEF PayloadType
<1>4. position = 1 /\ items = Indexed(before) /\ 1 \in 1 .. Len(payload.entries) + 1
  BY <1>3 DEF LoopInit, PayloadType
<1> DEFINE prev == payload.prevLogIndex
           none == SubSeq(payload.entries, 1, position - 1)
           merged == Merged(before, Sending(prev, none))
<1>5. prev \in 0 .. Len(before)
  BY <1>1, <1>3 DEF PayloadType
<1>6. none = <<>>
  BY <1>3, <1>4, SubSeqEmpty
<1>7. none \in Seq(Entry) /\ Len(none) = 0
  <2>. HIDE DEF none
  <2>. QED  BY <1>6, EmptySeq
<1>8. Conflicts(before, Sending(prev, none)) = {}
  BY <1>7 DEF Conflicts, Sending
<1>. HIDE DEF none, prev
<1>9. /\ merged \in Seq(Entry) /\ Len(merged) = Len(before)
      /\ \A p \in 1 .. Len(merged) : merged[p] = before[p]
  <2>1. /\ merged \in Seq(Entry)
        /\ Len(merged) = IF Len(before) >= prev + Len(none) THEN Len(before) ELSE prev + Len(none)
        /\ \A p \in 1 .. Len(merged) : merged[p] = IF p <= Len(before) THEN before[p] ELSE none[p - prev]
    BY <1>1, <1>5, <1>7, <1>8, MergedWithoutConflict
  <2>. QED  BY <1>1, <1>5, <1>7, <2>1
<1>10. merged = before
  BY <1>1, <1>9, SameSequence
<1>11. Looped = Sending(prev, none)
  BY <1>3, LoopedIs DEF prev, none
<1>. QED  BY <1>1, <1>3, <1>4, <1>10, <1>11 DEF LoopInv, LoopIsMerged

\* One turn of the loop does what one more entry does to the closed form.
LEMMA TurnIsOneMore ==
  ASSUME NEW l \in Seq(Entry), NEW x \in 1 .. Len(l) + 1, NEW e \in Entry,
         items = Indexed(l)
  PROVE  LET item == AsItem(x, e)
             kept == Truncated(item)
         IN  (IF EntriesAt(kept, x) = {} THEN Append(kept, item) ELSE kept) = Indexed(OneMore(l, x, e))
<1> DEFINE item == AsItem(x, e)
           prefix == SubSeq(l, 1, x - 1)
<1>0. Len(l) \in Nat /\ x \in Nat /\ x > 0
  OBVIOUS
<1>1. item.index = x /\ item.term = e.term
  BY DEF AsItem
<1>2. prefix \in Seq(Entry) /\ Len(prefix) = x - 1
  BY <1>0, SubSeqProperties
<1>. HIDE DEF item, prefix
<1>3. \A p \in 1 .. Len(l) : Indexed(l)[p].term = l[p].term
  BY IndexedProperties
<1>4. EntriesAt(Indexed(l), x) = IF x \in 1 .. Len(l) THEN {Indexed(l)[x]} ELSE {}
  BY <1>0, EntriesAtIndex
<1>5. (\E f \in EntriesAt(items, item.index) : f.term # item.term) <=> x \in 1 .. Len(l) /\ l[x].term # e.term
  BY <1>1, <1>3, <1>4
<1>6. CASE x \in 1 .. Len(l) /\ l[x].term # e.term
  <2>1. Truncated(item) = Indexed(prefix)
    BY <1>1, <1>5, <1>6, BelowIndexed DEF Truncated, prefix
  <2>2. EntriesAt(Indexed(prefix), x) = {}
    BY <1>0, <1>2, EntriesAtIndex
  <2>3. Append(Indexed(prefix), item) = Indexed(Append(prefix, e))
    BY <1>0, <1>2, AppendIndexed DEF item
  <2>4. OneMore(l, x, e) = Append(prefix, e)
    BY <1>6 DEF OneMore, prefix
  <2>. QED  BY <2>1, <2>2, <2>3, <2>4 DEF item
<1>7. CASE x \in 1 .. Len(l) /\ l[x].term = e.term
  <2>1. Truncated(item) = Indexed(l)
    BY <1>5, <1>7 DEF Truncated
  <2>2. EntriesAt(Indexed(l), x) # {}
    BY <1>4, <1>7
  <2>3. OneMore(l, x, e) = l
    BY <1>7 DEF OneMore
  <2>. QED  BY <2>1, <2>2, <2>3 DEF item
<1>8. CASE x \notin 1 .. Len(l)
  <2>1. x = Len(l) + 1
    BY <1>0, <1>8
  <2>2. Truncated(item) = Indexed(l)
    BY <1>5, <1>8 DEF Truncated
  <2>3. EntriesAt(Indexed(l), x) = {}
    BY <1>4, <1>8
  <2>4. Append(Indexed(l), item) = Indexed(Append(l, e))
    BY <2>1, AppendIndexed DEF item
  <2>5. prefix = l
    <3>1. \A p \in 1 .. Len(prefix) : prefix[p] = l[p]
      BY <1>0, <1>2, SubSeqProperties DEF prefix
    <3>. QED  BY <1>0, <1>2, <2>1, <3>1, SameSequence
  <2>6. OneMore(l, x, e) = Append(l, e)
    <3>1. OneMore(l, x, e) = Append(prefix, e)
      BY <1>0, <2>1 DEF OneMore, prefix
    <3>. QED  BY <2>5, <3>1
  <2>. QED  BY <2>2, <2>3, <2>4, <2>6 DEF item
<1>. QED  BY <1>6, <1>7, <1>8

LEMMA LoopKeeps ==
  ASSUME LoopInv, [LoopStep]_lvars
  PROVE  LoopInv'
<1>1. CASE UNCHANGED lvars
  BY <1>1 DEF lvars, LoopInv, LoopIsMerged, Looped
<1>2. CASE LoopStep
  <2> DEFINE prev == payload.prevLogIndex
             entries == payload.entries
             k == position
             x == prev + k
             e == entries[k]
             begun == Sending(prev, SubSeq(entries, 1, k - 1))
             merged == Merged(before, begun)
  <2>1. before \in Seq(Entry) /\ payload \in PayloadType /\ prev \in 0 .. Len(before)
    BY DEF LoopInv, PayloadType
  <2>2. entries \in Seq(Entry) /\ k \in 1 .. Len(entries) /\ e \in Entry
    BY <1>2, <2>1 DEF LoopInv, LoopStep, PayloadType
  <2>3. items = Indexed(merged)
    BY <2>1, LoopedIs DEF LoopInv, LoopIsMerged
  <2>4. /\ merged \in Seq(Entry) /\ x \in 1 .. Len(merged) + 1
        /\ Merged(before, Sending(prev, SubSeq(entries, 1, k))) = OneMore(merged, x, e)
    BY <2>1, <2>2, MergedNext
  <2>5. /\ before' = before /\ payload' = payload /\ position' = k + 1
        /\ items' = LET item == AsItem(x, e)
                        kept == Truncated(item)
                    IN  IF EntriesAt(kept, item.index) = {} THEN Append(kept, item) ELSE kept
    BY <1>2 DEF LoopStep, AsItem
  <2>6. AsItem(x, e).index = x
    BY DEF AsItem
  <2>. HIDE DEF merged, x, e
  <2>7. items' = Indexed(OneMore(merged, x, e))
    BY <2>2, <2>3, <2>4, <2>5, <2>6, TurnIsOneMore
  <2>8. Looped' = Sending(prev, SubSeq(entries, 1, k))
    <3> DEFINE part == SubSeq(entries, 1, k)
    <3>1. position' - 1 = k
      BY <2>2, <2>5
    <3>2. Looped' = [payload EXCEPT !.entries = part]
      BY <2>5, <3>1 DEF Looped
    <3>. HIDE DEF part
    <3>3. Looped' = [prevLogIndex |-> prev, entries |-> part]
      BY <2>1, <3>2 DEF PayloadType
    <3>. QED  BY <3>3 DEF Sending, part
  <2>9. LoopIsMerged'
    BY <2>4, <2>5, <2>7, <2>8 DEF LoopIsMerged
  <2>10. position' \in 1 .. Len(entries) + 1
    BY <2>2, <2>5
  <2>. QED  BY <2>1, <2>5, <2>9, <2>10 DEF LoopInv
<1>. QED  BY <1>1, <1>2

\* After every entry of a request the log is what the closed form says of the
\* entries looked at so far, whatever the log and the request (the loop of
\* raft_core.py handle_append_entries): the first entry of another term drops
\* what follows it, and entries the log already has are left alone.
THEOREM LoopAlwaysMerged == LoopSpec => []LoopIsMerged
<1>1. LoopInv => LoopIsMerged
  BY DEF LoopInv
<1>. QED  BY <1>1, LoopStarts, LoopKeeps, PTL DEF LoopSpec

=============================================================================
