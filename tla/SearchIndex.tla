----------------------------- MODULE SearchIndex -----------------------------
(***************************************************************************)
(* The inverted index of every shard (index.py) and the coordinator's      *)
(* search over all shards (coordinator.py).                                *)
(*                                                                         *)
(* A document is the words of its text fields and the value of one field   *)
(* to sort by.  The index keeps, beside the documents, the words that      *)
(* every document was indexed with and the postings of every word; adding  *)
(* a document again or deleting it has to take its old words out.          *)
(***************************************************************************)
EXTENDS Integers, Sequences, FiniteSets, SequencesExt, Functions

CONSTANTS
  DocumentIds,   \* numbers, in the order of the ids
  Contents,      \* document contents: [words, rank]
  ShardOf,       \* the shard of every id (get_shard_id)
  Queries,       \* the words of every query
  MaxScore,      \* bounds of the scores and of the page lengths tried
  MaxPerPage

ASSUME IndexAssumption ==
  /\ IsFiniteSet(DocumentIds) /\ DocumentIds \subseteq Int
  /\ Contents \subseteq [words : Seq(STRING), rank : Int]
  /\ Queries \subseteq Seq(STRING)
  /\ MaxScore \in Nat /\ MaxPerPage \in Nat

NoRank == 99     \* a document without the field to sort by
IndexShards == {ShardOf[d] : d \in DocumentIds}
NoDocument == [d \in {} |-> {}]

VARIABLES
  documents,       \* per shard, the content of every document it holds
  documentTerms,   \* per shard and document, the words it was indexed with
  postings         \* per shard and word, how often every document has it

indexVars == <<documents, documentTerms, postings>>

IndexInit ==
  /\ documents = [s \in IndexShards |-> NoDocument]
  /\ documentTerms = [s \in IndexShards |-> NoDocument]
  /\ postings = [s \in IndexShards |-> NoDocument]

Without(f, keys) == Restrict(f, DOMAIN f \ keys)
With(f, key, value) == [k \in DOMAIN f \cup {key} |-> IF k = key THEN value ELSE f[k]]
Frequency(words, w) == Cardinality({i \in DOMAIN words : words[i] = w})

\* mutant of PostingsWithout: the words of the old content stay
PostingsKept(s, d) == postings[s]

\* _remove_document_terms: a word that no document has any more loses its entry.
PostingsWithout(s, d) ==
  LET terms == IF d \in DOMAIN documentTerms[s] THEN documentTerms[s][d] ELSE {}
      last == {w \in terms \cap DOMAIN postings[s] : DOMAIN postings[s][w] \subseteq {d}}
  IN  [w \in DOMAIN postings[s] \ last |->
         IF w \in terms THEN Without(postings[s][w], {d}) ELSE postings[s][w]]

AddDocument(d, content) ==
  LET s == ShardOf[d]
      kept == IF d \in DOMAIN documents[s] THEN PostingsWithout(s, d) ELSE postings[s]
      terms == Range(content.words)
  IN  /\ documents' = [documents EXCEPT ![s] = With(@, d, content)]
      /\ documentTerms' = [documentTerms EXCEPT ![s] = With(@, d, terms)]
      /\ postings' = [postings EXCEPT ![s] =
           [w \in DOMAIN kept \cup terms |->
              LET before == IF w \in DOMAIN kept THEN kept[w] ELSE NoDocument
              IN  IF w \in terms THEN With(before, d, Frequency(content.words, w)) ELSE before]]

DeleteDocument(d) ==
  LET s == ShardOf[d]
  IN  /\ d \in DOMAIN documents[s]
      /\ documents' = [documents EXCEPT ![s] = Without(@, {d})]
      /\ documentTerms' = [documentTerms EXCEPT ![s] = Without(@, {d})]
      /\ postings' = [postings EXCEPT ![s] = PostingsWithout(s, d)]

IndexNext ==
  \E d \in DocumentIds : DeleteDocument(d) \/ \E content \in Contents : AddDocument(d, content)

IndexSpec == IndexInit /\ [][IndexNext]_indexVars

-----------------------------------------------------------------------------
(* Searching.                                                              *)

Hit(d, score, rank) == [id |-> d, score |-> score, rank |-> rank]

\* _compare_hits: the field to sort by, a missing value after all others and first
\* when descending; then the better score, then the id.
Precedes(order, a, b) ==
  IF order # "none" /\ a.rank # b.rank
  THEN IF order = "asc" THEN a.rank < b.rank ELSE a.rank > b.rank
  ELSE a.score > b.score \/ (a.score = b.score /\ a.id < b.id)
Ahead(hits, order, h) == {g \in hits : Precedes(order, g, h)}
Sorted(hits, order) ==
  [k \in 1 .. Cardinality(hits) |-> CHOOSE h \in hits : Cardinality(Ahead(hits, order, h)) = k - 1]

\* The sum of some counts: so many pairs of a place and a number up to its count.
Total(counts) == Cardinality(UNION {{i} \X (1 .. counts[i]) : i \in DOMAIN counts})

\* search: every word of the query adds its postings to the scores.
Listed(s, w, d) == w \in DOMAIN postings[s] /\ d \in DOMAIN postings[s][w]
Score(s, query, d) ==
  Total([i \in DOMAIN query |-> IF Listed(s, query[i], d) THEN postings[s][query[i]][d] ELSE 0])
Found(s, query) == {d \in DOMAIN documents[s] : \E w \in Range(query) : Listed(s, w, d)}

Slice(hits, start, count) ==
  SubSeq(hits, start + 1, IF start + count <= Len(hits) THEN start + count ELSE Len(hits))

\* mutant of ShardSearch: the first hits by id, not the best
ShardSearchUnsorted(s, query, limit) ==
  Slice(SetToSortSeq({Hit(d, Score(s, query, d), documents[s][d].rank) : d \in Found(s, query)},
                     LAMBDA a, b : a.id < b.id), 0, limit)

ShardSearch(s, query, limit) ==
  Slice(Sorted({Hit(d, Score(s, query, d), documents[s][d].rank) : d \in Found(s, query)}, "none"),
        0, limit)

\* Coordinator.search: the best of every shard's best.
Search(query, limit) ==
  Slice(Sorted(UNION {Range(ShardSearch(s, query, limit)) : s \in IndexShards}, "none"), 0, limit)

\* mutant of Page: pages counted from zero
PageFromZero(query, score, order, page, perPage) ==
  Slice(Sorted({Hit(d, score[d], documents[ShardOf[d]][d].rank) :
                  d \in UNION {Found(s, query) : s \in IndexShards}}, order),
        page * perPage, perPage)

\* With a page or an order to sort by, every shard sends all its hits; `score` stands
\* for the scores that the shards give them.
Page(query, score, order, page, perPage) ==
  Slice(Sorted({Hit(d, score[d], documents[ShardOf[d]][d].rank) :
                  d \in UNION {Found(s, query) : s \in IndexShards}}, order),
        (page - 1) * perPage, perPage)

-----------------------------------------------------------------------------
\* However documents were added, written over and deleted, the postings are those of
\* the documents that are there: none too many, none too few, and no empty ones.
HasWord(s, d, w) == w \in Range(documents[s][d].words)
IndexFollowsDocuments ==
  \A s \in IndexShards :
    /\ documentTerms[s] = [d \in DOMAIN documents[s] |-> Range(documents[s][d].words)]
    /\ postings[s] =
         [w \in UNION {Range(documents[s][d].words) : d \in DOMAIN documents[s]} |->
            [d \in {e \in DOMAIN documents[s] : HasWord(s, e, w)} |->
               Frequency(documents[s][d].words, w)]]

Stored == {d \in DocumentIds : d \in DOMAIN documents[ShardOf[d]]}
Matches(query) ==
  {d \in Stored : \E w \in Range(query) : HasWord(ShardOf[d], d, w)}
Relevance(query, d) ==
  Total([i \in DOMAIN query |-> Frequency(documents[ShardOf[d]][d].words, query[i])])

\* A search over shards that each send only their best hits finds what one index of
\* all documents would find, in the same order.
SearchIsGlobal ==
  \A query \in Queries, limit \in 1 .. Cardinality(DocumentIds) :
    Search(query, limit) =
      Slice(Sorted({Hit(d, Relevance(query, d), documents[ShardOf[d]][d].rank) : d \in Matches(query)},
                   "none"), 0, limit)

\* What the pages show, and where.
Shown(query, score, order, perPage) ==
  UNION {LET hits == Page(query, score, order, page, perPage)
         IN  {[page |-> page, place |-> i, hit |-> hits[i]] : i \in DOMAIN hits} :
           page \in 1 .. Cardinality(DocumentIds)}
Follows(x, y) == y.page < x.page \/ (y.page = x.page /\ y.place < x.place)

\* The pages of a search that finds something hold every hit once, in one order, whatever scores the
\* shards give and whatever the pages' length.
PagesCoverHits ==
  \A query \in {q \in Queries : Matches(q) # {}}, order \in {"none", "asc", "desc"}, perPage \in 1 .. MaxPerPage :
    \A score \in [Matches(query) -> 1 .. MaxScore] :
      LET shown == Shown(query, score, order, perPage)
      IN  /\ {x.hit.id : x \in shown} = Matches(query)
          /\ \A x, y \in shown :
               Follows(x, y) => x.hit.id # y.hit.id /\ ~Precedes(order, x.hit, y.hit)
=============================================================================
