--------------------------- MODULE ClientRequests ---------------------------
(***************************************************************************)
(* The requests of the client library: the method and path of every        *)
(* operation of its resource classes, and the parameters of the writes of  *)
(* documents.                                                              *)
(*                                                                         *)
(* A path is the sequence of its segments.  Names (of collections,         *)
(* documents, rules, ...) are joined into it as they are, so a name is the *)
(* segments it becomes: one with a slash in it is several.  The caller's   *)
(* parameters are a dictionary that the writes of documents write their    *)
(* action into, and that every attempt of a request reads again.           *)
(***************************************************************************)
EXTENDS Integers, Sequences, FiniteSets

CONSTANTS
  Names,       \* names, as the segments they become
  MaxCalls,    \* bound: calls
  MaxRetries   \* bound: further attempts of all calls together

ASSUME RequestsAssumption == MaxCalls \in Nat /\ MaxRetries \in Nat /\ Names \subseteq Seq(STRING)

VARIABLES
  calls,     \* the calls, in the order in which they began
  shared,    \* the action in the dictionary that the calls share, or NoAction
  flag,      \* its boolean: "True" as the caller put it there, or "true"
  sent,      \* of every call, the parameters of its latest attempt
  retries,
  mixed      \* history: calls sent again after another one took the dictionary

requestVars == <<calls, shared, flag, sent, retries, mixed>>

NoAction == "none"
NoParams == [action |-> NoAction, flag |-> "none"]

\* The operations of a class on one object: their methods, and the path they share.
Requests(class, methods, names, path) ==
  {[class |-> class, op |-> op, method |-> methods[op], names |-> names, path |-> path] :
     op \in DOMAIN methods}

-----------------------------------------------------------------------------
(* The resource classes.                                                   *)

Collections ==
  Requests("Collections", [create |-> "POST", retrieve |-> "GET"], <<>>, <<"collections">>)
Collection(c) ==
  Requests("Collection", [retrieve |-> "GET", update |-> "PATCH", delete |-> "DELETE"], <<c>>,
        <<"collections">> \o c)

\* mutant of DocumentsPath: the action is left out
DocumentsPathOnly(c, action) == <<"collections">> \o c \o <<"documents", "">>

DocumentsPath(c, action) == <<"collections">> \o c \o <<"documents", action>>

Documents(c) ==
  Requests("Documents", [create |-> "POST", upsert |-> "POST", update |-> "PATCH"],
        <<c>>, DocumentsPath(c, ""))
DocumentsDelete(c) == Requests("Documents", [delete |-> "DELETE"], <<c>>, DocumentsPath(c, ""))
DocumentsSearch(c) == Requests("Documents", [search |-> "GET"], <<c>>, DocumentsPath(c, "search"))
DocumentsExport(c) == Requests("Documents", [export |-> "GET"], <<c>>, DocumentsPath(c, "export"))
DocumentsImport(c) == Requests("Documents", [import |-> "POST"], <<c>>, DocumentsPath(c, "import"))
Document(c, d) ==
  Requests("Document", [retrieve |-> "GET", update |-> "PATCH", delete |-> "DELETE"], <<c, d>>,
        <<"collections">> \o c \o <<"documents">> \o d)

Overrides(c, o) ==
  Requests("Overrides", [upsert |-> "PUT"], <<c, o>>, <<"collections">> \o c \o <<"overrides">> \o o)
  \cup Requests("Overrides", [retrieve |-> "GET"], <<c>>, <<"collections">> \o c \o <<"overrides", "">>)
Override(c, o) ==
  Requests("Override", [retrieve |-> "GET", delete |-> "DELETE"], <<c, o>>,
        <<"collections">> \o c \o <<"overrides">> \o o)
Synonyms(c, s) ==
  Requests("Synonyms", [upsert |-> "PUT"], <<c, s>>, <<"collections">> \o c \o <<"synonyms">> \o s)
  \cup Requests("Synonyms", [retrieve |-> "GET"], <<c>>, <<"collections">> \o c \o <<"synonyms", "">>)
Synonym(c, s) ==
  Requests("Synonym", [retrieve |-> "GET", delete |-> "DELETE"], <<c, s>>,
        <<"collections">> \o c \o <<"synonyms">> \o s)

Aliases(n) ==
  Requests("Aliases", [upsert |-> "PUT"], <<n>>, <<"aliases">> \o n)
  \cup Requests("Aliases", [retrieve |-> "GET"], <<>>, <<"aliases">>)
Alias(n) ==
  Requests("Alias", [retrieve |-> "GET", delete |-> "DELETE"], <<n>>, <<"aliases">> \o n)
Keys == Requests("Keys", [create |-> "POST", retrieve |-> "GET"], <<>>, <<"keys">>)
Key(k) == Requests("Key", [retrieve |-> "GET", delete |-> "DELETE"], <<k>>, <<"keys">> \o k)
Stopwords(n) ==
  Requests("Stopwords", [upsert |-> "PUT"], <<n>>, <<"stopwords">> \o n)
  \cup Requests("Stopwords", [retrieve |-> "GET"], <<>>, <<"stopwords">>)
StopwordsSet(n) ==
  Requests("StopwordsSet", [retrieve |-> "GET", delete |-> "DELETE"], <<n>>, <<"stopwords">> \o n)

\* Synonym and curation sets hold named items.
SynonymSets == Requests("SynonymSets", [retrieve |-> "GET"], <<>>, <<"synonym_sets">>)
SynonymSet(n, item) ==
  Requests("SynonymSet", [retrieve |-> "GET", upsert |-> "PUT", delete |-> "DELETE"], <<n>>,
        <<"synonym_sets">> \o n)
  \cup Requests("SynonymSet", [list_items |-> "GET"], <<n>>, <<"synonym_sets">> \o n \o <<"items">>)
  \cup Requests("SynonymSet", [get_item |-> "GET", upsert_item |-> "PUT", delete_item |-> "DELETE"],
             <<n, item>>, <<"synonym_sets">> \o n \o <<"items">> \o item)
CurationSets == Requests("CurationSets", [retrieve |-> "GET"], <<>>, <<"curation_sets">>)
CurationSet(n, item) ==
  Requests("CurationSet", [retrieve |-> "GET", upsert |-> "PUT", delete |-> "DELETE"], <<n>>,
        <<"curation_sets">> \o n)
  \cup Requests("CurationSet", [list_items |-> "GET"], <<n>>, <<"curation_sets">> \o n \o <<"items">>)
  \cup Requests("CurationSet", [get_item |-> "GET", upsert_item |-> "PUT", delete_item |-> "DELETE"],
             <<n, item>>, <<"curation_sets">> \o n \o <<"items">> \o item)

AnalyticsEvents ==
  Requests("AnalyticsEvents", [create |-> "POST", retrieve |-> "GET"], <<>>, <<"analytics", "events">>)
  \cup Requests("AnalyticsEvents", [flush |-> "POST"], <<>>, <<"analytics", "flush">>)
  \cup Requests("AnalyticsEvents", [status |-> "GET"], <<>>, <<"analytics", "status">>)
AnalyticsRules(n) ==
  Requests("AnalyticsRules", [upsert |-> "PUT"], <<n>>, <<"analytics", "rules">> \o n)
  \cup Requests("AnalyticsRules", [create |-> "POST", retrieve |-> "GET"], <<>>, <<"analytics", "rules">>)
AnalyticsRule(n) ==
  Requests("AnalyticsRule", [retrieve |-> "GET", delete |-> "DELETE"], <<n>>,
        <<"analytics", "rules">> \o n)
\* The deprecated classes send what their successors send.
AnalyticsRulesV1(n) ==
  Requests("AnalyticsRules", [upsert |-> "PUT"], <<n>>, <<"analytics", "rules">> \o n)
  \cup Requests("AnalyticsRules", [create |-> "POST", retrieve |-> "GET"], <<>>, <<"analytics", "rules">>)
AnalyticsRuleV1(n) ==
  Requests("AnalyticsRule", [retrieve |-> "GET", delete |-> "DELETE"], <<n>>,
        <<"analytics", "rules">> \o n)

ConversationsModels ==
  Requests("ConversationsModels", [create |-> "POST", retrieve |-> "GET"], <<>>, <<"conversations", "models">>)
ConversationModel(n) ==
  Requests("ConversationModel", [retrieve |-> "GET", update |-> "PUT", delete |-> "DELETE"], <<n>>,
        <<"conversations", "models">> \o n)
NLSearchModels ==
  Requests("NLSearchModels", [create |-> "POST", retrieve |-> "GET"], <<>>, <<"nl_search_models">>)
NLSearchModel(n) ==
  Requests("NLSearchModel", [retrieve |-> "GET", update |-> "PUT", delete |-> "DELETE"], <<n>>,
        <<"nl_search_models">> \o n)
StemmingDictionaries ==
  Requests("StemmingDictionaries", [retrieve |-> "GET"], <<>>, <<"stemming", "dictionaries">>)
  \cup Requests("StemmingDictionaries", [upsert |-> "POST"], <<>>, <<"stemming", "dictionaries", "import">>)
StemmingDictionary(n) ==
  Requests("StemmingDictionary", [retrieve |-> "GET"], <<n>>, <<"stemming", "dictionaries">> \o n)

MultiSearch == Requests("MultiSearch", [perform |-> "POST"], <<>>, <<"multi_search">>)
Operations ==
  Requests("Operations", [is_healthy |-> "GET"], <<>>, <<"health">>)
  \cup Requests("Operations", [toggle_slow_request_log |-> "POST"], <<>>, <<"config">>)
  \cup UNION {Requests("Operations", [perform |-> "POST"], <<operation>>, <<"operations">> \o operation) :
                operation \in {<<"snapshot">>, <<"vote">>, <<"db", "compact">>, <<"cache", "clear">>}}
Debug == Requests("Debug", [retrieve |-> "GET"], <<>>, <<"debug">>)
Metrics == Requests("Metrics", [retrieve |-> "GET"], <<>>, <<"metrics.json">>)

\* What a client can ask for: of itself, by one name, and of something in a collection or a set.
OfClient ==
  UNION {Collections, Keys, SynonymSets, CurationSets, AnalyticsEvents, ConversationsModels,
         NLSearchModels, StemmingDictionaries, MultiSearch, Operations, Debug, Metrics}
ByName(n) ==
  UNION {Collection(n), Documents(n), DocumentsDelete(n), DocumentsSearch(n), DocumentsExport(n),
         DocumentsImport(n), Aliases(n), Alias(n), Key(n), Stopwords(n), StopwordsSet(n),
         AnalyticsRules(n), AnalyticsRule(n), AnalyticsRulesV1(n), AnalyticsRuleV1(n),
         ConversationModel(n), NLSearchModel(n), StemmingDictionary(n)}
Within(n, item) ==
  UNION {Document(n, item), Overrides(n, item), Override(n, item), Synonyms(n, item), Synonym(n, item),
         SynonymSet(n, item), CurationSet(n, item)}
Client ==
  UNION {OfClient, UNION {ByName(n) : n \in Names},
         UNION {Within(p[1], p[2]) : p \in Names \X Names}}

-----------------------------------------------------------------------------
(* Sending.                                                                *)

RequestsInit ==
  /\ calls = <<>> /\ sent = <<>> /\ retries = 0 /\ mixed = {}
  /\ shared = NoAction /\ flag = "True"

\* The writes of documents that put their action into the dictionary.
Actions == {"create", "upsert", "update"}
Acting(call) == call.class = "Documents" /\ call.op \in Actions

ActionOf(call) == IF Acting(call) THEN call.op ELSE shared

\* normalize_params writes "true" and "false" into the dictionary itself.
Request(call) ==
  /\ Len(calls) < MaxCalls
  /\ calls' = Append(calls, call)
  /\ IF Acting(call) \/ call.op = "import"
     THEN /\ shared' = ActionOf(call) /\ flag' = "true"
          /\ sent' = Append(sent, [action |-> shared', flag |-> flag'])
     ELSE /\ sent' = Append(sent, NoParams)
          /\ UNCHANGED <<shared, flag>>
  /\ UNCHANGED <<retries, mixed>>

\* A call that is still under way is sent again, with the dictionary as it is now.
SendAgain(i) ==
  /\ retries < MaxRetries /\ sent[i] # NoParams
  /\ retries' = retries + 1
  /\ sent' = [sent EXCEPT ![i] = [action |-> shared, flag |-> flag]]
  /\ mixed' = IF \E j \in DOMAIN calls : j > i /\ sent[j] # NoParams THEN mixed \cup {i} ELSE mixed
  /\ UNCHANGED <<calls, shared, flag>>

RequestsNext ==
  \/ \E call \in Client : Request(call)
  \/ \E i \in DOMAIN calls : SendAgain(i)

RequestsSpec == RequestsInit /\ [][RequestsNext]_requestVars

-----------------------------------------------------------------------------
\* A name that becomes one segment, not empty and none of the API's own words.
Plain(name) == Len(name) = 1 /\ name[1] \notin {"", "search", "export", "import"}
PlainNames(call) ==
  call.class = "Operations" \/ \A k \in DOMAIN call.names : Plain(call.names[k])

\* Two requests of the same method, path and action ask for the same operation on
\* the same object: no class is mistaken for another, and a named object is never
\* taken for the collection it is in or for a bulk operation of it, as long as the
\* names are plain and a retry does not carry another call's action.
RequestsTellApart ==
  \A i, j \in DOMAIN calls \ mixed :
    /\ calls[i].method = calls[j].method /\ calls[i].path = calls[j].path
    /\ sent[i].action = sent[j].action
    /\ PlainNames(calls[i]) /\ PlainNames(calls[j])
    => calls[i] = calls[j]
=============================================================================
