----------------------------- MODULE Retrieval -----------------------------
(***************************************************************************)
(* RetrievalService: candidates from the graph, facts from the database.   *)
(*                                                                         *)
(* The strategies search the graph at the same time and fail one by one;   *)
(* what they found is fused by rank, widened by a traversal when the       *)
(* budget allows, reranked, trimmed, and then only used to order the facts *)
(* the database believes, which are trimmed again.  Meanwhile the graph    *)
(* indexes facts, or never does, and facts are committed and retired       *)
(* (retracted or superseded), which the graph is not told.                 *)
(*                                                                         *)
(* A fact stands for its statement and for the edge the graph has of it.   *)
(* An edge whose text matches no candidate is like one of a retired fact.  *)
(***************************************************************************)
EXTENDS Naturals, Sequences, FiniteSets, SequencesExt

CONSTANTS
    Facts,        \* statements
    Salience,     \* how salient each is, all different
    Size,         \* how long each is
    About,        \* those about the entity in scope
    Dated,        \* those whose edge is valid in the period in scope
    MaxHits,      \* bound on what a search returns, _PER_STRATEGY_LIMIT
    Cutoff,       \* MAX_RERANK_CANDIDATES
    MaxItems,     \* max_items of the budget
    MaxChars,     \* max_context_chars of the budget
    ActiveLimit,  \* the limit of active_facts
    MaxChanges    \* bound on what happens to the facts meanwhile

ASSUME RetrievalAssumption ==
    /\ IsFiniteSet(Facts)
    /\ Salience \in [Facts -> Nat] /\ Size \in [Facts -> Nat \ {0}]
    /\ \A f, g \in Facts : Salience[f] = Salience[g] => f = g
    /\ About \subseteq Facts /\ Dated \subseteq Facts
    /\ {MaxHits, Cutoff, MaxItems, MaxChars, ActiveLimit} \subseteq Nat \ {0}
    /\ MaxChanges \in Nat

VARIABLES
    active,      \* the facts the database believes and has not superseded
    indexed,     \* the facts the graph has an edge of
    changed,     \* how much has happened to them during the retrieval
    query,       \* the retrieval at work
    live,        \* history: the facts active at some time since it began
    steady       \* history: the facts active all the time since

storeVars == <<active, indexed, changed>>
historyVars == <<live, steady>>
retrievalVars == <<storeVars, query, historyVars>>

Strategies == {"semantic", "fulltext", "entity", "temporal"}
Lost == <<"failed">>     \* what a search that raised returned

\* Lists of at most n members of S, each once.
Hits(S, n) == {<<>>} \union UNION {{s \in [1..k -> S] : IsInjective(s)} : k \in 1..n}

\* lost is history: some search raised.
Begun(scoped, planned) ==
    [at |-> "searching", scoped |-> scoped, planned |-> planned,
     found |-> [s \in {} |-> <<>>], lost |-> FALSE, hits |-> <<>>, near |-> {},
     degraded |-> FALSE, early |-> FALSE, facts |-> <<>>]

NoQuery == [at |-> "none"]
Stages == {"none", "searching", "fused", "wide", "resolving", "near", "links",
           "done", "raised", "refused"}

RetrievalTypeOK ==
    /\ active \subseteq Facts /\ indexed \subseteq Facts
    /\ query.at \in Stages
    /\ query.at # "none" =>
          /\ \A s \in DOMAIN query.found :
                query.found[s] = Lost \/ query.found[s] \in Hits(Facts, MaxHits)
          /\ query.hits \in Seq(Facts) /\ IsInjective(query.hits)
          /\ query.near \subseteq About
    /\ live \subseteq Facts /\ steady \subseteq live

\* Whatever earlier turns have left, in either store.
RetrievalInit ==
    /\ active \in SUBSET Facts /\ indexed \in SUBSET Facts /\ changed = 0
    /\ query = NoQuery
    /\ live = {} /\ steady = {}

-----------------------------------------------------------------------------
\* Meanwhile: a commit, the end of a fact, and an episode that reaches the
\* graph, which hears of neither.
Learn(f) == f \notin active /\ active' = active \union {f} /\ UNCHANGED indexed
Retire(f) == f \in active /\ active' = active \ {f} /\ UNCHANGED indexed
Index(f) == f \notin indexed /\ indexed' = indexed \union {f} /\ UNCHANGED active

Change ==
    /\ query.at \notin {"none", "done", "raised", "refused"}
    /\ changed < MaxChanges /\ changed' = changed + 1
    /\ \E f \in Facts : Learn(f) \/ Retire(f) \/ Index(f)
    /\ live' = live \union active'
    /\ steady' = steady \intersect active'
    /\ UNCHANGED query

-----------------------------------------------------------------------------
\* The graph, by what its calls may return.

\* _guard: every call of the graph may fail or time out, and then raises.
Guarded(results) == results \union {Lost}

\* What a search finds is the graph's business.  An undated edge is never in
\* a period, and a name with no node of just that name has no edges.
SearchResults(s) ==
    CASE s \in {"semantic", "fulltext"} -> Guarded(Hits(indexed, MaxHits))
      [] s = "temporal" -> Guarded(Hits(indexed \intersect Dated, MaxHits))
      [] s = "entity" -> Guarded(Hits(indexed, MaxHits))

\* The cross-encoder answers with some of the passages in an order of its own;
\* when it fails, or answers with none, they stay as they were.
CrossEncoded(head) ==
    IF Len(head) <= 1 THEN {head}
    ELSE {head} \union (Hits(Range(head), Len(head)) \ {<<>>})

-----------------------------------------------------------------------------
\* Fusion and the budget

\* Reciprocal ranks, in millionths.
Weight(rank) == 1000000 \div (60 + rank)
ScoreIn(f, list) ==
    FoldSet(LAMBDA n, part : part + IF list[n] = f THEN Weight(n) ELSE 0,
            0, DOMAIN list)
ScoreOf(f, lists) ==
    FoldSet(LAMBDA s, sum : sum + ScoreIn(f, lists[s]), 0, DOMAIN lists)

\* fuse: every hit once, by the sum of its reciprocal ranks; hits that tie come
\* in any order.
Fusions(lists) ==
    LET all == UNION {Range(lists[s]) : s \in DOMAIN lists}
    IN  {order \in [1..Cardinality(all) -> all] :
            /\ IsInjective(order)
            /\ \A i, j \in DOMAIN order :
                  i < j => ScoreOf(order[i], lists) >= ScoreOf(order[j], lists)}

\* The characters of a set of facts.
Text(S) == UNION {{f} \X (1..Size[f]) : f \in S}
Chars(S) == Cardinality(Text(S))
Fits(s) == Len(s) <= MaxItems /\ (Len(s) <= 1 \/ Chars(Range(s)) <= MaxChars)

\* trim: the longest prefix within both ceilings; the first item always stays.
Trim(s) ==
    LET longest == CHOOSE n \in 0..Len(s) :
            /\ \A m \in 0..n : Fits(SubSeq(s, 1, m))
            /\ n = Len(s) \/ ~Fits(SubSeq(s, 1, n + 1))
    IN  SubSeq(s, 1, longest)

-----------------------------------------------------------------------------
\* retrieve: two strategies always run, the others when the query is scoped
\* to an entity the database knows by a name, and to a period.
Plans(scoped) ==
    {p \in SUBSET Strategies : {"semantic", "fulltext"} \subseteq p
                               /\ ("entity" \in p => scoped)}

BeginRetrieval ==
    /\ query.at = "none"
    /\ \E scoped \in BOOLEAN : \E planned \in Plans(scoped) :
          query' = Begun(scoped, planned)
    /\ live' = active /\ steady' = active
    /\ UNCHANGED storeVars

\* One strategy ends.  Its siblings go on whether or not it raised.
Search(s) ==
    /\ query.at = "searching" /\ s \in query.planned \ DOMAIN query.found
    /\ \E result \in SearchResults(s) :
          query' = [query EXCEPT !.found =
                       [t \in DOMAIN query.found \union {s} |->
                           IF t = s THEN result ELSE query.found[t]]]
    /\ UNCHANGED <<storeVars, historyVars>>

Failed == {s \in DOMAIN query.found : query.found[s] = Lost}

\* Variant: degraded only when every strategy has failed.
AllFailed == Failed = query.planned

\* any_failed, which knows nothing of the traversal to come.
Degraded == Failed # {}

Fuse ==
    /\ query.at = "searching" /\ DOMAIN query.found = query.planned
    /\ \E order \in Fusions([s \in query.planned \ Failed |-> query.found[s]]) :
          query' = [Begun(query.scoped, {}) EXCEPT
                      !.at = "fused", !.hits = order,
                      !.lost = (Failed # {}), !.degraded = Degraded]
    /\ UNCHANGED <<storeVars, historyVars>>

\* should_continue says no: the context ceiling, or the clock.
StopEarly ==
    /\ query.at = "fused"
    /\ query' = [query EXCEPT !.at = "wide", !.early = TRUE]
    /\ UNCHANGED <<storeVars, historyVars>>

\* Edges near the best hits, fused once more with what there was.  There
\* may be no seeds, and seeds that fail are left out, which is only logged.
Traverse ==
    /\ query.at = "fused"
    /\ Chars(Range(query.hits)) < MaxChars
    /\ \/ \E near \in Hits(indexed, MaxHits) :
          /\ near # <<>> /\ query.hits # <<>>
          /\ \E order \in Fusions([s \in {"fused", "traversal"} |->
                                      IF s = "fused" THEN query.hits ELSE near]) :
                query' = [query EXCEPT !.at = "wide", !.hits = order]
       \/ query' = [query EXCEPT !.at = "wide"]
    /\ UNCHANGED <<storeVars, historyVars>>

\* The head as the cross-encoder leaves it, and the tail; then the first trim.
Rerank ==
    /\ query.at = "wide"
    /\ LET cut == IF Len(query.hits) < Cutoff THEN Len(query.hits) ELSE Cutoff
       IN  \E head \in CrossEncoded(SubSeq(query.hits, 1, cut)) :
              query' = [query EXCEPT !.at = "resolving",
                          !.hits = Trim(head \o SubSeq(query.hits, cut + 1, Len(query.hits)))]
    /\ UNCHANGED <<storeVars, historyVars>>

-----------------------------------------------------------------------------
\* Resolution against the database, one connection per read

\* ORDER BY salience DESC LIMIT limit
MostSalient(S, limit) ==
    {f \in S : Cardinality({g \in S : Salience[g] > Salience[f]}) < limit}

\* facts_for_entity
ReadScope ==
    /\ query.at = "resolving" /\ query.scoped
    /\ query' = [query EXCEPT !.at = "near",
                              !.near = MostSalient(active \intersect About, MaxItems)]
    /\ UNCHANGED <<storeVars, historyVars>>

\* The candidates the graph found come first, in its order, and the others by
\* salience.
Precedes(f, g) ==
    \/ /\ f \in Range(query.hits)
       /\ g \in Range(query.hits) =>
             \E i, j \in DOMAIN query.hits :
                i < j /\ query.hits[i] = f /\ query.hits[j] = g
    \/ {f, g} \intersect Range(query.hits) = {} /\ Salience[f] > Salience[g]

\* Variant: what the graph found is shown as it is.
FromGraph(candidates) == {query.hits}

\* The one list of the candidates in that order.
Ordered(candidates) ==
    {s \in [1..Cardinality(candidates) -> candidates] :
        IsInjective(s) /\ \A i, j \in DOMAIN s : i < j => Precedes(s[i], s[j])}

\* active_facts, both reads put together, and the second trim.
ReadActive ==
    /\ \/ query.at = "resolving" /\ ~query.scoped
       \/ query.at = "near"
    /\ \E facts \in Ordered(query.near \union MostSalient(active, ActiveLimit)) :
          query' = [query EXCEPT !.at = IF query.scoped THEN "links" ELSE "done",
                                 !.hits = <<>>, !.near = {}, !.facts = Trim(facts)]
    /\ UNCHANGED <<storeVars, historyVars>>

\* The entities in scope and their relationships.
ReadLinks ==
    /\ query.at = "links"
    /\ query' = [query EXCEPT !.at = "done"]
    /\ UNCHANGED <<storeVars, historyVars>>

\* retrieve raises, whatever it has: the database refuses, here or when the
\* names in scope are read, or anything else goes wrong on the way.
Raise(how) ==
    /\ query.at \notin {"none", "done", "raised", "refused"}
    /\ how = "refused" => \/ query.at = "searching" /\ query.scoped
                             /\ DOMAIN query.found = {}
                          \/ query.at \in {"resolving", "near", "links"}
    /\ query' = [Begun(FALSE, {}) EXCEPT !.at = how]
    /\ UNCHANGED <<storeVars, historyVars>>

RetrievalStep ==
    \/ \E s \in Strategies : Search(s)
    \/ Fuse \/ StopEarly \/ Traverse \/ Rerank
    \/ ReadScope \/ ReadActive \/ ReadLinks
    \/ \E how \in {"raised", "refused"} : Raise(how)
=============================================================================
