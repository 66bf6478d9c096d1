------------------------------- MODULE Search -------------------------------
(***************************************************************************)
(* Web search: Tavily and DuckDuckGo, alone or merged                      *)
(* (services/search).  A search returns results, or raises SearchError or  *)
(* something else.                                                         *)
(***************************************************************************)
EXTENDS Naturals, SequencesExt

CONSTANTS
  TavilyKey,           \* an API key of Tavily is configured
  IncludeDuckDuckGo    \* search_include_duckduckgo

\* An item of a provider's answer: its page, how the URL is spelled (the page is
\* what casefold leaves of it), and whether it has a title and a URL, or only a
\* blank snippet, which the schema of a result refuses.
Item(page, spelling, shape) == [page |-> page, spelling |-> spelling, shape |-> shape]
Shapes == {"whole", "incomplete", "blank"}

Results(items) == [raised |-> "none", items |-> items]
Raised(how)    == [raised |-> how, items |-> <<>>]

Firsts(s, n) == SubSeq(s, 1, IF Len(s) < n THEN Len(s) ELSE n)
Whole(items) ==
  FoldLeft(LAMBDA acc, i : IF i.shape # "incomplete" THEN Append(acc, i) ELSE acc,
           <<>>, items)
AnyBlank(items) == \E i \in ToSet(items) : i.shape = "blank"

\* TavilySearchClient.search.  An error of the transport or a status is a
\* SearchError; a body that is not JSON, or an item the schema refuses, is not.
TavilySearch(raw, n) ==
  CASE raw.raised = "status"   -> Raised("SearchError")
    [] raw.raised = "not_json" -> Raised("ValueError")
    [] OTHER -> LET items == Firsts(raw.items, n)
                IN  IF AnyBlank(Whole(items)) THEN Raised("ValueError")
                    ELSE Results(Whole(items))

\* _search_sync: two strategies; the first that finds something is taken, and
\* finding nothing is an error only if one of them failed.
SearchSync(first, second) ==
  IF first.items # <<>> THEN first
  ELSE IF second.items # <<>> THEN second
  ELSE IF second.raised # "none" THEN second ELSE first

\* DuckDuckGoSearchClient.search: whatever goes wrong is a SearchError.
DuckDuckGoSearch(first, second, n) ==
  LET raw == SearchSync(first, second)
  IN  IF raw.raised # "none" \/ AnyBlank(Whole(raw.items)) THEN Raised("SearchError")
      ELSE Results(Whole(raw.items))

\* _dedupe_search_results, and the same loop in _merge_results: the first result
\* of a page stays.
Deduped(items) ==
  FoldLeft(LAMBDA acc, i : IF \E j \in ToSet(acc) : j.page = i.page
                           THEN acc ELSE Append(acc, i), <<>>, items)

\* Bug: an error of one provider is passed on.
NotSafe(outcome) == outcome

\* CompositeSearchClient._safe_search: no results instead of a SearchError.
SafeSearch(outcome) ==
  IF outcome.raised = "SearchError" THEN Results(<<>>) ELSE outcome

\* CompositeSearchClient.search, Tavily first.
CompositeSearch(tavily, ddg, n) ==
  LET a == SafeSearch(tavily)
      b == SafeSearch(ddg)
  IN  IF a.raised # "none" THEN a
      ELSE IF b.raised # "none" THEN b
      ELSE Results(Firsts(Deduped(a.items \o b.items), n))

\* create_search_client, and a search with what it makes.
Composite == TavilyKey /\ IncludeDuckDuckGo
SearchOutcome(raw, first, second, n) ==
  LET tavily == TavilySearch(raw, n)
      ddg    == DuckDuckGoSearch(first, second, n)
  IN  IF Composite THEN CompositeSearch(tavily, ddg, n)
      ELSE IF TavilyKey THEN tavily ELSE ddg
=============================================================================
