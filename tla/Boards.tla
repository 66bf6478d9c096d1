------------------------------- MODULE Boards -------------------------------
(***************************************************************************)
(* From a company's name, or its careers URL, to a watched company         *)
(* (services/radar/resolver.py, and add_watched_company of api/radar.py):  *)
(* the URL is parsed, else the name is tried as a token of each ATS, else  *)
(* the web is searched; the user sees what was found, and adds it.  Each   *)
(* request to a board is a step, so that boards open and close, and fail,  *)
(* between them.                                                           *)
(***************************************************************************)
EXTENDS Ats, Search

CONSTANTS
  Tabs,           \* forms open in browsers: AddCompanyForm
  Queries,        \* what is typed into them
  Places,         \* boards that may exist: a source and a token
  BadAnswers,     \* what an API may answer whatever the board is
  SearchAnswers,  \* <<tavily, first, second>>: answers of the search providers
  LegalSuffixes,       \* _LEGAL_SUFFIXES
  MAX_SLUG_CANDIDATES,
  MAX_SEARCH_RESULTS,
  MaxFaults,      \* bound: answers that do not say what the board is
  MaxChanges,     \* bound: boards that open or close
  MaxSubmits      \* bound: queries submitted

ASSUME BoardAssumption ==
  /\ MAX_SLUG_CANDIDATES \in Nat /\ MAX_SEARCH_RESULTS \in Nat
  /\ MaxFaults \in Nat /\ MaxChanges \in Nat /\ MaxSubmits \in Nat
  /\ \A p \in Places : p.source \in Sources
  /\ \A answer \in BadAnswers : answer.kind \in {"not_found"} \cup Failures \cup Payloads
  /\ \A a \in SearchAnswers : \A i \in 1..3 : a[i].items \in Seq(ToSet(a[i].items))

VARIABLES
  listing,   \* "none", "bare" (it lists nothing usable) or "open"
  tab,       \* what each form waits for
  watched,   \* the boards of watched_companies
  faults, changes, submits,
  observed   \* history: what a board has been to a tab since it submitted

formVars == <<listing, tab, watched, faults, changes, submits, observed>>

(***************************************************************************)
(* A name is a sequence of what spaces separate, each a sequence of words. *)
(***************************************************************************)
Distinct(s) ==
  FoldLeft(LAMBDA acc, x : IF x \in ToSet(acc) THEN acc ELSE Append(acc, x), <<>>, s)

\* The tokens made of words: joined, joined by hyphens, and the first part of a name.
Spelled(words, first) ==
  LET Maybe(w, sep) == IF w = <<>> THEN <<>> ELSE <<Token(w, sep)>>
  IN  Firsts(Distinct(Maybe(words, "") \o Maybe(words, "-") \o Maybe(first, "")),
             MAX_SLUG_CANDIDATES)

\* What of a part comes before the first suffix in it, or between that one and the
\* next when the part begins with it: a suffix splits the part it is in.
FirstPiece(part) ==
  LET from == IF part[1] \in LegalSuffixes THEN 2 ELSE 1
      ends == {i \in from..Len(part) : part[i] \in LegalSuffixes}
  IN  SubSeq(part, from, IF ends = {} THEN Len(part) ELSE Min(ends) - 1)

\* A part that is a suffix and nothing else is gone.
slug_candidates(name) ==
  LET parts == SelectSeq(name, LAMBDA part : part # <<part[1]>>
                                               \/ part[1] \notin LegalSuffixes)
      words == SelectSeq(FlattenSeq(parts), LAMBDA w : w \notin LegalSuffixes)
  IN  Spelled(words, IF parts = <<>> THEN <<>> ELSE FirstPiece(parts[1]))

(***************************************************************************)
(* Requests to boards                                                      *)
(***************************************************************************)
At(p) == IF p \in Places THEN listing[p] ELSE "none"

Honest(p) ==
  LET kind == IF p.source = "lever" THEN "list" ELSE "jobs"
  IN  CASE At(p) = "none" -> Answer("not_found", <<>>)
        [] At(p) = "bare" -> Answer(kind, <<{"id", "title"}>>)
        [] At(p) = "open" -> Answer(kind, <<{"id", "title"},
                                            {"id", "title"} \cup Texts[p.source]>>)

Outcome(p, answer) ==
  LET got == fetch(p.source, answer)
  IN  IF got.raised # "none" THEN "none"
      ELSE IF got.postings = {} THEN "bare" ELSE "open"

Waiting == {"url", "probe", "search", "results"}

\* What is seen of p joins what the forms that wait have seen.
Seen(p, state) ==
  [t \in Tabs |-> IF tab[t].stage \in Waiting THEN observed[t] \cup {<<p, state>>}
                  ELSE observed[t]]

\* The API is asked for p: it says what the board is, or answers badly.
Replies(p, Result(_)) ==
  \/ Result(Honest(p)) /\ UNCHANGED <<faults, observed>>
  \/ /\ faults < MaxFaults
     /\ \E answer \in BadAnswers :
          /\ Result(answer)
          /\ observed' = Seen(p, Outcome(p, answer))
     /\ faults' = faults + 1

Nothing == [stage |-> "empty", query |-> <<>>, slug |-> 1, asked |-> {}, hits |-> {},
            found |-> <<>>, next |-> 1, offer |-> <<>>]

SlugsOf     == [q \in Queries |-> slug_candidates(q.name)]
Slugs(t)    == SlugsOf[tab[t].query]
Place(s, k) == [source |-> s, token |-> k]
UrlPlace(q) == IF q.url = NoToken THEN <<>> ELSE board_from_url(q.url)

SearchOutcomes ==
  {SearchOutcome(a[1], a[2], a[3], MAX_SEARCH_RESULTS) : a \in SearchAnswers}

\* A stage with nothing kept of those before it but the query and the results.
Turned(was, stage) == [Nothing EXCEPT !.stage = stage, !.query = was.query,
                                      !.found = was.found]
Found(t, p, via)   == [Turned(tab[t], "offered") EXCEPT !.offer = <<p, via>>]
Probing(was) ==
  Turned(was, IF SlugsOf[was.query] = <<>> THEN "search" ELSE "probe")

\* handleResolve, and looks_like_url: what does not belong to a source is taken for
\* a name, even if it is a URL.
Submit(t) ==
  /\ tab[t].stage \in {"empty", "offered", "refused"}
  /\ submits < MaxSubmits
  /\ \E q \in Queries :
       LET new == [Nothing EXCEPT !.query = q]
       IN  tab' = [tab EXCEPT ![t] = IF UrlPlace(q) = <<>> THEN Probing(new)
                                     ELSE [new EXCEPT !.stage = "url"]]
  /\ submits' = submits + 1
  /\ observed' = [observed EXCEPT ![t] = {<<p, listing[p]>> : p \in Places}]
  /\ UNCHANGED <<listing, watched, faults, changes>>

\* _resolve_from_url: a board is taken even if it is empty.
AskUrl(t) ==
  /\ tab[t].stage = "url"
  /\ LET p == UrlPlace(tab[t].query)[1]
     IN  Replies(p, LAMBDA answer :
           tab' = [tab EXCEPT ![t] = IF Outcome(p, answer) = "none" THEN Probing(@)
                                     ELSE Found(t, p, "url")])
  /\ UNCHANGED <<listing, watched, changes, submits>>

\* One of the three requests of _resolve_by_probe's gather.
Probe(t, s) ==
  /\ tab[t].stage = "probe" /\ s \notin tab[t].asked
  /\ LET p == Place(s, Slugs(t)[tab[t].slug])
     IN  Replies(p, LAMBDA answer :
           tab' = [tab EXCEPT ![t].asked = @ \cup {s},
                              ![t].hits  = IF probe(s, answer) THEN @ \cup {s} ELSE @])
  /\ UNCHANGED <<listing, watched, changes, submits>>

\* Bug: a board that answers the probe is taken without counting its roles.
ProbeIsEnough(outcome) == TRUE

\* `if not count: continue`, in both loops.
HasRoles(outcome) == outcome = "open"

\* The loop over the sources that answered, in order.
CountProbed(t) ==
  /\ tab[t].stage = "probe" /\ tab[t].asked = Sources /\ tab[t].hits # {}
  /\ LET s == FirstOf(tab[t].hits)
         p == Place(s, Slugs(t)[tab[t].slug])
     IN  Replies(p, LAMBDA answer :
           tab' = [tab EXCEPT ![t] = IF HasRoles(Outcome(p, answer)) THEN Found(t, p, "probe")
                                     ELSE [tab[t] EXCEPT !.hits = @ \ {s}]])
  /\ UNCHANGED <<listing, watched, changes, submits>>

\* The next candidate, or the next tier.
NextSlug(t) ==
  /\ tab[t].stage = "probe" /\ tab[t].asked = Sources /\ tab[t].hits = {}
  /\ tab' = [tab EXCEPT ![t] =
       IF tab[t].slug < Len(Slugs(t)) THEN [tab[t] EXCEPT !.slug = @ + 1, !.asked = {}]
       ELSE Turned(tab[t], "search")]
  /\ UNCHANGED <<listing, watched, faults, changes, submits, observed>>

\* The search of _resolve_by_search.  A SearchError finds nothing; another error is
\* the answer of the request.
SearchWeb(t) ==
  /\ tab[t].stage = "search"
  /\ \E got \in SearchOutcomes :
       tab' = [tab EXCEPT ![t] =
         CASE got.raised = "none"        -> [@ EXCEPT !.stage = "results",
                                                      !.found = got.items]
           [] got.raised = "SearchError" -> Turned(@, "refused")
           [] OTHER                      -> Turned(@, "failed")]
  /\ UNCHANGED <<listing, watched, faults, changes, submits, observed>>

\* The loop over the results.
CountResult(t) ==
  /\ tab[t].stage = "results" /\ tab[t].next <= Len(tab[t].found)
  /\ LET match == board_from_url(tab[t].found[tab[t].next].page)
         on    == [tab[t] EXCEPT !.next = @ + 1]
     IN  IF match = <<>> THEN tab' = [tab EXCEPT ![t] = on] /\ UNCHANGED <<faults, observed>>
         ELSE Replies(match[1], LAMBDA answer :
                tab' = [tab EXCEPT ![t] = IF HasRoles(Outcome(match[1], answer))
                                          THEN Found(t, match[1], "search") ELSE on])
  /\ UNCHANGED <<listing, watched, changes, submits>>

\* BoardNotFoundError.
GiveUp(t) ==
  /\ tab[t].stage = "results" /\ tab[t].next > Len(tab[t].found)
  /\ tab' = [tab EXCEPT ![t] = Turned(@, "refused")]
  /\ UNCHANGED <<listing, watched, faults, changes, submits, observed>>

(***************************************************************************)
(* What the user and the world do                                          *)
(***************************************************************************)

\* handleConfirm and add_watched_company: the unique constraint refuses what is
\* there, and the form keeps the offer.
Confirm(t) ==
  /\ tab[t].stage = "offered"
  /\ LET p == tab[t].offer[1]
     IN  /\ watched' = watched \cup {p}
         /\ IF p \in watched THEN UNCHANGED <<tab, observed>>
            ELSE /\ tab' = [tab EXCEPT ![t] = Nothing]
                 /\ observed' = [observed EXCEPT ![t] = {}]
  /\ UNCHANGED <<listing, faults, changes, submits>>

\* remove_watched_company.
RemoveCompany(p) ==
  /\ p \in watched
  /\ watched' = watched \ {p}
  /\ UNCHANGED <<listing, tab, faults, changes, submits, observed>>

\* A company opens or closes its board, or its last role.  Bound: only while a form
\* waits; a query is submitted in every state of the boards anyway.
BoardChanges(p) ==
  /\ changes < MaxChanges
  /\ \E t \in Tabs : tab[t].stage \in Waiting
  /\ \E state \in {"none", "bare", "open"} \ {listing[p]} :
       /\ listing' = [listing EXCEPT ![p] = state]
       /\ observed' = Seen(p, state)
  /\ changes' = changes + 1
  /\ UNCHANGED <<tab, watched, faults, submits>>

BoardsInit ==
  /\ listing \in [Places -> {"none", "bare", "open"}]
  /\ tab = [t \in Tabs |-> Nothing]
  /\ watched = {}
  /\ faults = 0 /\ changes = 0 /\ submits = 0
  /\ observed = [t \in Tabs |-> {}]

Resolving(t) ==
  \/ AskUrl(t) \/ (\E s \in Sources : Probe(t, s)) \/ CountProbed(t) \/ NextSlug(t)
  \/ SearchWeb(t) \/ CountResult(t) \/ GiveUp(t)

BoardsNext ==
  \/ \E t \in Tabs : Submit(t) \/ Resolving(t) \/ Confirm(t)
  \/ \E p \in Places : RemoveCompany(p) \/ BoardChanges(p)

BoardsSpec == BoardsInit /\ [][BoardsNext]_formVars

(***************************************************************************)
(* Properties                                                              *)
(***************************************************************************)
FormStages == Waiting \cup {"empty", "offered", "refused", "failed"}

\* Every variable has a value of the kind the code gives it.
BoardsTypeOK ==
  /\ listing \in [Places -> {"none", "bare", "open"}]
  /\ \A t \in Tabs :
       /\ tab[t].stage \in FormStages
       /\ tab[t].stage # "empty" => tab[t].query \in Queries
       /\ tab[t].asked \subseteq Sources /\ tab[t].hits \subseteq tab[t].asked
       /\ tab[t].stage = "probe" => tab[t].slug \in DOMAIN Slugs(t)
       /\ tab[t].next \in 1..(Len(tab[t].found) + 1)
  /\ faults \in 0..MaxFaults /\ changes \in 0..MaxChanges /\ submits \in 0..MaxSubmits

\* The ranks of the boards a form may be led to: by the URL, by a token of the name at
\* a source, by a result of the search; and the board at a rank, if there is one.
Ranks(t) ==
  {<<1, i, 1>> : i \in DOMAIN UrlPlace(tab[t].query)}
    \cup {<<2, i, j>> : i \in DOMAIN Slugs(t), j \in DOMAIN all_sources}
    \cup {<<3, i, 1>> : i \in DOMAIN tab[t].found}
BoardAt(t, r) ==
  CASE r[1] = 1 -> UrlPlace(tab[t].query)
    [] r[1] = 2 -> <<Place(all_sources[r[3]], Slugs(t)[r[2]])>>
    [] r[1] = 3 -> board_from_url(tab[t].found[r[2]].page)
Better(a, b) ==
  \/ a[1] < b[1]
  \/ a[1] = b[1] /\ a[2] < b[2]
  \/ a[1] = b[1] /\ a[2] = b[2] /\ a[3] < b[3]

\* What a board has been to t since it submitted.
Was(t, p, state) == IF p \in Places THEN <<p, state>> \in observed[t]
                    ELSE state = "none" \/ <<p, state>> \in observed[t]
\* A board may be passed over, being the URL's, only if it was not to be read.
PassedOver(t, r) ==
  \A p \in ToSet(BoardAt(t, r)) : Was(t, p, "none") \/ (r[1] # 1 /\ Was(t, p, "bare"))

\* An offer is justified by what boards were while it was sought: the board had roles
\* (or was there, if its own URL was pasted), and each better one did not, or could
\* not be read.  Nothing is found only if that holds of all.  So in a quiet world the
\* best board is found, and an outage or a change explains every other answer.
OffersAreJustified ==
  \A t \in Tabs :
    /\ tab[t].stage = "offered" =>
         LET p == tab[t].offer[1]
         IN  \E r \in Ranks(t) :
               /\ BoardAt(t, r) = <<p>>
               /\ Was(t, p, "open") \/ (tab[t].offer[2] = "url" /\ Was(t, p, "bare"))
               /\ \A b \in Ranks(t) : Better(b, r) => PassedOver(t, b)
    /\ tab[t].stage = "refused" => \A r \in Ranks(t) : PassedOver(t, r)

\* However its name or URL is written, and whichever tier finds it, one board is
\* watched once: what the unique constraint compares is one token for one board.
OneRowPerBoard ==
  \A p, q \in watched :
    p.source = q.source /\ p.token.words = q.token.words /\ p.token.sep = q.token.sep => p = q
=============================================================================
