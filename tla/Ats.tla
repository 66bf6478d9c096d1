--------------------------------- MODULE Ats ---------------------------------
(***************************************************************************)
(* The three ATS sources (services/radar/sources): which URLs belong to    *)
(* one, and what it makes of the answer of its API, which is an HTTP       *)
(* status, or JSON of one of the shapes the code tells apart.              *)
(***************************************************************************)
EXTENDS Naturals, SequencesExt

CONSTANT NoToken       \* None

\* all_sources, in the order boards are probed.
all_sources == <<"greenhouse", "lever", "ashby">>
Sources == ToSet(all_sources)
FirstOf(sources) == all_sources[Min({i \in DOMAIN all_sources : all_sources[i] \in sources})]

\* A token: its words, what joins them, and whether it has capitals.  A URL: its
\* host, with what it has for a token.
Token(words, sep) == [words |-> words, sep |-> IF Len(words) > 1 THEN sep ELSE "",
                      capitals |-> FALSE]
AnyUrl(host, token) == [host |-> host, token |-> token]

Hosts == [greenhouse |-> {"boards", "embedded", "subdomain"}, lever |-> {"jobs", "hire"},
          ashby |-> {"ashby"}]
Reserved == [greenhouse |-> {<<"www">>, <<"boards">>, <<"api">>}, lever |-> {},
             ashby |-> {<<"www">>, <<"api">>}]

\* Bug: the token is taken as it is written.
AsWritten(token) == token

Lowered(token) == [words |-> token.words, sep |-> token.sep, capitals |-> FALSE]

\* matches_url of each source, and board_from_url.
matches_url(s, url) ==
  IF url.host \in Hosts[s] /\ Lowered(url.token).words \notin Reserved[s]
  THEN Lowered(url.token) ELSE NoToken

board_from_url(url) ==
  LET matching == {s \in Sources : matches_url(s, url) # NoToken}
  IN  IF matching = {} THEN <<>>
      ELSE <<[source |-> FirstOf(matching), token |-> matches_url(FirstOf(matching), url)]>>

(***************************************************************************)
(* An answer has a kind, and the postings it lists, each of which is the   *)
(* set of its fields that are not blank.                                   *)
(***************************************************************************)
Answer(kind, postings) == [kind |-> kind, postings |-> postings]
Payloads == {"scalar", "object", "jobs_no_list", "jobs", "list"}
Failures == {"connection", "status", "not_json"}

\* fetch_json.
fetch_json(answer) ==
  CASE answer.kind = "not_found"  -> "AtsBoardNotFoundError"
    [] answer.kind \in Failures   -> "AtsError"
    [] answer.kind \in Payloads   -> "none"

\* probe of each source.
probe(s, answer) ==
  answer.kind \in CASE s = "greenhouse" -> {"jobs_no_list", "jobs"}
                    [] s = "lever"      -> {"list"}
                    [] s = "ashby"      -> {"jobs"}

\* _to_posting: what a posting has to have, and where its text may be.
Texts == [greenhouse |-> {"content"},
          lever      |-> {"description", "lists", "additional"},
          ashby      |-> {"descriptionPlain", "descriptionHtml"}]
Usable(s, posting) == {"id", "title"} \subseteq posting /\ posting \cap Texts[s] # {}

\* fetch of each source: the exception, and which of the postings are usable.
fetch(s, answer) ==
  LET expected == IF s = "lever" THEN {"list"} ELSE {"object", "jobs_no_list", "jobs"}
      listed   == IF answer.kind \in {"jobs", "list"} THEN answer.postings ELSE <<>>
  IN  IF fetch_json(answer) # "none" THEN [raised |-> fetch_json(answer), postings |-> {}]
      ELSE IF answer.kind \notin expected THEN [raised |-> "AtsError", postings |-> {}]
      ELSE [raised |-> "none", postings |-> {i \in DOMAIN listed : Usable(s, listed[i])}]
=============================================================================
