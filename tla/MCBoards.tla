------------------------------ MODULE MCBoards ------------------------------
(***************************************************************************)
(* An instance of Boards for TLC.                                          *)
(***************************************************************************)
EXTENDS Boards

CONSTANT t1

OneTab == {t1}

Acme     == Token(<<"acme">>, "")
AcmeLabs == Token(<<"acme", "labs">>, "")
NoUrl(parts) == [name |-> parts, url |-> NoToken]
Pasted(host, token) == [name |-> <<<<"https", host>> \o token.words>>,
                        url |-> AnyUrl(host, token)]
Shouted(token) == [token EXCEPT !.capitals = TRUE]

\* A name of two words, a name of which nothing is left, and the company's board,
\* written with a capital.
SomeQueries ==
  {NoUrl(<<<<"acme">>, <<"labs">>, <<"inc">>>>), NoUrl(<<<<"inc">>>>),
   Pasted("boards", Shouted(Acme))}

\* Another company has the token of the first word at another source.
SomePlaces == {Place("greenhouse", Acme), Place("ashby", Acme), Place("lever", AcmeLabs)}

SomeBadAnswers ==
  {Answer("status", <<>>), Answer("jobs_no_list", <<>>)}

Page(host, token) == Item(AnyUrl(host, token), "lower", "whole")
SomeSearches ==
  {<<Raised("status"), Raised("status"), Raised("status")>>,
   <<Raised("not_json"), Results(<<>>), Results(<<>>)>>,
   <<Results(<<Page("elsewhere", Acme), Page("jobs", AcmeLabs),
               Page("subdomain", Shouted(Acme))>>), Results(<<>>), Results(<<>>)>>}
=============================================================================
