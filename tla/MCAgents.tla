------------------------------ MODULE MCAgents ------------------------------
(***************************************************************************)
(* An instance of Agents for TLC.                                          *)
(***************************************************************************)
EXTENDS Agents, CoverLetter, TLC

CONSTANTS p1, p2, p3, a1, a2, l1

TwoRequests == {p1, p2}
ThreeRequests == {p1, p2, p3}
OneResearch == {a1}
TwoResearches == {a1, a2}
OneLetter   == {l1}

SomeHosts == {"api.openai.com", "api.groq.com", "career.openai.azure.com"} \cup Loopback

Body(p, base, key) ==
  [llm_provider |-> p, llm_base_url |-> base, llm_api_key |-> key]
AzureUrl == Url("career.openai.azure.com", FALSE, TRUE)
LMStudio == Url("localhost", TRUE, FALSE)

\* A key given and a key kept; a URL that is missing, that is another provider's,
\* and that is on the host; a provider with a key in the environment, and one that
\* no client is made for.
SomeBodies ==
  {Body("openai", NoVal, "key_1"), Body("openai", AzureUrl, NoVal),
   Body("azure_openai", AzureUrl, "key_2"), Body("azure_openai", NoVal, NoVal),
   Body("groq", NoVal, NoVal), Body("local", LMStudio, NoVal),
   Body("anthropic", NoVal, NoVal)}

Environment == [p \in LLMProviders |-> IF p = "groq" THEN "key_3" ELSE NoVal]
OldRow == Row("ollama", LMStudio, NoVal, "weekly")

\* Nothing, one page twice, something to skip, something the schema refuses, and
\* the ways to fail.
Page(p, s) == Item(p, s, "whole")
SomeAnswers ==
  {Results(<<>>), Results(<<Page("a", "lower"), Page("a", "upper")>>),
   Results(<<Page("b", "lower"), Item("c", "lower", "incomplete")>>),
   Results(<<Item("c", "lower", "blank")>>), Raised("status"), Raised("not_json")}

\* A letter that is answered has been cut to a length that fits: checked for every
\* text of up to five characters, and a limit of four.
Texts      == BoundedSeq(Characters, 5)
AllCutsFit == CutsFit(Texts, 4)
LettersAreCutToFit == \A l \in Letters : letter[l] = "answered" => AllCutsFit

\* Bound: three PUTs interleave with each other, and one of them with a research or
\* a letter, which share nothing.  Requests are alike, and start in one order.
Resting == \A r \in Researches : run[r] = NewRun
Blank   == \A l \in Letters : letter[l] = "new"
OneThingAtATime ==
  /\ req[p2] # Idle => req[p1] # Idle
  /\ req[p3] # Idle => req[p2] # Idle
  /\ \/ Resting /\ Blank /\ job
     \/ /\ Cardinality({p \in Requests : req[p] # Idle}) <= 1
        /\ Resting \/ Blank
=============================================================================
