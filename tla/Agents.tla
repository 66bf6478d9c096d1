------------------------------- MODULE Agents -------------------------------
(***************************************************************************)
(* The features that make several calls in a row: research on the company  *)
(* of a job (services/company_research.py), a loop in which the model says *)
(* what to search for, and the cover letter (cover_letter_generator.py),   *)
(* drafted, criticised and revised.  They make their client from the       *)
(* settings of Provider when they start, search with Search, and run while *)
(* settings change, the job is deleted or the program is restarted.        *)
(***************************************************************************)
EXTENDS Provider, LLMClient, Search

CONSTANTS
  Researches,                \* requests for research on the one job
  Letters,                   \* requests for a cover letter
  RawAnswers,                \* answers of a search provider
  MAX_AGENT_STEPS,
  MAX_AGENT_SEARCHES,
  MAX_SEARCH_RESULTS_PER_QUERY

ASSUME AgentAssumption ==
  /\ MAX_AGENT_STEPS \in Nat \ {0} /\ MAX_AGENT_SEARCHES \in Nat \ {0}
  /\ MAX_SEARCH_RESULTS_PER_QUERY \in Nat \ {0}
  /\ \A raw \in RawAnswers : raw.items \in Seq([page : STRING, spelling : STRING,
                                                shape : Shapes])

VARIABLES
  job,      \* TRUE as long as the job is there
  brief,    \* jobs.company_brief: its sources, and who wrote it
  run,      \* what each research is doing
  letter    \* what each cover letter is doing

agentVars == <<job, brief, run, letter>>
vars == <<providerVars, agentVars>>

\* A research: its phase, the step of the loop it is in, the searches it has
\* done, what they found, and the exception it ended with, or "none".
NewRun == [phase |-> "new", step |-> 1, searches |-> 0, found |-> <<>>, raised |-> "none"]

Ended == {"answered", "failed", "lost"}
RunPhases == {"new", "deciding", "searching", "synthesizing", "storing"} \cup Ended
LetterPhases == {"new", "drafting", "criticising", "revising"} \cup Ended

Fails(r, e) == run' = [run EXCEPT ![r].phase = "failed", ![r].raised = e]

\* What a call to the model, and a search, may come to.
CallOutcomes   == {generate_structured(reply) : reply \in Replies}
SearchOutcomes ==
  {SearchOutcome(raw, first, second, MAX_SEARCH_RESULTS_PER_QUERY) :
     raw \in RawAnswers, first \in RawAnswers, second \in RawAnswers}

(***************************************************************************)
(* Company research                                                        *)
(***************************************************************************)

\* get_job_or_404, get_llm_client and get_search_client.
StartResearch(r) ==
  /\ run[r].phase = "new"
  /\ job
  /\ IF get_llm_client = NoVal THEN Fails(r, "LLMConfigurationError")
     ELSE run' = [run EXCEPT ![r].phase = "deciding"]
  /\ UNCHANGED <<providerVars, job, brief, letter>>

\* Bug: there is always another step.
StepsUnbounded(was) == [was EXCEPT !.phase = "deciding", !.step = @ + 1]

\* The loop is over: by the model's choice, for want of searches, or of steps.
NextStep(was) ==
  IF was.step < MAX_AGENT_STEPS THEN [was EXCEPT !.phase = "deciding", !.step = @ + 1]
  ELSE [was EXCEPT !.phase = "synthesizing"]

\* One step of _run_agent_search_loop: the model chooses between a search and the
\* brief; the schema does not let it choose a search without a query.
Decide(r) ==
  /\ run[r].phase = "deciding"
  /\ \E outcome \in CallOutcomes :
       \/ /\ outcome = "ok"
          /\ \E action \in {"search", "synthesize"} :
               run' = [run EXCEPT ![r].phase =
                         IF action = "search" /\ run[r].searches < MAX_AGENT_SEARCHES
                         THEN "searching" ELSE "synthesizing"]
       \/ /\ outcome # "ok"
          /\ Fails(r, outcome)
  /\ UNCHANGED <<providerVars, job, brief, letter>>

WithFound(was, items) ==
  [was EXCEPT !.found = Deduped(@ \o items), !.searches = @ + 1]

\* Its search.  What it finds joins what was found, and an error ends the research.
SearchWeb(r) ==
  /\ run[r].phase = "searching"
  /\ \E outcome \in SearchOutcomes :
       \/ /\ outcome.raised = "none"
          /\ run' = [run EXCEPT ![r] = NextStep(WithFound(run[r], outcome.items))]
       \/ /\ outcome.raised # "none"
          /\ Fails(r, outcome.raised)
  /\ UNCHANGED <<providerVars, job, brief, letter>>

\* _synthesize_brief.
Synthesize(r) ==
  /\ run[r].phase = "synthesizing"
  /\ \E outcome \in CallOutcomes :
       \/ /\ outcome = "ok"
          /\ run' = [run EXCEPT ![r].phase = "storing"]
       \/ /\ outcome # "ok"
          /\ Fails(r, outcome)
  /\ UNCHANGED <<providerVars, job, brief, letter>>

\* Bug: the brief is answered with whether or not there is a job to store it in.
AnswersAnyway(r) ==
  /\ run[r].phase = "storing"
  /\ run' = [run EXCEPT ![r].phase = "answered"]
  /\ brief' = [by |-> r, sources |-> run[r].found]
  /\ UNCHANGED <<providerVars, job, letter>>

\* The rest of create_company_research.  The UPDATE of a row that is gone is an
\* error (StaleDataError).
StoreBrief(r) ==
  /\ run[r].phase = "storing"
  /\ IF job
     THEN /\ run' = [run EXCEPT ![r].phase = "answered"]
          /\ brief' = [by |-> r, sources |-> run[r].found]
     ELSE Fails(r, "StaleDataError") /\ UNCHANGED brief
  /\ UNCHANGED <<providerVars, job, letter>>

\* delete_job.
DeleteJob ==
  /\ job
  /\ job' = FALSE /\ brief' = NoVal
  /\ UNCHANGED <<providerVars, run, letter>>

(***************************************************************************)
(* Cover letter                                                            *)
(***************************************************************************)

\* generate_cover_letter starts.
StartLetter(l) ==
  /\ letter[l] = "new"
  /\ job
  /\ letter' = [letter EXCEPT ![l] = IF get_llm_client = NoVal THEN "failed" ELSE "drafting"]
  /\ UNCHANGED <<providerVars, job, brief, run>>

\* Bug: a revision is criticised again.
RevisedAgain(phase) ==
  CASE phase = "drafting"    -> "criticising"
    [] phase = "criticising" -> "revising"
    [] phase = "revising"    -> "criticising"

After(phase) ==
  CASE phase = "drafting"    -> "criticising"
    [] phase = "criticising" -> "revising"
    [] phase = "revising"    -> "answered"

\* A draft, its critique, and the revision: each from the one before.
WriteLetter(l) ==
  /\ letter[l] \in {"drafting", "criticising", "revising"}
  /\ \E outcome \in CallOutcomes :
       letter' = [letter EXCEPT ![l] = IF outcome = "ok" THEN After(@) ELSE "failed"]
  /\ UNCHANGED <<providerVars, job, brief, run>>

(***************************************************************************)
(* Specification                                                           *)
(***************************************************************************)

\* What the requests are doing ends with the process.
RestartAll ==
  /\ Restart
  /\ run' = [r \in Researches |-> IF run[r].phase \in {"new"} \cup Ended THEN run[r]
                                  ELSE [run[r] EXCEPT !.phase = "lost"]]
  /\ letter' = [l \in Letters |-> IF letter[l] \in {"new"} \cup Ended THEN letter[l]
                                  ELSE "lost"]
  /\ UNCHANGED <<job, brief>>

Init ==
  /\ ProviderInit
  /\ job = TRUE /\ brief = NoVal
  /\ run = [r \in Researches |-> NewRun]
  /\ letter = [l \in Letters |-> "new"]

Continues(r) == Decide(r) \/ SearchWeb(r) \/ Synthesize(r) \/ StoreBrief(r)

Next ==
  \/ WriteSettings /\ UNCHANGED agentVars
  \/ RestartAll
  \/ \E r \in Researches : StartResearch(r) \/ Continues(r)
  \/ \E l \in Letters : StartLetter(l) \/ WriteLetter(l)
  \/ DeleteJob

\* A request that has begun goes on: every call has a timeout.
Fairness ==
  /\ \A r \in Researches : WF_vars(Continues(r))
  /\ \A l \in Letters : WF_vars(WriteLetter(l))

Spec == Init /\ [][Next]_vars /\ Fairness

(***************************************************************************)
(* Properties                                                              *)
(***************************************************************************)

\* Every research is somewhere in the code, and what it holds are results.
TypeOK ==
  /\ ProviderTypeOK
  /\ job \in BOOLEAN
  /\ \A r \in Researches :
       /\ run[r].phase \in RunPhases
       /\ run[r].step \in 1..MAX_AGENT_STEPS
       /\ run[r].searches \in 0..MAX_AGENT_SEARCHES
  /\ \A l \in Letters : letter[l] \in LetterPhases

\* A user is answered with a brief only when it is the job's, and it names every page
\* once, however the providers and the searches spell it; a research that fails, or is
\* lost, leaves the brief of the job as it was.
BriefsAreAnswered ==
  [][/\ \A r \in Researches :
          run[r].phase # "answered" /\ run'[r].phase = "answered" =>
            LET found == run[r].found
            IN  /\ job /\ brief' = [by |-> r, sources |-> found]
                /\ \A i, j \in DOMAIN found : found[i].page = found[j].page => i = j
     /\ brief' # brief /\ job' =>
          \E r \in Researches : run[r].phase = "storing" /\ run'[r].phase = "answered"]_vars

\* With two search providers, a SearchError of either, or of both, ends no research.
OneProviderMayFail ==
  Composite => \A r \in Researches : run[r].raised # "SearchError"

\* A research and a cover letter that have begun end.
AgentsEnd ==
  /\ \A r \in Researches : run[r].phase = "deciding" ~> run[r].phase \in Ended
  /\ \A l \in Letters : letter[l] = "drafting" ~> letter[l] \in Ended
=============================================================================
