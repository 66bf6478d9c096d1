---------------------------- MODULE Application ----------------------------
(***************************************************************************)
(* One job on its way to an application: the match analyses that run in    *)
(* the background (services/match/orchestrator.py), the requests that work *)
(* on their results (api/match_analyses.py, api/profiles.py, api/jobs.py)  *)
(* and jobs.raw_metadata, the JSON document in which each of them records  *)
(* how far the user is (services/application_progress.py).                 *)
(*                                                                         *)
(* Every one of them loads the row, awaits the LLM, the embedder or the    *)
(* user, and writes the whole document back.                               *)
(***************************************************************************)
EXTENDS Integers, FiniteSets

CONSTANTS
  Analyses,     \* rows of match_analyses
  Requests,     \* slots for requests in flight
  Concurrency,  \* bound: requests and analyses in flight at a time
  MaxEdits,     \* bound: versions of the resume after the first
  MaxMishaps,   \* bound: restarts and commits that fail
  None

ASSUME RowsAssumption ==
  /\ IsFiniteSet(Analyses) /\ None \notin Analyses
  /\ IsFiniteSet(Requests)
ASSUME BoundAssumption ==
  Concurrency \in Nat /\ MaxEdits \in Nat /\ MaxMishaps \in Nat

VARIABLES
  doc,      \* raw_metadata: application_progress and artifacts
  status,   \* match_analyses.status
  resume,   \* version of profiles.resume_text and structured_data
  task,     \* run_match_analysis of each analysis
  req,      \* requests in flight
  mishaps,  \* restarts and failed commits so far
  basis,    \* history: the version of the resume an analysis worked on
  overtaken \* history: runs between whose two loads suggestions were applied

vars == <<doc, status, resume, task, req, mishaps, basis, overtaken>>

Steps    == {"resume", "cover_letter"}
Statuses == {"none", "pending", "completed", "failed"}
Kinds    == {"optimization", "letter", "edit", "apply"}
Maybe    == Analyses \cup {None}

\* of is history: the version of the resume the last applied suggestions made.
Docs == [done : SUBSET Steps, artifact : [Steps -> Maybe], baseline : Maybe,
         awaiting : BOOLEAN, remeasured : Maybe, of : Nat]

NewDoc == [done |-> {}, artifact |-> [s \in Steps |-> None], baseline |-> None,
           awaiting |-> FALSE, remeasured |-> None, of |-> 0]

NoTask == [stage |-> "none", copy |-> NewDoc]
NoReq  == [stage |-> "idle", kind |-> "edit", a |-> None, copy |-> NewDoc,
           of |-> 0]

Running(a) == task[a].stage \in {"loading", "analyzing"}
Busy(r)    == req[r].stage # "idle"
InFlight   == {a \in Analyses : Running(a)} \cup {r \in Requests : Busy(r)}
MayStart   == Cardinality(InFlight) < Concurrency

\* Rows, documents and copies of them have the shape the code gives them, and a
\* run belongs to an analysis that is still pending.
TypeOK ==
  /\ doc \in Docs
  /\ status \in [Analyses -> Statuses]
  /\ resume \in 0..MaxEdits /\ basis \in [Analyses -> 0..MaxEdits]
  /\ task \in [Analyses -> [stage : {"none", "queued", "loading", "analyzing"},
                            copy : Docs]]
  /\ req \in [Requests -> [stage : {"idle", "indexing", "loading", "working"},
                           kind : Kinds, a : Maybe, copy : Docs, of : Nat]]
  /\ mishaps \in 0..MaxMishaps /\ overtaken \in SUBSET Analyses
  /\ \A a \in Analyses : task[a].stage # "none" => status[a] = "pending"

Init ==
  /\ doc = NewDoc
  /\ status = [a \in Analyses |-> "none"]
  /\ resume = 0 /\ basis = [a \in Analyses |-> 0]
  /\ task = [a \in Analyses |-> NoTask]
  /\ req = [r \in Requests |-> NoReq]
  /\ mishaps = 0 /\ overtaken = {}

(***************************************************************************)
(* What is written into the document                                       *)
(***************************************************************************)

\* Bug: the step's entry is made anew instead of merged with the one there is.
StepReplaced(d, step) ==
  IF step = "resume"
  THEN [d EXCEPT !.done = @ \cup {step}, !.baseline = None, !.awaiting = FALSE,
                 !.remeasured = None, !.of = 0]
  ELSE [d EXCEPT !.done = @ \cup {step}]

\* mark_application_step merges its entry with the one there is.
MarkStep(d, step) == [d EXCEPT !.done = @ \cup {step}]

SaveArtifact(d, step, a) == [d EXCEPT !.artifact[step] = a]

\* Bug: the entry is merged, so an earlier measurement stays in it.
AppliedMerged(d, a, v) ==
  [d EXCEPT !.done = @ \cup {"resume"}, !.baseline = a, !.awaiting = TRUE,
            !.of = v]

\* mark_resume_applied makes the entry anew.
MarkResumeApplied(d, a, v) ==
  [d EXCEPT !.done = @ \cup {"resume"}, !.baseline = a, !.awaiting = TRUE,
            !.remeasured = None, !.of = v]

RecordRemeasurement(d, a) ==
  IF d.awaiting /\ d.baseline # a
  THEN [d EXCEPT !.awaiting = FALSE, !.remeasured = a]
  ELSE d

\* An UPDATE is sent only for a value that differs from the one loaded.
Store(loaded, new) == IF new = loaded THEN doc ELSE new

(***************************************************************************)
(* Match analyses                                                          *)
(***************************************************************************)

\* create_match_analysis, or create_job with a profile: the row, then the task.
CreateAnalysis(a) ==
  /\ status[a] = "none"
  /\ status' = [status EXCEPT ![a] = "pending"]
  /\ task' = [task EXCEPT ![a] = [NoTask EXCEPT !.stage = "queued"]]
  /\ UNCHANGED <<doc, resume, req, mishaps, basis, overtaken>>

\* run_match_analysis loads the profile ...
LoadProfile(a) ==
  /\ task[a].stage = "queued" /\ MayStart
  /\ task' = [task EXCEPT ![a].stage = "loading"]
  /\ basis' = [basis EXCEPT ![a] = resume]
  /\ UNCHANGED <<doc, status, resume, req, mishaps, overtaken>>

\* ... and then the job, in a query of its own.
LoadJob(a) ==
  /\ task[a].stage = "loading"
  /\ task' = [task EXCEPT ![a] = [stage |-> "analyzing", copy |-> doc]]
  /\ UNCHANGED <<doc, status, resume, req, mishaps, basis, overtaken>>

\* The LLM answered: result and remeasurement are one commit.
CompleteAnalysis(a) ==
  /\ task[a].stage = "analyzing"
  /\ status' = [status EXCEPT ![a] = "completed"]
  /\ doc' = Store(task[a].copy, RecordRemeasurement(task[a].copy, a))
  /\ task' = [task EXCEPT ![a] = NoTask]
  /\ UNCHANGED <<resume, req, mishaps, basis, overtaken>>

\* Bugs: the failure is not written down, or the run goes on after it.
FailureUnrecorded(a) ==
  /\ task[a].stage = "analyzing"
  /\ task' = [task EXCEPT ![a] = NoTask]
  /\ UNCHANGED <<doc, status, resume, req, mishaps, basis, overtaken>>

FailureIgnored(a) ==
  /\ task[a].stage = "analyzing"
  /\ status' = [status EXCEPT ![a] = "failed"]
  /\ UNCHANGED <<doc, task, resume, req, mishaps, basis, overtaken>>

\* The LLM, or anything else on the way, failed.
FailAnalysis(a) ==
  /\ task[a].stage = "analyzing"
  /\ status' = [status EXCEPT ![a] = "failed"]
  /\ task' = [task EXCEPT ![a] = NoTask]
  /\ UNCHANGED <<doc, resume, req, mishaps, basis, overtaken>>

\* What failed was the database: the commit that should say so fails, too.
LoseAnalysis(a) ==
  /\ task[a].stage = "analyzing"
  /\ mishaps < MaxMishaps
  /\ mishaps' = mishaps + 1
  /\ task' = [task EXCEPT ![a] = NoTask]
  /\ UNCHANGED <<doc, status, resume, req, basis, overtaken>>

(***************************************************************************)
(* Requests                                                                *)
(***************************************************************************)

\* Bug: any analysis of the job will do.
UsableEarly(a) == status[a] # "none"

Usable(a) == status[a] = "completed"

\* create_resume_optimization, create_cover_letter: the job is loaded before
\* the LLM is asked.
StartDraft(r, kind, a) ==
  /\ ~Busy(r) /\ MayStart
  /\ Usable(a)
  /\ req' = [req EXCEPT ![r] = [stage |-> "working", kind |-> kind, a |-> a,
                                copy |-> doc, of |-> 0]]
  /\ UNCHANGED <<doc, status, resume, task, mishaps, basis, overtaken>>

\* The job page shows the document; update_job will be sent that copy of it.
StartEdit(r) ==
  /\ ~Busy(r) /\ MayStart
  /\ req' = [req EXCEPT ![r] = [NoReq EXCEPT !.stage = "working", !.copy = doc]]
  /\ UNCHANGED <<doc, status, resume, task, mishaps, basis, overtaken>>

\* apply_resume_suggestions commits the profile first ...
StartApply(r, a) ==
  /\ ~Busy(r) /\ MayStart
  /\ status[a] # "none"
  /\ resume < MaxEdits
  /\ resume' = resume + 1
  /\ req' = [req EXCEPT ![r] = [stage |-> "indexing", kind |-> "apply", a |-> a,
                                copy |-> NewDoc, of |-> resume + 1]]
  /\ UNCHANGED <<doc, status, task, mishaps, basis, overtaken>>

\* ... and its index ...
ApplyIndexed(r) ==
  /\ req[r].stage = "indexing"
  /\ req' = [req EXCEPT ![r].stage = "loading"]
  /\ UNCHANGED <<doc, status, resume, task, mishaps, basis, overtaken>>

\* ... then loads the job, if the analysis is one to measure against.
ApplyLoadsJob(r) ==
  /\ req[r].stage = "loading"
  /\ req' = [req EXCEPT ![r] = IF Usable(req[r].a)
                               THEN [@ EXCEPT !.stage = "working", !.copy = doc]
                               ELSE NoReq]
  /\ UNCHANGED <<doc, status, resume, task, mishaps, basis, overtaken>>

\* What a request writes, given the document it loaded.
Written(q) ==
  CASE q.kind = "optimization" ->
         SaveArtifact(MarkStep(q.copy, "resume"), "resume", q.a)
    [] q.kind = "letter" ->
         SaveArtifact(MarkStep(q.copy, "cover_letter"), "cover_letter", q.a)
    [] q.kind = "apply" -> MarkResumeApplied(q.copy, q.a, q.of)
    [] q.kind = "edit"  -> q.copy

FinishRequest(r) ==
  /\ req[r].stage = "working"
  /\ doc' = Written(req[r])
  /\ req' = [req EXCEPT ![r] = NoReq]
  /\ overtaken' = overtaken \cup {a \in Analyses : req[r].kind = "apply"
                                                  /\ task[a].stage = "loading"}
  /\ UNCHANGED <<status, resume, task, mishaps, basis>>

\* The LLM or the embedder failed, or the user left the page.
AbandonRequest(r) ==
  /\ Busy(r)
  /\ req' = [req EXCEPT ![r] = NoReq]
  /\ UNCHANGED <<doc, status, resume, task, mishaps, basis, overtaken>>

\* update_profile: the resume changes for a reason of its own.
EditResume ==
  /\ resume < MaxEdits
  /\ resume' = resume + 1
  /\ UNCHANGED <<doc, status, task, req, mishaps, basis, overtaken>>

\* Tasks and requests live in the process; nobody takes them up again.
Restart ==
  /\ mishaps < MaxMishaps
  /\ mishaps' = mishaps + 1
  /\ task' = [a \in Analyses |-> NoTask]
  /\ req' = [r \in Requests |-> NoReq]
  /\ UNCHANGED <<doc, status, resume, basis, overtaken>>

RunStep(a) ==
  \/ LoadProfile(a) \/ LoadJob(a)
  \/ CompleteAnalysis(a) \/ FailAnalysis(a) \/ LoseAnalysis(a)

RequestStep(r) ==
  \/ \E a \in Analyses :
       \/ \E kind \in {"optimization", "letter"} : StartDraft(r, kind, a)
       \/ StartApply(r, a)
  \/ StartEdit(r) \/ ApplyIndexed(r) \/ ApplyLoadsJob(r)
  \/ FinishRequest(r) \/ AbandonRequest(r)

Next ==
  \/ \E a \in Analyses : CreateAnalysis(a) \/ RunStep(a)
  \/ \E r \in Requests : RequestStep(r)
  \/ EditResume \/ Restart

Spec == Init /\ [][Next]_vars

\* The event loop runs every task it holds; every external call ends.
FairSpec ==
  /\ Spec
  /\ \A a \in Analyses : SF_vars(LoadProfile(a)) /\ WF_vars(RunStep(a))
  /\ \A r \in Requests :
       /\ WF_vars(ApplyIndexed(r)) /\ WF_vars(ApplyLoadsJob(r))
       /\ WF_vars(FinishRequest(r) \/ AbandonRequest(r))

(***************************************************************************)
(* Properties                                                              *)
(***************************************************************************)

RefersTo(d) == {d.baseline, d.remeasured} \cup {d.artifact[s] : s \in Steps}

Consistent(d, rows) ==
  /\ \A a \in RefersTo(d) : a # None => rows[a] = "completed"
  /\ d.awaiting => d.baseline # None
  /\ d.remeasured # None => ~d.awaiting /\ d.baseline \notin {None, d.remeasured}

\* Whatever the document refers to is a completed analysis, and a score counts
\* as the remeasurement of a tailored resume only when somebody waited for it and
\* it is not the baseline.  match_analyses.py:87, :131, profiles.py:183-193,
\* application_progress.py:72-78.
ProgressIsConsistent == Consistent(doc, status)

Kept ==
  /\ doc.done \subseteq doc'.done
  /\ \A s \in Steps : doc.artifact[s] # None => doc'.artifact[s] # None
  /\ doc.awaiting => doc'.awaiting \/ doc'.remeasured # None
  /\ doc.remeasured # None => doc'.awaiting \/ doc'.remeasured = doc.remeasured

\* Somebody who has the document as it is takes nothing back in writing it: a step
\* stays done, a draft stays saved, somebody waits for a measurement until there is
\* one, and it goes only when newer suggestions are applied.
\* application_progress.py:23-89, job_artifacts.py:23-38.
CurrentWritesKeepProgress ==
  [][/\ \A a \in Analyses : CompleteAnalysis(a) => task[a].copy = doc
     /\ \A r \in Requests : FinishRequest(r) => req[r].copy = doc
     => Kept]_doc

\* The score shown as the effect of the suggestions is that of a resume they are
\* in, unless they were applied just between the two loads of the run - also when
\* stale copies of the document are written back.  application_progress.py:38-89,
\* orchestrator.py:21-40.
RemeasuredAfterTailoring ==
  doc.remeasured \notin {None} \cup overtaken => basis[doc.remeasured] >= doc.of

Ended(a) == status[a] \in {"completed", "failed"}

\* An analysis ends one way or the other (docs/architecture.md:78), unless the process
\* stops or the database refuses its last commit: whatever else fails, nobody waits
\* forever.  orchestrator.py:30-56.
UndisturbedAnalysesEnd ==
  \A a \in Analyses : status[a] = "pending" ~> Ended(a) \/ mishaps > 0
=============================================================================
