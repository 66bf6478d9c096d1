------------------------------- MODULE Intake -------------------------------
(***************************************************************************)
(* How a posting becomes a job.  The extension captures a page, looks      *)
(* whether its URL is known, has the text judged and structured, and hands *)
(* it to the review page through a store in memory                         *)
(* (services/job_intake_handoff.py); the user saves what is reviewed, or   *)
(* pastes, or promotes a posting of Radar.  Each looks for the URL before  *)
(* it inserts, in a request that awaits in between (api/jobs.py,           *)
(* services/radar/promote.py).                                             *)
(***************************************************************************)
EXTENDS Classifier, FiniteSets

CONSTANTS
  Flows,        \* captures, pastes and promotions
  Urls,         \* URLs of pages, and what normalising makes of them
  NoUrl,        \* None
  Opinions,     \* what classify_page_text may answer
  TTL,          \* HANDOFF_TTL, in ticks
  MaxPatched,   \* bound: URLs that updates write
  MaxRestarts   \* bound: restarts of the server

(***************************************************************************)
(* normalize_job_url.  A URL is its site, the job and a form: one that     *)
(* normalising leaves alone or makes "plain"; one with a LinkedIn id in    *)
(* its path or query, whatever its site; or one with a percent-encoded     *)
(* character in its query, which is decoded and not encoded again, so that *)
(* the next time it is read as something else.                             *)
(***************************************************************************)
Forms == {"plain", "tracked", "slash", "port", "view", "search",
          "encoded", "decoded", "mangled"}

normalize_job_url(u) ==
  IF u = NoUrl THEN NoUrl
  ELSE IF u.form \in {"view", "search"} THEN [u EXCEPT !.site = "linkedin", !.form = "view"]
  ELSE [u EXCEPT !.form = IF @ = "encoded" THEN "decoded"
                          ELSE IF @ \in {"decoded", "mangled"} THEN "mangled" ELSE "plain"]

ASSUME IntakeAssumption ==
  /\ TTL \in Nat /\ MaxPatched \in Nat /\ MaxRestarts \in Nat
  /\ NoUrl \notin Urls
  /\ \A u \in Urls : normalize_job_url(u) \in Urls

VARIABLES
  jobs,       \* how many rows of jobs have this url
  store,      \* _store: the age of each hand-off, or NoEntry
  flow,       \* what each flow is doing
  restarts,
  since,      \* history: ticks since the hand-off was made; NoEntry: lost in a restart
  patched     \* history: URLs an update wrote into a job

vars == <<jobs, store, flow, restarts, since, patched>>

NoEntry == TTL + 2
Ages    == 0..(TTL + 1)

\* beaten is history: another job got the URL since this flow looked for it.
NewFlow == [stage |-> "new", url |-> NoUrl, beaten |-> FALSE]

InBrowser == {"new", "reviewing", "opening"}
InServer  == {"looking", "judging", "parsing", "handing", "inserting", "structuring",
              "promoting"}
Done      == {"duplicate", "refused", "failed", "lost", "saved", "saved_twice"}

Turns(f, stage) == flow' = [flow EXCEPT ![f].stage = stage]

\* Bug: the URL is looked for as it was given.
FoundAsGiven(u) == u # NoUrl /\ jobs[u] > 0

\* _find_job_by_url.
Found(u) ==
  LET normalized == normalize_job_url(u)
  IN  normalized # NoUrl /\ jobs[normalized] > 0

(***************************************************************************)
(* From a page to the review (extension/background.js)                     *)
(***************************************************************************)

\* runCapturePipeline starts.
Capture(f) ==
  /\ flow[f].stage = "new"
  /\ \E u \in Urls \cup {NoUrl} :
       flow' = [flow EXCEPT ![f].url = u,
                            ![f].stage = IF u = NoUrl THEN "judging" ELSE "looking"]
  /\ UNCHANGED <<jobs, store, restarts, since, patched>>

\* get_job_by_url.
LookUp(f) ==
  /\ flow[f].stage = "looking"
  /\ Turns(f, IF Found(flow[f].url) THEN "duplicate" ELSE "judging")
  /\ UNCHANGED <<jobs, store, restarts, since, patched>>

\* classify_captured_job_text; the classifier may raise.
Judge(f) ==
  /\ flow[f].stage = "judging"
  /\ \/ \E opinion \in Opinions :
          Turns(f, IF job_capture_from_document(opinion) THEN "parsing" ELSE "refused")
     \/ Turns(f, "failed")
  /\ UNCHANGED <<jobs, store, restarts, since, patched>>

\* parse_job_text, whose structure_job may fail.
Parse(f) ==
  /\ flow[f].stage = "parsing"
  /\ Turns(f, "handing") \/ Turns(f, "failed")
  /\ UNCHANGED <<jobs, store, restarts, since, patched>>

\* Bug: the last tick does not count.
ExpiredEarly(age) == age >= TTL

Expired(age) == age > TTL

\* _purge_expired.
Purged == [f \in Flows |-> IF store[f] # NoEntry /\ Expired(store[f]) THEN NoEntry
                           ELSE store[f]]

\* create_handoff; the tab of the review page is opened.
HandOff(f) ==
  /\ flow[f].stage = "handing"
  /\ store' = [Purged EXCEPT ![f] = 0]
  /\ since' = [since EXCEPT ![f] = 0]
  /\ Turns(f, "opening")
  /\ UNCHANGED <<jobs, restarts, patched>>

\* get_handoff, for JobReviewPage.
OpenReview(f) ==
  /\ flow[f].stage = "opening"
  /\ store' = Purged
  /\ Turns(f, IF store'[f] # NoEntry THEN "reviewing" ELSE "lost")
  /\ UNCHANGED <<jobs, restarts, since, patched>>

\* The review page is loaded again, as long as nothing is saved.
Reload(f) ==
  /\ flow[f].stage = "reviewing" /\ since[f] # NoEntry
  /\ Turns(f, "opening")
  /\ UNCHANGED <<jobs, store, restarts, since, patched>>

\* A pasted posting is reviewed without a hand-off.
Paste(f) ==
  /\ flow[f].stage = "new"
  /\ \E u \in Urls \cup {NoUrl} :
       flow' = [flow EXCEPT ![f].url = u, ![f].stage = "reviewing"]
  /\ UNCHANGED <<jobs, store, restarts, since, patched>>

(***************************************************************************)
(* From the review, or a posting, to a job                                 *)
(***************************************************************************)

\* create_job up to its check: it looks for the normal form of the normal form.
Save(f) ==
  /\ flow[f].stage = "reviewing"
  /\ flow' = [flow EXCEPT ![f].stage = IF Found(normalize_job_url(flow[f].url))
                                       THEN "duplicate" ELSE "inserting",
                          ![f].beaten = FALSE]
  /\ UNCHANGED <<jobs, store, restarts, since, patched>>

\* promote_posting up to its check.
Promote(f) ==
  /\ flow[f].stage = "new"
  /\ \E u \in Urls \cup {NoUrl} :
       flow' = [flow EXCEPT ![f].stage = IF Found(u) THEN "duplicate" ELSE "structuring",
                            ![f].url = u, ![f].beaten = FALSE]
  /\ UNCHANGED <<jobs, store, restarts, since, patched>>

\* Its structure_job, which may fail.
Structure(f) ==
  /\ flow[f].stage = "structuring"
  /\ Turns(f, "promoting") \/ Turns(f, "failed")
  /\ UNCHANGED <<jobs, store, restarts, since, patched>>

\* Flows that have looked for u and not yet inserted it.
Looked(u) == {f \in Flows : /\ flow[f].stage \in {"inserting", "structuring", "promoting"}
                            /\ normalize_job_url(flow[f].url) = u}

\* Both insert, and commit.
Insert(f) ==
  /\ flow[f].stage \in {"inserting", "promoting"}
  /\ LET u == normalize_job_url(flow[f].url)
     IN  IF u = NoUrl THEN Turns(f, "saved") /\ UNCHANGED jobs
         ELSE /\ jobs' = [jobs EXCEPT ![u] = @ + 1]
              /\ flow' = [g \in Flows |->
                   IF g = f THEN [flow[f] EXCEPT
                     !.stage = IF flow[f].beaten THEN "saved_twice" ELSE "saved"]
                   ELSE [flow[g] EXCEPT !.beaten = @ \/ g \in Looked(u)]]
  /\ UNCHANGED <<store, restarts, since, patched>>

\* The profile that create_job was given is gone: nothing is inserted.
NoProfile(f) ==
  /\ flow[f].stage = "inserting"
  /\ Turns(f, "reviewing")
  /\ UNCHANGED <<jobs, store, restarts, since, patched>>

\* delete_job.
DeleteJob(u) ==
  /\ jobs[u] > 0
  /\ jobs' = [jobs EXCEPT ![u] = @ - 1]
  /\ UNCHANGED <<store, flow, restarts, since, patched>>

\* update_job writes a URL as it is given, and does not look for it.
UpdateJob(u, v) ==
  /\ u # v /\ jobs[u] > 0
  /\ jobs' = [jobs EXCEPT ![u] = @ - 1, ![v] = @ + 1]
  /\ patched' = patched \cup {v}
  /\ Cardinality(patched') <= MaxPatched
  /\ UNCHANGED <<store, flow, restarts, since>>

(***************************************************************************)
(* Time, and restarts of the server                                        *)
(***************************************************************************)
Older(age) == IF age \in 0..TTL THEN age + 1 ELSE age

Tick ==
  /\ store' = [f \in Flows |-> Older(store[f])]
  /\ since' = [f \in Flows |-> Older(since[f])]
  /\ UNCHANGED <<jobs, flow, restarts, patched>>

\* The store is empty, and requests fail; a review that was being saved can be saved
\* again.
Restart ==
  /\ restarts < MaxRestarts
  /\ restarts' = restarts + 1
  /\ store' = [f \in Flows |-> NoEntry]
  /\ since' = [f \in Flows |-> NoEntry]
  /\ flow' = [f \in Flows |->
       IF flow[f].stage \notin InServer THEN flow[f]
       ELSE [flow[f] EXCEPT !.stage = IF @ = "inserting" THEN "reviewing" ELSE "failed"]]
  /\ UNCHANGED <<jobs, patched>>

Init ==
  /\ jobs = [u \in Urls |-> 0]
  /\ store = [f \in Flows |-> NoEntry]
  /\ flow = [f \in Flows |-> NewFlow]
  /\ restarts = 0
  /\ since = [f \in Flows |-> NoEntry]
  /\ patched = {}

FlowStep(f) ==
  \/ Capture(f) \/ LookUp(f) \/ Judge(f) \/ Parse(f) \/ HandOff(f) \/ OpenReview(f)
  \/ Reload(f) \/ Paste(f) \/ Save(f) \/ Promote(f) \/ Structure(f) \/ Insert(f)
  \/ NoProfile(f)

Next ==
  \/ \E f \in Flows : FlowStep(f)
  \/ \E u \in Urls : DeleteJob(u) \/ \E v \in Urls : UpdateJob(u, v)
  \/ Tick
  \/ Restart

Spec == Init /\ [][Next]_vars

(***************************************************************************)
(* Properties                                                              *)
(***************************************************************************)

\* Every variable has a value of the kind the code gives it.
TypeOK ==
  /\ jobs \in [Urls -> Nat]
  /\ store \in [Flows -> Ages \cup {NoEntry}]
  /\ flow \in [Flows -> [stage : InBrowser \cup InServer \cup Done,
                         url : Urls \cup {NoUrl}, beaten : BOOLEAN]]
  /\ restarts \in 0..MaxRestarts
  /\ since \in [Flows -> Ages \cup {NoEntry}]
  /\ patched \subseteq Urls

Stable(u) == normalize_job_url(u) = u

\* A URL is in the pipeline twice only if one request inserted it while another was
\* between its look and its insert, or an update wrote it; and it is a URL that stays
\* as it is when it is normalised once more.  create_job and promote_posting.
OnlyOverlapsDuplicate ==
  \A u \in Urls :
    jobs[u] > 1 => \/ \E f \in Flows : /\ flow[f].stage = "saved_twice"
                                       /\ normalize_job_url(flow[f].url) = u
                   \/ u \in patched
                   \/ ~Stable(u)

\* The review page gets what the extension captured exactly if it asks within
\* HANDOFF_TTL, whatever else is handed over and read, and the server did not restart.
HandoffsAreKept ==
  [][\A f \in Flows :
       OpenReview(f) => (flow'[f].stage = "reviewing" <=> since[f] <= TTL)]_vars
=============================================================================
