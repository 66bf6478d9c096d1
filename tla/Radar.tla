-------------------------------- MODULE Radar --------------------------------
(***************************************************************************)
(* Radar as a whole: the poller, the requests of api/radar.py with the     *)
(* promotion of services/radar/promote.py, and restarts of the server.     *)
(***************************************************************************)
EXTENDS RadarPoller

(***************************************************************************)
(* Watched companies                                                       *)
(***************************************************************************)

\* add_watched_company commits the row and spawns its first poll.
AddCompany(c) ==
  /\ status[c] = "unborn"
  /\ status' = [status EXCEPT ![c] = "active"]
  /\ queue' = Spawned(queue, c, "user")
  /\ UNCHANGED <<claimAge, polledAge, feedVars, target, poll, work, req,
                 crashes>>

\* update_watched_company: pause, or resume (which also clears last_error).
SetStatus(c, s) ==
  /\ Live(c)
  /\ status[c] # s
  /\ status' = [status EXCEPT ![c] = s]
  /\ UNCHANGED <<claimAge, polledAge, feedVars, target, memoryVars, crashes>>

\* Rows that disappear while a session holds them: its UPDATE will not match.
Bereaved(c, gone) ==
  [p \in Slots |-> IF p \in PollsOf(c)
                   THEN [work[p] EXCEPT !.lost = @ \cup (work[p].rows \cap gone)]
                   ELSE work[p]]

ReqBereaved(gone(_)) ==
  [r \in Requests |-> IF req[r].stage # "idle" /\ req[r].x \in gone(req[r].co)
                      THEN [req[r] EXCEPT !.lost = TRUE] ELSE req[r]]

\* remove_watched_company: the postings go with the company.
RemoveCompany(c) ==
  /\ Live(c)
  /\ status' = [status EXCEPT ![c] = "deleted"]
  /\ claimAge' = [claimAge EXCEPT ![c] = NoAge]
  /\ polledAge' = [polledAge EXCEPT ![c] = NoAge]
  /\ posting' = [posting EXCEPT ![c] = [x \in Ids |-> "none"]]
  /\ linked' = [linked EXCEPT ![c] = [x \in Ids |-> FALSE]]
  /\ decided' = [decided EXCEPT ![c] = [x \in Ids |-> FALSE]]
  /\ poll' = [p \in Slots |->
                IF p \in PollsOf(c) THEN [poll[p] EXCEPT !.orphan = TRUE]
                                    ELSE poll[p]]
  /\ work' = Bereaved(c, Present(c))
  /\ req' = ReqBereaved(LAMBDA d : IF d = c THEN Ids ELSE {})
  /\ UNCHANGED <<jobs, target, queue, crashes>>

\* poll_watched_company runs the same poll_company, behind the same semaphore.
PollNow(c) ==
  /\ Live(c)
  /\ queue[c]["user"] < QueueBound
  /\ queue' = Spawned(queue, c, "user")
  /\ UNCHANGED <<companyVars, feedVars, target, poll, work, req, crashes>>

\* set_radar_target: clear what is in the feed, make every active company due,
\* commit, and spawn a poll of each.
Cleared(c) == {x \in Ids : posting[c][x] \in InFeed}

Retargeted ==
  /\ target < MaxRetargets
  /\ target' = target + 1
  /\ posting' = [c \in Companies |-> [x \in Ids |->
                   IF x \in Cleared(c) THEN "none" ELSE posting[c][x]]]
  /\ linked' = [c \in Companies |-> [x \in Ids |->
                   linked[c][x] /\ x \notin Cleared(c)]]
  /\ decided' = [c \in Companies |-> [x \in Ids |->
                   decided[c][x] /\ x \notin Cleared(c)]]
  /\ polledAge' = [c \in Companies |->
                     IF status[c] = "active" THEN NoAge ELSE polledAge[c]]
  /\ queue' = [c \in Companies |->
                 IF status[c] = "active"
                 THEN Spawned(queue, c, "user")[c] ELSE queue[c]]
  /\ work' = [p \in Slots |->
                IF Working(p) /\ ~poll[p].orphan
                THEN [work[p] EXCEPT
                        !.lost = @ \cup (work[p].rows \cap Cleared(poll[p].co))]
                ELSE work[p]]
  /\ req' = ReqBereaved(Cleared)
  /\ UNCHANGED <<status, jobs, poll, crashes>>

\* Bug: so that the new polls are not refused, it takes the claims away as well.
RetargetFreesClaims ==
  Retargeted /\ claimAge' = [c \in Companies |-> NoAge]

SetRadarTarget == Retargeted /\ UNCHANGED claimAge

(***************************************************************************)
(* Postings                                                                *)
(***************************************************************************)

\* dismiss_posting: whatever the state was.
DismissPosting(c, x) ==
  /\ posting[c][x] \notin {"none", "dismissed"}
  /\ posting' = [posting EXCEPT ![c][x] = "dismissed"]
  /\ decided' = [decided EXCEPT ![c][x] = TRUE]
  /\ UNCHANGED <<companyVars, jobVars, target, memoryVars, crashes>>

Promoted(c, x) ==
  /\ posting' = [posting EXCEPT ![c][x] = "promoted"]
  /\ linked' = [linked EXCEPT ![c][x] = TRUE]
  /\ decided' = [decided EXCEPT ![c][x] = TRUE]

\* promote_posting up to structure_job: no job has this url yet.
StartPromotion(r, c, x) ==
  /\ req[r].stage = "idle"
  /\ posting[c][x] # "none"
  /\ ~linked[c][x]
  /\ jobs[c][x] = 0
  /\ req' = [req EXCEPT ![r] =
               [stage |-> "structuring", co |-> c, x |-> x, lost |-> FALSE]]
  /\ UNCHANGED <<companyVars, feedVars, target, queue, poll, work, crashes>>

\* The url leads to a job there is: link the posting to it, and answer 409.
LinkToExistingJob(c, x) ==
  /\ posting[c][x] # "none"
  /\ ~linked[c][x]
  /\ jobs[c][x] > 0
  /\ Promoted(c, x)
  /\ UNCHANGED <<companyVars, jobs, target, memoryVars, crashes>>

\* The LLM answered: the job, its pending analysis and the posting's new state
\* are one commit.
FinishPromotion(r) ==
  /\ req[r].stage = "structuring"
  /\ ~req[r].lost
  /\ Promoted(req[r].co, req[r].x)
  /\ jobs' = [jobs EXCEPT ![req[r].co][req[r].x] = @ + 1]
  /\ req' = [req EXCEPT ![r] = IdleReq]
  /\ UNCHANGED <<companyVars, target, queue, poll, work, crashes>>

\* The LLM failed, or the posting is gone and the commit rolls the job back.
AbandonPromotion(r) ==
  /\ req[r].stage = "structuring"
  /\ req' = [req EXCEPT ![r] = IdleReq]
  /\ UNCHANGED <<companyVars, feedVars, target, queue, poll, work, crashes>>

\* create_job (api/jobs.py): the user saves the job of this url by hand or from
\* the extension; a url that is in the pipeline already is refused.
CreateJob(c, x) ==
  /\ jobs[c][x] = 0
  /\ jobs' = [jobs EXCEPT ![c][x] = 1]
  /\ UNCHANGED <<companyVars, postingVars, linked, target, memoryVars, crashes>>

\* Bugs: a job is deleted from under its posting, or twice.
DeleteLinkedJob(c, x) ==
  /\ jobs[c][x] > 0
  /\ jobs' = [jobs EXCEPT ![c][x] = @ - 1]
  /\ UNCHANGED <<companyVars, postingVars, linked, target, memoryVars, crashes>>

DeleteTwice(c, x) ==
  /\ ~linked[c][x]
  /\ jobs' = [jobs EXCEPT ![c][x] = @ - 1]
  /\ UNCHANGED <<companyVars, postingVars, linked, target, memoryVars, crashes>>

\* delete_job: the database refuses to delete a job that a posting refers to.
DeleteJob(c, x) ==
  /\ jobs[c][x] > (IF linked[c][x] THEN 1 ELSE 0)
  /\ jobs' = [jobs EXCEPT ![c][x] = @ - 1]
  /\ UNCHANGED <<companyVars, postingVars, linked, target, memoryVars, crashes>>

(***************************************************************************)
(* The process                                                             *)
(***************************************************************************)

\* The server stops and starts: tasks and requests are gone, rows are not.
Restart ==
  /\ crashes < MaxCrashes
  /\ crashes' = crashes + 1
  /\ queue' = [c \in Companies |-> [o \in Origins |-> 0]]
  /\ poll' = [p \in Slots |-> IdlePoll]
  /\ work' = [p \in Slots |-> NoWork]
  /\ req' = [r \in Requests |-> IdleReq]
  /\ UNCHANGED <<companyVars, feedVars, target>>

UserStep ==
  \/ \E c \in Companies :
       \/ AddCompany(c) \/ RemoveCompany(c) \/ PollNow(c)
       \/ \E s \in {"active", "paused"} : SetStatus(c, s)
       \/ \E x \in Ids :
            \/ DismissPosting(c, x) \/ LinkToExistingJob(c, x)
            \/ CreateJob(c, x) \/ DeleteJob(c, x)
            \/ \E r \in Requests : StartPromotion(r, c, x)
  \/ SetRadarTarget

Next ==
  \/ Minute
  \/ \E c \in Companies : QueueDuePoll(c)
  \/ \E c \in Companies, o \in Origins :
       \/ RefuseClaim(c, o)
       \/ \E p \in Slots : ClaimCompany(p, c, o)
  \/ \E p \in Slots : PollStep(p)
  \/ UserStep
  \/ \E r \in Requests : FinishPromotion(r) \/ AbandonPromotion(r)
  \/ Restart

Spec == Init /\ [][Next]_vars

\* The event loop keeps running: time passes, the tick sees what is due, an
\* external call ends (every one has a timeout), the semaphore is FIFO, and a
\* row stays locked no longer than a commit takes.
Fairness ==
  /\ WF_vars(Minute)
  /\ \A c \in Companies :
       /\ WF_vars(QueueDuePoll(c))
       /\ SF_vars(\E p \in Slots, o \in Origins : ClaimCompany(p, c, o))
  /\ \A p \in Slots : WF_vars(PollStep(p))

(***************************************************************************)
(* Properties                                                              *)
(***************************************************************************)

\* Two polls never work on the same company (a claim is exclusive), provided
\* no poll runs for as long as radar_stale_claim_minutes.  poller.py:58-82.
ExclusiveClaim ==
  \A c \in Companies : \A p, q \in PollsOf(c) : p = q

\* What claim_company says of itself, without the proviso: a poll that took
\* its claim less than StaleAfter minutes ago shares the company with no other
\* poll that did.  poller.py:59.
FreshClaimIsExclusive ==
  \A p, q \in Slots :
    /\ p # q /\ Working(p) /\ Working(q)
    /\ ~poll[p].orphan /\ ~poll[q].orphan
    /\ poll[p].age < StaleAfter /\ poll[q].age < StaleAfter
    => poll[p].co # poll[q].co

\* A posting is stored once: what a poll is about to insert is not there yet,
\* however long triage took.  poller.py:173-218, uq_postings_company_external_id.
StoreNeverCollides ==
  \A p \in Slots : poll[p].stage = "storing" /\ ~poll[p].orphan
                   => Fresh(p) \cap Present(poll[p].co) = {}

\* A posting that counts as promoted leads to a job.  promote.py:78-81.
PromotedLeadsToJob ==
  \A c \in Companies, x \in Ids :
    /\ posting[c][x] = "promoted" => linked[c][x]
    /\ linked[c][x] => jobs[c][x] > 0

\* set_radar_target: promotions and dismissals survive it.  radar.py:228-229.
DecisionsSurvive ==
  [][\A c \in Companies, x \in Ids :
       decided[c][x] /\ status'[c] # "deleted" => posting'[c][x] # "none"]_vars

\* No poll un-pauses a company that was active when the poll claimed it: only
\* the user does.  api/radar.py:179-182 against poller.py:133, :153-155.
PauseRespected ==
  [][\A c \in Companies :
       /\ status[c] = "paused" /\ status'[c] = "active"
       /\ \A p \in PollsOf(c) : poll[p].loaded = "active"
       => UNCHANGED poll]_vars

\* The flush of a poll fails because the board listed an id twice, and for nothing else.
BoardRepeats(c) == \E p \in Slots : poll[p].co = c /\ ~FlushFails(p) /\ StoreFails(p)

\* A restart, a poll that dies at a commit or one that is overtaken never wedges a
\* company: one that is due is polled, or is not active any more (an error on the row
\* makes it so).  The exception is a board that lists an id twice again and again: no
\* poll of it ever gets to write last_polled_at.  tests/test_radar_poller.py:120,
\* poller.py:86, :142-155, :217.
DueCompaniesArePolled ==
  \A c \in Companies : <>[][~BoardRepeats(c)]_vars => (Due(c) ~> ~Due(c))

(***************************************************************************)
(* The claim as an abstract lease                                          *)
(***************************************************************************)

OneOf(polls) == IF polls = {} THEN None ELSE CHOOSE p \in polls : TRUE

holder == [c \in Companies |-> OneOf(PollsOf(c))]

Lease == INSTANCE CompanyLease WITH Pollers <- Slots, Nobody <- None

\* As long as no poll outlasts its claim, polls take companies the way the
\* abstract lease says.  poller.py:58-82, :153-155.
ImplementsLease == Lease!Spec
=============================================================================
