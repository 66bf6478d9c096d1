----------------------------- MODULE RadarPoller -----------------------------
(***************************************************************************)
(* services/radar/poller.py: the scheduler tick, the claim on a company,   *)
(* and a poll from the fetch of the board to its final commit.             *)
(***************************************************************************)
EXTENDS RadarDB

feedVars == <<posting, linked, jobs, decided>>

(***************************************************************************)
(* The scheduler                                                           *)
(***************************************************************************)

\* One iteration of the loop in queue_due_polls.  Neither the claim nor
\* last_polled_at moves here, so the next tick finds the company due again.
QueueDuePoll(c) ==
  /\ Due(c)
  /\ queue[c]["tick"] < QueueBound
  /\ queue' = Spawned(queue, c, "tick")
  /\ UNCHANGED <<companyVars, postingVars, jobVars, target, poll, work, req,
                 crashes>>

\* A minute passes, for rows and for running polls alike.
Minute ==
  /\ \A p \in Slots : Working(p) =>
       poll[p].age < PollDeadline \/ PollDeadline >= StaleAfter
  /\ claimAge' = [c \in Companies |-> Older(claimAge[c], StaleAfter)]
  /\ polledAge' = [c \in Companies |-> Older(polledAge[c], Interval)]
  /\ poll' = [p \in Slots |->
                IF Working(p) THEN [poll[p] EXCEPT !.age = Older(@, StaleAfter)]
                              ELSE poll[p]]
  /\ UNCHANGED <<status, postingVars, jobVars, target, queue, work, req,
                 crashes>>

(***************************************************************************)
(* The claim                                                               *)
(***************************************************************************)

\* Bugs the properties would catch: a claim that expires a minute early, never
\* expires, or is not looked at.
ClaimExpiresEarly(c) == claimAge[c] # NoAge /\ claimAge[c] < StaleAfter - 1
ClaimNeverExpires(c) == claimAge[c] # NoAge
ClaimIsIgnored(c)    == FALSE

ClaimIsLive(c) == claimAge[c] # NoAge /\ claimAge[c] < StaleAfter

Dequeued(c, o) == [queue EXCEPT ![c][o] = @ - 1]

\* A bug: the claim is decided on but not written.
ClaimUnmarked(p, c, o) ==
  /\ ~Working(p)
  /\ queue[c][o] > 0
  /\ Live(c)
  /\ ~ClaimIsLive(c)
  /\ queue' = Dequeued(c, o)
  /\ poll' = [poll EXCEPT ![p] =
                [stage |-> "fetching", co |-> c, age |-> 0,
                 loaded |-> status[c], orphan |-> FALSE]]
  /\ work' = [work EXCEPT ![p] = NoWork]
  /\ UNCHANGED <<companyVars, feedVars, target, req, crashes>>

\* A waiting poll gets its permit and claim_company gives it the company.
ClaimCompany(p, c, o) ==
  /\ ~Working(p)
  /\ queue[c][o] > 0
  /\ Live(c)
  /\ ~ClaimIsLive(c)
  /\ queue' = Dequeued(c, o)
  /\ claimAge' = [claimAge EXCEPT ![c] = 0]
  /\ poll' = [poll EXCEPT ![p] =
                [stage |-> "fetching", co |-> c, age |-> 0,
                 loaded |-> status[c], orphan |-> FALSE]]
  /\ work' = [work EXCEPT ![p] = NoWork]
  /\ UNCHANGED <<status, polledAge, feedVars, target, req, crashes>>

\* claim_company returns None: no such row, a claim younger than the limit, or
\* a row that another transaction has locked at this moment (skip_locked).
RefuseClaim(c, o) ==
  /\ Idle # {}
  /\ queue[c][o] > 0
  /\ queue' = Dequeued(c, o)
  /\ UNCHANGED <<companyVars, feedVars, target, poll, work, req, crashes>>

(***************************************************************************)
(* The poll                                                                *)
(***************************************************************************)

Moved(p, stage) == poll' = [poll EXCEPT ![p] = [@ EXCEPT !.stage = stage]]

Freed(p) ==
  /\ poll' = [poll EXCEPT ![p] = IdlePoll]
  /\ work' = [work EXCEPT ![p] = NoWork]

\* The board answered.  eligible is what passes the criteria filter; the ids
\* already stored are set apart, and only the others go to triage.
FetchBoard(p) ==
  /\ poll[p].stage = "fetching"
  /\ \E eligible \in SUBSET Ids :
       work' = [work EXCEPT ![p] = [@ EXCEPT
         !.items  = eligible \cap Present(poll[p].co),
         !.unseen = eligible \ Present(poll[p].co)]]
  /\ Moved(p, "triaging")
  /\ UNCHANGED <<companyVars, feedVars, target, queue, req, crashes>>

\* Triage keeps some of the unseen postings (all of them when it fails open),
\* and _store_postings reads the rows there are now.
Triage(p) ==
  /\ poll[p].stage = "triaging"
  /\ \E kept \in SUBSET work[p].unseen :
       LET items == work[p].items \cup kept IN
       work' = [work EXCEPT ![p] = [@ EXCEPT
         !.items = items, !.unseen = {},
         !.rows = items \cap Present(poll[p].co)]]
  /\ Moved(p, "storing")
  /\ UNCHANGED <<companyVars, feedVars, target, queue, req, crashes>>

Fresh(p) == work[p].items \ work[p].rows

\* The flush inserts a row that exists by now, updates one that is gone, or
\* refers to a company that is gone.
FlushFails(p) ==
  \/ Fresh(p) \cap Present(poll[p].co) # {}
  \/ work[p].lost # {}
  \/ poll[p].orphan /\ Fresh(p) # {}

\* _store_postings and the commit behind it.
StorePostings(p) ==
  /\ poll[p].stage = "storing"
  /\ ~FlushFails(p)
  /\ LET c == poll[p].co IN
     posting' = [posting EXCEPT ![c] =
       [x \in Ids |-> IF x \in Fresh(p) THEN "new" ELSE @[x]]]
  /\ work' = [work EXCEPT ![p] = [@ EXCEPT !.items = {}, !.rows = {}]]
  /\ Moved(p, "loading")
  /\ UNCHANGED <<companyVars, decided, jobVars, target, queue, req, crashes>>

\* The flush failed (a repeated id inserts the same key twice).  The handler
\* sets the error in memory, but the session is beyond use until a rollback:
\* the last commit raises too, and the claim stays on the row.
StoreFails(p) ==
  /\ poll[p].stage = "storing"
  /\ FlushFails(p) \/ (BoardsRepeatIds /\ Fresh(p) # {})
  /\ Freed(p)
  /\ UNCHANGED <<companyVars, feedVars, target, queue, req, crashes>>

\* _unscreened_postings: the rows the session holds while the LLM scores them.
LoadUnscreened(p) ==
  /\ poll[p].stage = "loading"
  /\ LET c == poll[p].co IN
     work' = [work EXCEPT ![p] =
       [@ EXCEPT !.rows = {x \in Ids : posting[c][x] = "new"}]]
  /\ Moved(p, "screening")
  /\ UNCHANGED <<companyVars, feedVars, target, queue, req, crashes>>

\* A bug: the status goes out whether or not the poll changed it.
StatusOverwritten(p, outcome) == [status EXCEPT ![poll[p].co] = outcome]

\* An attribute set to the value it was loaded with is not written: a status the
\* user changed meanwhile survives then, and only then.
StatusAfter(p, outcome) ==
  IF outcome = poll[p].loaded THEN status
  ELSE [status EXCEPT ![poll[p].co] = outcome]

\* The tail of poll_company: scored rows, status, last_polled_at and the claim
\* go out in one commit.
FinishPoll(p, outcome, scored) ==
  /\ ~poll[p].orphan
  /\ scored \cap work[p].lost = {}
  /\ LET c == poll[p].co IN
     /\ status' = StatusAfter(p, outcome)
     /\ polledAge' = [polledAge EXCEPT ![c] = 0]
     /\ claimAge' = [claimAge EXCEPT ![c] = NoAge]
     /\ posting' = [posting EXCEPT ![c] =
          [x \in Ids |-> IF x \in scored THEN "screened" ELSE @[x]]]
  /\ Freed(p)
  /\ UNCHANGED <<decided, jobVars, target, queue, req, crashes>>

\* The same commit updates a row that is gone: it raises, nothing is written.
FinishFails(p, scored) ==
  /\ poll[p].orphan \/ scored \cap work[p].lost # {}
  /\ Freed(p)
  /\ UNCHANGED <<companyVars, feedVars, target, queue, req, crashes>>

\* AtsBoardNotFoundError, AtsError, or anything else before the store.
FailPoll(p) ==
  /\ \E outcome \in {"unresolved", "error"} :
       /\ \/ poll[p].stage = "fetching"
          \/ poll[p].stage = "triaging" /\ outcome = "error"
       /\ FinishPoll(p, outcome, {}) \/ FinishFails(p, {})

\* screen_postings scored some of the rows; an exception that is neither an
\* LLMError nor a ValueError ends it with the rows scored so far.
Screen(p) ==
  /\ poll[p].stage = "screening"
  /\ \E scored \in SUBSET work[p].rows, outcome \in {"active", "error"} :
       /\ Cardinality(scored) <= ScreenLimit
       /\ FinishPoll(p, outcome, scored) \/ FinishFails(p, scored)

PollStep(p) ==
  \/ FetchBoard(p) \/ Triage(p) \/ StorePostings(p) \/ StoreFails(p)
  \/ LoadUnscreened(p) \/ FailPoll(p) \/ Screen(p)
=============================================================================
