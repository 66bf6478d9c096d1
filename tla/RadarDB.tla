------------------------------- MODULE RadarDB -------------------------------
(***************************************************************************)
(* The state Radar works on: the rows of watched_companies and postings   *)
(* (with the jobs their urls lead to), the profile's radar_target, and the *)
(* memory of the server process - queued polls, running polls, and promote *)
(* requests that wait for the LLM.                                         *)
(*                                                                         *)
(* A committed transaction is one step; everything between two awaits that *)
(* can take long (a board fetch, an LLM call) is a step of its own.        *)
(***************************************************************************)
EXTENDS Integers, FiniteSets

CONSTANTS
  Companies,      \* ids of watched_companies rows that may ever exist
  None,           \* no company, no posting
  Ids,            \* external ids an ATS board may list
  Slots,          \* permits of the semaphore: radar_max_concurrent_polls
  Requests,       \* promote requests that can be in flight at once
  StaleAfter,     \* radar_stale_claim_minutes, in model minutes
  Interval,       \* the poll interval, in model minutes
  PollDeadline,   \* longest a poll may run; >= StaleAfter: no bound at all
  ScreenLimit,    \* radar_screen_limit_per_poll
  BoardsRepeatIds,\* may one fetched board list an external id twice
  QueueBound,     \* bound: polls of one company waiting, per origin
  MaxRetargets,   \* bound: changes of the target
  MaxCrashes      \* bound: restarts of the server process

ASSUME CompanyAssumption == None \notin Companies \cup Ids \cup Slots
ASSUME TimeAssumption ==
  /\ StaleAfter \in Nat \ {0}
  /\ Interval \in Nat \ {0}
  /\ PollDeadline \in Nat
ASSUME BoundAssumption ==
  /\ ScreenLimit \in Nat
  /\ BoardsRepeatIds \in BOOLEAN
  /\ QueueBound \in Nat
  /\ MaxRetargets \in Nat
  /\ MaxCrashes \in Nat

VARIABLES
  status,     \* watched_companies.status; "unborn" before, "deleted" after
  claimAge,   \* minutes since polling_started_at; NoAge when it is NULL
  polledAge,  \* minutes since last_polled_at; NoAge when it is NULL
  posting,    \* postings.state; "none" when there is no such row
  linked,     \* postings.job_id IS NOT NULL
  jobs,       \* how many jobs rows carry the posting's url
  target,     \* profiles.radar_target, numbered in the order it was set
  queue,      \* polls spawned and waiting for the semaphore
  poll,       \* what a running poll knows of its company
  work,       \* what a running poll holds of the board and the postings
  req,        \* promote requests
  crashes,    \* restarts so far
  decided     \* history: the user promoted or dismissed this row

companyVars == <<status, claimAge, polledAge>>
postingVars == <<posting, decided>>
jobVars     == <<linked, jobs>>
memoryVars  == <<queue, poll, work, req>>
vars == <<companyVars, postingVars, jobVars, target, memoryVars, crashes>>

Origins     == {"tick", "user"}
Watched     == {"active", "paused", "unresolved", "error"}
Statuses    == Watched \cup {"unborn", "deleted"}
InFeed      == {"new", "screened"}
Decisions   == {"promoted", "dismissed"}
States      == InFeed \cup Decisions \cup {"none"}
Stages      == {"fetching", "triaging", "storing", "loading", "screening"}

NoAge == -1
Older(age, cap) == IF age = NoAge \/ age = cap THEN age ELSE age + 1

IdlePoll == [stage |-> "idle", co |-> None, age |-> 0,
             loaded |-> "unborn", orphan |-> FALSE]
NoWork   == [items |-> {}, unseen |-> {}, rows |-> {}, lost |-> {}]
IdleReq  == [stage |-> "idle", co |-> None, x |-> None, lost |-> FALSE]

Live(c)    == status[c] \in Watched
Present(c) == {x \in Ids : posting[c][x] # "none"}
Working(p) == poll[p].stage # "idle"
Idle       == {p \in Slots : ~Working(p)}

\* Polls that hold rows of c in their session, and the ones whose company is c.
PollsOf(c) == {p \in Slots : poll[p].co = c /\ ~poll[p].orphan}

\* get_radar_poll_interval + the WHERE clause of due_company_ids.
Due(c) == status[c] = "active" /\ polledAge[c] \in {NoAge, Interval}

Spawned(q, c, o) ==
  [q EXCEPT ![c][o] = IF @ < QueueBound THEN @ + 1 ELSE @]

PollRecord ==
  [stage : Stages \cup {"idle"}, co : Companies \cup {None},
   age : 0..StaleAfter, loaded : Statuses, orphan : BOOLEAN]

WorkRecord ==
  [items : SUBSET Ids, unseen : SUBSET Ids, rows : SUBSET Ids,
   lost : SUBSET Ids]

RequestRecord ==
  [stage : {"idle", "structuring"}, co : Companies \cup {None},
   x : Ids \cup {None}, lost : BOOLEAN]

\* Every row and every record of a task has a shape the code can give it.
TypeOK ==
  /\ status \in [Companies -> Statuses]
  /\ claimAge \in [Companies -> {NoAge} \cup (0..StaleAfter)]
  /\ polledAge \in [Companies -> {NoAge} \cup (0..Interval)]
  /\ posting \in [Companies -> [Ids -> States]]
  /\ linked \in [Companies -> [Ids -> BOOLEAN]]
  /\ jobs \in [Companies -> [Ids -> Nat]]
  /\ target \in 0..MaxRetargets
  /\ queue \in [Companies -> [Origins -> 0..QueueBound]]
  /\ poll \in [Slots -> PollRecord]
  /\ work \in [Slots -> WorkRecord]
  /\ req \in [Requests -> RequestRecord]
  /\ crashes \in 0..MaxCrashes
  /\ decided \in [Companies -> [Ids -> BOOLEAN]]

Init ==
  /\ status = [c \in Companies |-> "unborn"]
  /\ claimAge = [c \in Companies |-> NoAge]
  /\ polledAge = [c \in Companies |-> NoAge]
  /\ posting = [c \in Companies |-> [x \in Ids |-> "none"]]
  /\ linked = [c \in Companies |-> [x \in Ids |-> FALSE]]
  /\ jobs = [c \in Companies |-> [x \in Ids |-> 0]]
  /\ target = 0
  /\ queue = [c \in Companies |-> [o \in Origins |-> 0]]
  /\ poll = [p \in Slots |-> IdlePoll]
  /\ work = [p \in Slots |-> NoWork]
  /\ req = [r \in Requests |-> IdleReq]
  /\ crashes = 0
  /\ decided = [c \in Companies |-> [x \in Ids |-> FALSE]]
=============================================================================
