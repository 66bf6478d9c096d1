----------------------------- MODULE RadarTiers -----------------------------
(***************************************************************************)
(* The LLM tiers of a poll, over many polls of one board: triage of the    *)
(* unseen postings in batches (services/radar/triage.py) and the screening *)
(* of the stored ones (services/radar/screener.py), with a provider that   *)
(* fails now and then and postings it never manages to score.              *)
(*                                                                         *)
(* Who else touches the rows is Radar's subject; here one poll runs at a   *)
(* time, and what counts is what each call of the LLM leads to.            *)
(***************************************************************************)
EXTENDS Integers, FiniteSets

CONSTANTS
  Ids,          \* postings of the board that pass the criteria
  Poisoned,     \* the ones whose screening fails whenever it is tried
  BatchSize,    \* TRIAGE_BATCH_SIZE
  MaxBatches,   \* MAX_TRIAGE_BATCHES
  Attempts,     \* TRIAGE_ATTEMPTS
  ScreenLimit,  \* radar_screen_limit_per_poll
  MaxFailures,  \* MAX_CONSECUTIVE_FAILURES
  MaxListings,  \* bound: changes of what the board lists
  MaxCrashes    \* bound: polls a restart or an exception cuts short

ASSUME LimitAssumption ==
  /\ BatchSize \in Nat \ {0} /\ MaxBatches \in Nat /\ Attempts \in Nat \ {0}
  /\ ScreenLimit \in Nat /\ MaxFailures \in Nat \ {0}
ASSUME IdsAssumption == IsFiniteSet(Ids) /\ Poisoned \subseteq Ids
ASSUME BoundAssumption == MaxListings \in Nat /\ MaxCrashes \in Nat

VARIABLES
  board,       \* what the ATS lists now
  listings,    \* changes of it so far
  state,       \* postings.state; "none" when there is no such row
  seen,        \* rank of postings.first_seen_at
  stage,       \* where the poll is
  fetched,     \* what this poll's fetch returned
  rest,        \* unseen postings whose batch is not done
  batch,       \* the batch the LLM has been sent; {} between batches
  attempt,     \* how often it has been sent
  batches,     \* batches done
  kept,        \* postings triage lets through
  todo,        \* postings still to be screened by this poll
  scored,      \* the ones it has scored, in memory
  failures,    \* consecutive_failures
  crashes,     \* polls cut short so far
  triageCalls, \* history: triage calls of this poll
  screenCalls, \* history: screening calls of this poll
  answered     \* history: postings of this poll the LLM gave a verdict on

boardVars  == <<board, listings>>
rowVars    == <<state, seen>>
triageVars == <<fetched, rest, batch, attempt, batches, kept, triageCalls,
                answered>>
screenVars == <<todo, scored, failures, screenCalls>>
vars == <<boardVars, rowVars, stage, triageVars, screenVars, crashes>>

States == {"none", "new", "screened"}
Stages == {"idle", "triaging", "loading", "screening"}

Stored  == {x \in Ids : state[x] # "none"}
Pending == {x \in Ids : state[x] = "new"}
Least(m, n) == IF m <= n THEN m ELSE n

\* Everything a poll holds has the shape the code gives it.
TypeOK ==
  /\ board \in SUBSET Ids /\ listings \in 0..MaxListings
  /\ state \in [Ids -> States] /\ seen \in [Ids -> Nat]
  /\ stage \in Stages
  /\ fetched \in SUBSET Ids /\ rest \in SUBSET Ids /\ kept \in SUBSET Ids
  /\ batch \in SUBSET rest /\ attempt \in 0..Attempts
  /\ batches \in 0..MaxBatches
  /\ todo \in SUBSET Ids /\ scored \in SUBSET Ids
  /\ failures \in 0..MaxFailures
  /\ crashes \in 0..MaxCrashes
  /\ triageCalls \in Nat /\ screenCalls \in Nat
  /\ answered \in SUBSET Ids

Init ==
  /\ board \in SUBSET Ids /\ listings = 0
  /\ state = [x \in Ids |-> "none"] /\ seen = [x \in Ids |-> 0]
  /\ stage = "idle"
  /\ fetched = {} /\ rest = {} /\ batch = {} /\ attempt = 0 /\ batches = 0
  /\ kept = {} /\ triageCalls = 0 /\ answered = {}
  /\ todo = {} /\ scored = {} /\ failures = 0 /\ screenCalls = 0
  /\ crashes = 0

(***************************************************************************)
(* Triage                                                                  *)
(***************************************************************************)

\* The fetch: what is stored already is not triaged again.
StartPoll ==
  /\ stage = "idle"
  /\ stage' = "triaging"
  /\ fetched' = board
  /\ rest' = board \ Stored
  /\ batch' = {} /\ attempt' = 0 /\ batches' = 0 /\ kept' = {}
  /\ triageCalls' = 0 /\ answered' = {}
  /\ todo' = {} /\ scored' = {} /\ failures' = 0 /\ screenCalls' = 0
  /\ UNCHANGED <<boardVars, rowVars, crashes>>

\* Bug: no bound on the number of batches.
TriageUncapped == batch = {} /\ rest = {}

TriageDone == batch = {} /\ (rest = {} \/ batches = MaxBatches)

\* The next batch goes to the LLM.
SendBatch ==
  /\ stage = "triaging" /\ batch = {} /\ ~TriageDone
  /\ \E next \in SUBSET rest :
       /\ Cardinality(next) = Least(BatchSize, Cardinality(rest))
       /\ batch' = next
  /\ attempt' = 1
  /\ triageCalls' = triageCalls + 1
  /\ UNCHANGED <<boardVars, rowVars, stage, fetched, rest, batches, kept,
                 answered, screenVars, crashes>>

BatchDone(through) ==
  /\ kept' = kept \cup through
  /\ rest' = rest \ batch
  /\ batch' = {} /\ attempt' = 0
  /\ batches' = batches + 1

\* The answer names the relevant ones; an index that is no posting's, or comes
\* twice, is ignored.
BatchAnswered ==
  /\ batch # {}
  /\ \E relevant \in SUBSET batch : BatchDone(relevant)
  /\ answered' = answered \cup batch
  /\ UNCHANGED <<boardVars, rowVars, stage, fetched, triageCalls, screenVars,
                 crashes>>

\* The call fails: once more, and then the whole batch passes.
BatchRetried ==
  /\ batch # {}
  /\ attempt < Attempts
  /\ attempt' = attempt + 1
  /\ triageCalls' = triageCalls + 1
  /\ UNCHANGED <<boardVars, rowVars, stage, fetched, rest, batch, batches,
                 kept, answered, screenVars, crashes>>

\* Bug: a batch nobody answered for is dropped.
BatchFailsClosed ==
  /\ batch # {}
  /\ attempt = Attempts
  /\ BatchDone({})
  /\ UNCHANGED <<boardVars, rowVars, stage, fetched, triageCalls, answered,
                 screenVars, crashes>>

BatchFailsOpen ==
  /\ batch # {}
  /\ attempt = Attempts
  /\ BatchDone(batch)
  /\ UNCHANGED <<boardVars, rowVars, stage, fetched, triageCalls, answered,
                 screenVars, crashes>>

\* There is no LLM to ask: everything unseen passes.
SkipTriage ==
  /\ stage = "triaging" /\ batches = 0 /\ batch = {} /\ rest # {}
  /\ kept' = rest /\ rest' = {}
  /\ UNCHANGED <<boardVars, rowVars, stage, fetched, batch, attempt, batches,
                 triageCalls, answered, screenVars, crashes>>

\* What was kept, and what is beyond the last batch, is stored and committed.
StoreKept ==
  /\ stage = "triaging" /\ TriageDone
  /\ stage' = "loading"
  /\ state' = [x \in Ids |-> IF x \in kept \cup rest THEN "new" ELSE state[x]]
  /\ seen' = [x \in Ids |-> IF x \in kept \cup rest THEN Cardinality(Stored) + 1
                                                  ELSE seen[x]]
  /\ kept' = {} /\ rest' = {}
  /\ UNCHANGED <<boardVars, fetched, batch, attempt, batches, triageCalls,
                 answered, screenVars, crashes>>

(***************************************************************************)
(* Screening                                                               *)
(***************************************************************************)

\* The oldest unscored postings, as many as a poll may screen.
LoadUnscreened ==
  /\ stage = "loading"
  /\ stage' = "screening"
  /\ \E oldest \in SUBSET Pending :
       /\ Cardinality(oldest) = Least(ScreenLimit, Cardinality(Pending))
       /\ \A x \in oldest, y \in Pending \ oldest : seen[x] <= seen[y]
       /\ todo' = oldest
  /\ UNCHANGED <<boardVars, rowVars, triageVars, scored, failures, screenCalls,
                 crashes>>

\* There is no LLM to ask: nothing is screened.
SkipScreening ==
  /\ stage = "loading"
  /\ stage' = "screening"
  /\ UNCHANGED <<boardVars, rowVars, triageVars, screenVars, crashes>>

IsNext(x) == x \in todo /\ \A y \in todo : seen[x] <= seen[y]

ScreenPosting(x) ==
  /\ stage = "screening" /\ IsNext(x) /\ x \notin Poisoned
  /\ screenCalls' = screenCalls + 1
  /\ scored' = scored \cup {x}
  /\ todo' = todo \ {x}
  /\ failures' = 0
  /\ UNCHANGED <<boardVars, rowVars, stage, triageVars, crashes>>

\* Bugs: the failures of a batch are not counted, or the first one is enough.
NeverGivesUp == FALSE

GivesUp == failures + 1 >= MaxFailures

\* LLMError or ValueError: on to the next one, or give the batch up.
ScreeningFails(x) ==
  /\ stage = "screening" /\ IsNext(x)
  /\ screenCalls' = screenCalls + 1
  /\ failures' = failures + 1
  /\ todo' = IF GivesUp THEN {} ELSE todo \ {x}
  /\ UNCHANGED <<boardVars, rowVars, stage, triageVars, scored, crashes>>

\* The last commit of the poll writes the scores.
FinishPoll ==
  /\ stage = "screening" /\ todo = {}
  /\ stage' = "idle"
  /\ state' = [x \in Ids |-> IF x \in scored THEN "screened" ELSE state[x]]
  /\ UNCHANGED <<boardVars, seen, triageVars, screenVars, crashes>>

(***************************************************************************)
(* The world around it                                                     *)
(***************************************************************************)

\* The company posts jobs and takes them down.
Relist ==
  /\ listings < MaxListings
  /\ listings' = listings + 1
  /\ \E listed \in SUBSET Ids : listed # board /\ board' = listed
  /\ UNCHANGED <<rowVars, stage, triageVars, screenVars, crashes>>

\* The process stops in the middle of a poll; scores not yet committed are gone.
Crash ==
  /\ crashes < MaxCrashes /\ stage # "idle"
  /\ crashes' = crashes + 1
  /\ stage' = "idle"
  /\ batch' = {} /\ rest' = {} /\ kept' = {} /\ todo' = {} /\ scored' = {}
  /\ UNCHANGED <<boardVars, rowVars, fetched, attempt, batches, triageCalls,
                 answered, failures, screenCalls>>

\* A call raises what neither tier catches, and the poll ends as an error: nothing
\* of triage is stored yet, and the last commit writes the scores there are.
PollRaises ==
  /\ crashes < MaxCrashes
  /\ \/ stage = "triaging" /\ batch # {}
     \/ stage = "screening" /\ todo # {}
  /\ crashes' = crashes + 1
  /\ stage' = "idle"
  /\ state' = [x \in Ids |-> IF x \in scored THEN "screened" ELSE state[x]]
  /\ batch' = {} /\ rest' = {} /\ kept' = {} /\ todo' = {} /\ scored' = {}
  /\ UNCHANGED <<boardVars, seen, fetched, attempt, batches, triageCalls,
                 answered, failures, screenCalls>>

PollStep ==
  \/ StartPoll \/ SendBatch \/ BatchAnswered \/ BatchRetried \/ BatchFailsOpen
  \/ SkipTriage \/ StoreKept \/ LoadUnscreened \/ SkipScreening
  \/ (\E x \in Ids : ScreenPosting(x) \/ ScreeningFails(x)) \/ FinishPoll

Next == PollStep \/ Relist \/ Crash \/ PollRaises

Spec == Init /\ [][Next]_vars

\* Polls come round and end; a provider that keeps being asked is configured
\* some of those times, and some of them scores what it can score.
Fairness ==
  /\ WF_vars(PollStep)
  /\ SF_vars(LoadUnscreened)
  /\ \A x \in Ids \ Poisoned : SF_vars(ScreenPosting(x))

FairSpec == Spec /\ Fairness

(***************************************************************************)
(* Properties                                                              *)
(***************************************************************************)

\* Triage fails open: a posting the poll fetched and does not store is one the
\* LLM gave its verdict on - never one whose call failed, whose batch was beyond
\* the cap, or that nobody was asked about.  triage.py:12-13, :80-103, :119-133.
FailsOpen ==
  stage # "idle" => fetched \ (Stored \cup kept \cup rest) \subseteq answered

\* However long the board and the backlog, a poll costs a bounded number of LLM
\* calls, and a provider that is down costs screening MAX_CONSECUTIVE_FAILURES
\* calls and no more.  triage.py:28-31, screener.py:32-34, :104-129.
PollIsCapped ==
  /\ triageCalls <= MaxBatches * Attempts
  /\ screenCalls <= ScreenLimit
  /\ stage = "screening" /\ scored = {} => screenCalls <= MaxFailures

\* A stored posting that can be scored is scored some day.  poller.py:127-128,
\* screener.py:104-108.
HealthyAreScreened ==
  \A x \in Ids \ Poisoned : state[x] = "new" ~> state[x] = "screened"
=============================================================================
