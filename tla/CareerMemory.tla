---------------------------- MODULE CareerMemory ----------------------------
(***************************************************************************)
(* What the user tells the system (api/feedback.py), of one profile and    *)
(* one job: each feedback is one transaction that records the event,       *)
(* replaces the active memory of its key (services/memory/context.py) and, *)
(* when it reports how the application went, sets the status of the job    *)
(* (services/jobs/application_status.py).                                  *)
(*                                                                         *)
(* READ COMMITTED: the UPDATE that deactivates memories sees the rows      *)
(* committed when it starts, waits for whoever holds them, and passes over *)
(* those that are inactive by then.  Nobody sees a row before its commit.  *)
(***************************************************************************)
EXTENDS Integers, Sequences

CONSTANTS
  Topics,      \* memory keys of preferences, disputed gaps, confirmed strengths
  Statuses,    \* ApplicationOutcomeStatus
  Saved,       \* the status of a job nothing is reported of
  Writers,     \* requests that may be at work at a time
  MaxFeedback, \* bound: feedback rows
  None

ASSUME FeedbackAssumption ==
  /\ Saved \in Statuses /\ Topics \cap Statuses = {}
  /\ None \notin Topics \cup Statuses
  /\ MaxFeedback \in Nat

VARIABLES
  memories, \* career_memories of the profile, in the order of their commits
  status,   \* jobs.application_status
  recorded, \* feedback_events committed
  txn       \* what each request is doing

vars == <<memories, status, recorded, txn>>

\* An outcome has a key of its own for each status, but "saved" is no outcome.
Keys == Topics \cup (Statuses \ {Saved})

\* draft_memory_from_feedback: the key of the memory a feedback makes and the
\* status it reports, if any; match_helpful makes and reports nothing.
Feedback ==
  [key : Topics, status : {None}]
    \cup {[key |-> s, status |-> s] : s \in Statuses \ {Saved}}
    \cup {[key |-> None, status |-> Saved], [key |-> None, status |-> None]}

\* begun is history: how many memories were there when the feedback came in.
Memories == [key : Keys, active : BOOLEAN, begun : Nat]

Nothing == [key |-> None, status |-> None]
Stages  == {"idle", "loaded", "updating", "replaced", "reported"}
IdleTxn == [stage |-> "idle", fb |-> Nothing, loaded |-> Saved, rows |-> {},
            begun |-> 0, alone |-> TRUE]

Idle(w)     == txn[w].stage = "idle"
Active      == {i \in DOMAIN memories : memories[i].active}
ActiveOf(k) == {i \in Active : memories[i].key = k}

\* Rows and transactions have the shape the code gives them.
TypeOK ==
  /\ memories \in Seq(Memories)
  /\ status \in Statuses /\ recorded \in 0..MaxFeedback
  /\ txn \in [Writers -> [stage : Stages, fb : Feedback, loaded : Statuses,
                          rows : SUBSET Nat, begun : Nat, alone : BOOLEAN]]
  /\ \A w \in Writers : txn[w].rows \subseteq DOMAIN memories
                          /\ txn[w].begun <= Len(memories)
  /\ \A i \in DOMAIN memories : memories[i].begun < i

Init ==
  /\ memories = <<>> /\ status = Saved /\ recorded = 0
  /\ txn = [w \in Writers |-> IdleTxn]

(***************************************************************************)
(* create_feedback                                                         *)
(***************************************************************************)

\* The references are checked, and the event is inserted.
LoadReferences(w) ==
  /\ Idle(w)
  /\ \E fb \in Feedback :
       txn' = [txn EXCEPT ![w] =
                 [IdleTxn EXCEPT !.stage = "loaded", !.fb = fb,
                                 !.begun = Len(memories)]]
  /\ UNCHANGED <<memories, status, recorded>>

\* Bugs: the statement has no condition on the key, or finds nothing.
AllActive(k) == Active
NoneActive(k) == {}

ToDeactivate(k) == ActiveOf(k)

\* sync_career_memory_from_feedback: the UPDATE starts ...
StartUpdate(w) ==
  /\ txn[w].stage = "loaded" /\ txn[w].fb.key # None
  /\ txn' = [txn EXCEPT ![w].stage = "updating",
                        ![w].rows = ToDeactivate(txn[w].fb.key)]
  /\ UNCHANGED <<memories, status, recorded>>

Held(w) == IF txn[w].stage \in {"replaced", "reported"} THEN txn[w].rows ELSE {}

\* ... and ends when nobody else holds its rows; the new memory is inserted, and the
\* job is selected, again, since the session keeps no object that nobody holds.
FinishUpdate(w) ==
  /\ txn[w].stage = "updating"
  /\ \A o \in Writers \ {w} : Held(o) \cap txn[w].rows = {}
  /\ txn' = [txn EXCEPT ![w].stage = "replaced", ![w].rows = @ \cap Active,
                        ![w].loaded = status]
  /\ UNCHANGED <<memories, status, recorded>>

\* Nothing to remember; the job is selected, if a status is reported.
NoDraft(w) ==
  /\ txn[w].stage = "loaded" /\ txn[w].fb.key = None
  /\ txn' = [txn EXCEPT ![w].stage = "replaced", ![w].loaded = status]
  /\ UNCHANGED <<memories, status, recorded>>

\* Bug: a job is never set back to "saved".
SavedNotSent(fb, loaded) == fb.status \notin {None, Saved}

\* A status equal to the one that was loaded is not sent.
IsSent(fb, loaded) == fb.status \notin {None, loaded}

\* sync_job_application_status_from_feedback locks the row of the job.
SetStatus(w) ==
  /\ txn[w].stage = "replaced" /\ IsSent(txn[w].fb, txn[w].loaded)
  /\ \A o \in Writers : txn[o].stage # "reported"
  /\ txn' = [txn EXCEPT ![w].stage = "reported"]
  /\ UNCHANGED <<memories, status, recorded>>

Deactivated(rows) ==
  [i \in DOMAIN memories |->
     [memories[i] EXCEPT !.active = @ /\ i \notin rows]]

\* Bugs: "saved" is remembered like an outcome, or no outcome is remembered.
SavedRemembered(q) ==
  Append(Deactivated(q.rows),
         [key |-> q.fb.key, active |-> TRUE, begun |-> q.begun])

OutcomeForgotten(q) ==
  IF q.fb.key \notin Topics THEN Deactivated(q.rows)
  ELSE Append(Deactivated(q.rows),
              [key |-> q.fb.key, active |-> TRUE, begun |-> q.begun])

Replaced(q) ==
  IF q.fb.key = None THEN memories
  ELSE Append(Deactivated(q.rows),
              [key |-> q.fb.key, active |-> TRUE, begun |-> q.begun])

\* Event, memory and status are one commit.
CommitFeedback(w) ==
  /\ \/ txn[w].stage = "reported"
     \/ txn[w].stage = "replaced" /\ ~IsSent(txn[w].fb, txn[w].loaded)
  /\ recorded < MaxFeedback
  /\ recorded' = recorded + 1
  /\ memories' = Replaced(txn[w])
  /\ status' = IF txn[w].stage = "reported" THEN txn[w].fb.status ELSE status
  /\ txn' = [o \in Writers |->
               IF o = w THEN IdleTxn ELSE [txn[o] EXCEPT !.alone = Idle(o)]]

\* A reference is missing, the client is gone, or a statement fails.
RollBack(w) ==
  /\ ~Idle(w)
  /\ txn' = [txn EXCEPT ![w] = IdleTxn]
  /\ UNCHANGED <<memories, status, recorded>>

Restart ==
  /\ \E w \in Writers : ~Idle(w)
  /\ txn' = [w \in Writers |-> IdleTxn]
  /\ UNCHANGED <<memories, status, recorded>>

FeedbackStep(w) ==
  \/ LoadReferences(w) \/ StartUpdate(w) \/ FinishUpdate(w) \/ NoDraft(w)
  \/ SetStatus(w) \/ CommitFeedback(w) \/ RollBack(w)

Next == (\E w \in Writers : FeedbackStep(w)) \/ Restart

Spec == Init /\ [][Next]_vars

(***************************************************************************)
(* Properties                                                              *)
(***************************************************************************)

\* What the user said last of something is what the LLM is told: of each key, the
\* memory committed last is active, whoever overlaps.  context.py:25-46.
LastWordIsActive ==
  \A i \in DOMAIN memories :
    (\A j \in DOMAIN memories : memories[j].key = memories[i].key => j <= i)
      => memories[i].active

\* Two active memories of one key, which may contradict each other, come from
\* feedback that overlapped: the later one came in before the earlier one was
\* there.  context.py:25-46.
OnlyOverlapsContradict ==
  \A i, j \in Active :
    i < j /\ memories[i].key = memories[j].key => memories[j].begun < i

\* The status of the job and what is remembered of it agree: a reported status has
\* an active memory of it.  feedback.py:61-66, application_status.py:15-40.
StatusIsRemembered ==
  status # Saved => ActiveOf(status) # {}

\* What an outcome reports is what the job shows, unless somebody else committed
\* while it was at work; feedback that reports none leaves the status alone.
\* application_status.py:15-40, feedback.py:61-66.
LoneOutcomesAreShown ==
  [][\A w \in Writers : CommitFeedback(w) /\ txn[w].alone
       => status' = IF txn[w].fb.status = None THEN status
                    ELSE txn[w].fb.status]_vars
=============================================================================
