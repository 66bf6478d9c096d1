---------------------------- MODULE ResumeIndex ----------------------------
(***************************************************************************)
(* The vector index of a resume (services/rag/indexing.py): rows of        *)
(* resume_chunk_embeddings, keyed by profile and chunk id, that every save *)
(* of the profile deletes and inserts anew (api/profiles.py), and that a   *)
(* match analysis or a cover letter fills in when it finds none            *)
(* (services/rag/match_context.py).                                        *)
(*                                                                         *)
(* The transactions are READ COMMITTED: a DELETE sees the rows committed   *)
(* when it starts and waits for whoever holds them; an INSERT waits for an *)
(* uncommitted row of its key, and fails if there is one in the end.       *)
(***************************************************************************)
EXTENDS Integers, FiniteSets

CONSTANTS
  Chunks,      \* chunk ids: "headline-0", "skill-1", ...
  ChunksOf,    \* ChunksOf[v]: the ones the resume of version v is split into
  Writers,     \* requests and background tasks that may write the index
  MaxVersion,  \* bound: versions of the resume
  MaxMishaps   \* bound: failures of the embedder and restarts

ASSUME VersionAssumption ==
  /\ MaxVersion \in Nat \ {0} /\ MaxMishaps \in Nat
  /\ ChunksOf \in [1..MaxVersion -> SUBSET Chunks]

VARIABLES
  resume,   \* version of the profile's resume, as committed
  rows,     \* version each committed row embeds; 0 when there is no such row
  txn,      \* what each writer is doing
  met,      \* history: writers another one has been at work with
  mishaps   \* failures so far

vars == <<resume, rows, txn, met, mishaps>>

Versions == 0..MaxVersion
Stages == {"idle", "saved", "loaded", "missing", "deleting", "inserting", "inserted"}

\* v is the version a writer holds, gone the rows its DELETE has met, save
\* whether it is a save of the profile.
At(stage, v, save) == [stage |-> stage, v |-> v, gone |-> {}, save |-> save]
IdleTxn == At("idle", 0, FALSE)

Idle(w)    == txn[w].stage = "idle"
Present    == {c \in Chunks : rows[c] # 0}

\* A writer starts: whoever is at work and it have met.
Meets(w) ==
  LET others == {o \in Writers : ~Idle(o)}
  IN  met' = IF others = {} THEN met \ {w} ELSE met \cup others \cup {w}

\* Rows a writer holds locks on, and keys it has inserted, neither committed.
Deleted(w)  == IF txn[w].stage \in {"inserting", "inserted"}
               THEN txn[w].gone ELSE {}
Inserted(w) == IF txn[w].stage = "inserted" THEN ChunksOf[txn[w].v] ELSE {}

\* Rows and transactions have the shape the code gives them; what a writer
\* embeds is a version the profile has had.
TypeOK ==
  /\ resume \in 1..MaxVersion
  /\ rows \in [Chunks -> Versions]
  /\ txn \in [Writers -> [stage : Stages, v : Versions, gone : SUBSET Chunks,
                          save : BOOLEAN]]
  /\ met \in SUBSET Writers /\ mishaps \in 0..MaxMishaps
  /\ \A w \in Writers : txn[w].v <= resume
  /\ \A w \in Writers : txn[w].stage \notin {"idle", "saved"} => txn[w].v > 0

\* A profile just indexed, or one from before there was an index.
Init ==
  /\ resume = 1
  /\ rows \in {[c \in Chunks |-> 0],
               [c \in Chunks |-> IF c \in ChunksOf[1] THEN 1 ELSE 0]}
  /\ txn = [w \in Writers |-> IdleTxn]
  /\ met = {} /\ mishaps = 0

(***************************************************************************)
(* A save of the profile                                                   *)
(***************************************************************************)

\* create_profile, update_profile, apply_resume_suggestions: the resume is
\* committed on its own ...
SaveResume(w) ==
  /\ Idle(w)
  /\ resume < MaxVersion
  /\ resume' = resume + 1
  /\ txn' = [txn EXCEPT ![w] = At("saved", 0, TRUE)]
  /\ Meets(w)
  /\ UNCHANGED <<rows, mishaps>>

\* Bug: it is not.
RefreshSkipped(w) ==
  /\ txn[w].stage = "saved"
  /\ txn' = [txn EXCEPT ![w].stage = "loaded"]
  /\ UNCHANGED <<resume, rows, met, mishaps>>

\* ... and read back before it is chunked.
RefreshResume(w) ==
  /\ txn[w].stage = "saved"
  /\ txn' = [txn EXCEPT ![w] = At("loaded", resume, TRUE)]
  /\ UNCHANGED <<resume, rows, met, mishaps>>

(***************************************************************************)
(* A match analysis, or a cover letter                                     *)
(***************************************************************************)

\* The profile is loaded when the run starts.
StartRun(w) ==
  /\ Idle(w)
  /\ txn' = [txn EXCEPT ![w] = At("loaded", resume, FALSE)]
  /\ Meets(w)
  /\ UNCHANGED <<resume, rows, mishaps>>

\* ensure_profile_indexed: if there are rows, they will do.
FindIndex(w) ==
  /\ txn[w].stage = "loaded" /\ ~txn[w].save
  /\ txn' = IF Present # {} THEN [txn EXCEPT ![w] = IdleTxn]
            ELSE [txn EXCEPT ![w].stage = "missing"]
  /\ UNCHANGED <<resume, rows, met, mishaps>>

(***************************************************************************)
(* index_profile_chunks                                                    *)
(***************************************************************************)

\* A save always comes here, a run if it has found nothing.
ToIndex(w) == txn[w].stage = (IF txn[w].save THEN "loaded" ELSE "missing")

\* Bug: the old rows are not deleted.
DeleteForgotten(w) ==
  /\ ToIndex(w)
  /\ txn' = [txn EXCEPT ![w].stage = "deleting"]
  /\ UNCHANGED <<resume, rows, met, mishaps>>

\* delete_profile_chunks starts: these are the rows it sees, which others may have
\* committed since a run has found nothing.
StartDelete(w) ==
  /\ ToIndex(w)
  /\ txn' = [txn EXCEPT ![w].stage = "deleting", ![w].gone = Present]
  /\ UNCHANGED <<resume, rows, met, mishaps>>

\* Nobody else holds them (any more).
FinishDelete(w) ==
  /\ txn[w].stage = "deleting"
  /\ \A o \in Writers \ {w} : Deleted(o) \cap txn[w].gone = {}
  /\ txn' = [txn EXCEPT ![w].stage = "inserting"]
  /\ UNCHANGED <<resume, rows, met, mishaps>>

\* An INSERT waits for whoever has inserted or deleted a row of its keys, ...
KeysFree(w) ==
  \A o \in Writers \ {w} :
    (Deleted(o) \cup Inserted(o)) \cap ChunksOf[txn[w].v] = {}

\* Bug: ON CONFLICT DO UPDATE, so a key that is taken is no conflict.
NeverTaken(w) == FALSE

\* ... and then finds the keys of rows its own DELETE has not met taken.
KeysTaken(w) == (Present \ txn[w].gone) \cap ChunksOf[txn[w].v] # {}

InsertRows(w) ==
  /\ txn[w].stage = "inserting"
  /\ KeysFree(w) /\ ~KeysTaken(w)
  /\ txn' = [txn EXCEPT ![w].stage = "inserted"]
  /\ UNCHANGED <<resume, rows, met, mishaps>>

\* IntegrityError: the transaction is over, the resume is saved all the same.
InsertFails(w) ==
  /\ txn[w].stage = "inserting"
  /\ KeysFree(w) /\ KeysTaken(w)
  /\ txn' = [txn EXCEPT ![w] = IdleTxn]
  /\ UNCHANGED <<resume, rows, met, mishaps>>

\* Rows that are gone are gone from the DELETEs that wait for them, too.
Skipped(w) ==
  [o \in Writers |-> IF txn[o].stage = "deleting"
                     THEN [txn[o] EXCEPT !.gone = @ \ txn[w].gone] ELSE txn[o]]

\* Bug: the old rows stay.
RowsAdded(w) ==
  [c \in Chunks |-> IF c \in ChunksOf[txn[w].v] THEN txn[w].v ELSE rows[c]]

RowsAfter(w) ==
  [c \in Chunks |-> IF c \in ChunksOf[txn[w].v] THEN txn[w].v
                    ELSE IF c \in txn[w].gone THEN 0 ELSE rows[c]]

\* A save commits at once; a run, whose rows the first search flushes, only when
\* the LLM has answered.
CommitIndex(w) ==
  /\ txn[w].stage = "inserted"
  /\ rows' = RowsAfter(w)
  /\ txn' = [Skipped(w) EXCEPT ![w] = IdleTxn]
  /\ UNCHANGED <<resume, met, mishaps>>

\* A run that fails without a commit: nothing was written.
RollBack(w) ==
  /\ ~Idle(w) /\ ~txn[w].save
  /\ txn' = [txn EXCEPT ![w] = IdleTxn]
  /\ UNCHANGED <<resume, rows, met, mishaps>>

\* The process stops, or a transaction is rolled back: the resume stays saved.
Mishap(lost) ==
  /\ mishaps < MaxMishaps
  /\ mishaps' = mishaps + 1
  /\ txn' = [w \in Writers |-> IF w \in lost THEN IdleTxn ELSE txn[w]]
  /\ UNCHANGED <<resume, rows, met>>

Restart == Mishap(Writers)

\* The embedder fails after the DELETE: a save or a letter is rolled back, ...
EmbedderFails(w) == txn[w].stage = "inserting" /\ Mishap({w})

\* ... but an analysis records its failure in the same session, and commits the
\* DELETE with it.
CommitFailure(w) ==
  /\ txn[w].stage = "inserting" /\ ~txn[w].save
  /\ mishaps < MaxMishaps
  /\ mishaps' = mishaps + 1
  /\ rows' = [c \in Chunks |-> IF c \in txn[w].gone THEN 0 ELSE rows[c]]
  /\ txn' = [Skipped(w) EXCEPT ![w] = IdleTxn]
  /\ UNCHANGED <<resume, met>>

WriterStep(w) ==
  \/ SaveResume(w) \/ RefreshResume(w) \/ StartRun(w) \/ FindIndex(w)
  \/ StartDelete(w) \/ FinishDelete(w) \/ InsertRows(w) \/ InsertFails(w)
  \/ CommitIndex(w) \/ RollBack(w) \/ EmbedderFails(w)
  \/ CommitFailure(w)

Next == (\E w \in Writers : WriterStep(w)) \/ Restart

Spec == Init /\ [][Next]_vars

(***************************************************************************)
(* Properties                                                              *)
(***************************************************************************)

\* Rows of a resume come and go together: whatever overlaps, fails or stops, a
\* chunk of some version is there only with all the others of that version.
\* indexing.py:44-80.
VersionsAreWhole ==
  \A c \in Present : \A d \in ChunksOf[rows[c]] : rows[d] = rows[c]

\* Only somebody else's rows get in the way: an INSERT that finds a key taken is
\* that of a writer another one was at work with, whatever failed or stopped
\* before.  indexing.py:49-72, profiles.py:145-148, :178-181.
OnlyOverlapsAreRefused ==
  [][\A w \in Writers : InsertFails(w) => w \in met]_vars

\* Who has met no other writer leaves rows of the current resume only, or none when it
\* fails: what overlapping or half-done saves left is made good by the next one.
\* indexing.py:44-91, profiles.py:145-148, :178-181.
LoneWritesAreCurrent ==
  [][\A w \in Writers : (CommitIndex(w) \/ CommitFailure(w)) /\ w \notin met
       => \A c \in Chunks : rows'[c] \in {0, resume}]_vars
=============================================================================
