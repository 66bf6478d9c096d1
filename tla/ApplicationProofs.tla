------------------------- MODULE ApplicationProofs -------------------------
(***************************************************************************)
(* The job's document stays consistent whatever runs at the same time,     *)
(* measures the tailored resume unless a run was overtaken between its two *)
(* loads, and loses nothing to a write of somebody who has it as it is.    *)
(***************************************************************************)
EXTENDS Application, FiniteSetTheorems, TLAPS

\* The copies a run or a request holds were consistent once, and a completed
\* analysis stays completed.
CopiesInv ==
  /\ \A a \in Analyses : Consistent(task[a].copy, status)
  /\ \A r \in Requests :
       /\ Consistent(req[r].copy, status)
       /\ req[r].kind # "edit" => req[r].a \in Analyses
       /\ req[r].stage = "working" /\ req[r].kind # "edit"
            => status[req[r].a] = "completed"

AppInv == TypeOK /\ ProgressIsConsistent /\ CopiesInv

USE RowsAssumption, BoundAssumption

(***************************************************************************)
(* The document helpers, for any documents and any rows of match_analyses  *)
(***************************************************************************)

LEMMA NewDocIsConsistent ==
  ASSUME NEW rows PROVE NewDoc \in Docs /\ Consistent(NewDoc, rows)
BY DEF NewDoc, Docs, Maybe, Steps, Consistent, RefersTo

\* Recording a remeasurement by an analysis that is completed now keeps a
\* document consistent.
LEMMA RemeasurementIsConsistent ==
  ASSUME NEW rows \in [Analyses -> Statuses], NEW d \in Docs, NEW a \in Analyses,
         Consistent(d, rows)
  PROVE  /\ RecordRemeasurement(d, a) \in Docs
         /\ Consistent(RecordRemeasurement(d, a),
                       [rows EXCEPT ![a] = "completed"])
<1>1. CASE d.awaiting /\ d.baseline # a
  <2> DEFINE new == [d EXCEPT !.awaiting = FALSE, !.remeasured = a]
  <2>1. RecordRemeasurement(d, a) = new
    BY <1>1 DEF RecordRemeasurement
  <2>2. new \in Docs
    BY DEF Docs, Maybe
  <2>3. RefersTo(new) \subseteq RefersTo(d) \cup {a}
    BY DEF RefersTo, Docs
  <2>4. RefersTo(d) \subseteq Maybe
    BY DEF RefersTo, Docs, Maybe
  <2>5. d.baseline # None
    BY <1>1 DEF Consistent
  <2>6. ~new.awaiting /\ new.baseline = d.baseline /\ new.remeasured = a
    BY DEF Docs
  <2> HIDE DEF new
  <2> QED BY <1>1, <2>1, <2>2, <2>3, <2>4, <2>5, <2>6
          DEF Consistent, Maybe
<1>2. CASE ~(d.awaiting /\ d.baseline # a)
  <2>1. RefersTo(d) \subseteq Maybe
    BY DEF RefersTo, Docs, Maybe
  <2> QED BY <1>2, <2>1 DEF RecordRemeasurement, Consistent, Maybe
<1> QED BY <1>1, <1>2

\* Every request writes a consistent document if it loaded one and its analysis
\* is completed.
LEMMA WrittenIsConsistent ==
  ASSUME NEW rows,
         NEW q \in [stage : {"idle", "indexing", "loading", "working"},
                    kind : Kinds, a : Maybe, copy : Docs, of : Nat],
         Consistent(q.copy, rows),
         q.kind # "edit" => q.a \in Analyses /\ rows[q.a] = "completed"
  PROVE  Written(q) \in Docs /\ Consistent(Written(q), rows)
<1>0. q.copy \in Docs /\ q.of \in Nat
  OBVIOUS
<1>1. ASSUME NEW step \in Steps, q.a \in Analyses, rows[q.a] = "completed"
      PROVE  LET new == SaveArtifact(MarkStep(q.copy, step), step, q.a)
             IN  new \in Docs /\ Consistent(new, rows)
  <2> DEFINE new == SaveArtifact(MarkStep(q.copy, step), step, q.a)
  <2>1. new \in Docs
    BY <1>0, <1>1 DEF SaveArtifact, MarkStep, Docs, Maybe
  <2>2. /\ new.baseline = q.copy.baseline /\ new.remeasured = q.copy.remeasured
        /\ new.awaiting = q.copy.awaiting
        /\ \A s \in Steps : new.artifact[s] \in {q.copy.artifact[s], q.a}
    BY <1>0, <1>1 DEF SaveArtifact, MarkStep, Docs
  <2>3. RefersTo(new) \subseteq RefersTo(q.copy) \cup {q.a}
    BY <2>2 DEF RefersTo
  <2> HIDE DEF new
  <2>4. Consistent(new, rows)
    BY <1>1, <2>2, <2>3 DEF Consistent
  <2> QED BY <2>1, <2>4 DEF new
<1>2. CASE q.kind = "optimization"
  BY <1>1, <1>2 DEF Written, Steps
<1>3. CASE q.kind = "letter"
  BY <1>1, <1>3 DEF Written, Steps
<1>4. CASE q.kind = "apply"
  <2> DEFINE new == MarkResumeApplied(q.copy, q.a, q.of)
  <2>1. Written(q) = new
    BY <1>4 DEF Written
  <2>2. new \in Docs
    BY <1>0, <1>4 DEF MarkResumeApplied, Docs, Maybe, Steps
  <2>3. /\ new.baseline = q.a /\ new.remeasured = None
        /\ new.artifact = q.copy.artifact
    BY <1>0 DEF MarkResumeApplied, Docs
  <2>4. q.a # None
    BY <1>4
  <2> HIDE DEF new
  <2>5. RefersTo(new) \subseteq RefersTo(q.copy) \cup {q.a, None}
    BY <2>3 DEF RefersTo
  <2> QED BY <1>4, <2>1, <2>2, <2>3, <2>4, <2>5 DEF Consistent
<1>5. CASE q.kind = "edit"
  BY <1>0, <1>5 DEF Written
<1> QED BY <1>2, <1>3, <1>4, <1>5 DEF Kinds

\* A document stays consistent while completed analyses stay completed.
LEMMA CompletedStays ==
  ASSUME NEW d \in Docs, NEW old, NEW new,
         \A a \in Analyses : old[a] = "completed" => new[a] = "completed",
         Consistent(d, old)
  PROVE  Consistent(d, new)
<1>1. RefersTo(d) \subseteq Maybe
  BY DEF Docs, RefersTo, Maybe
<1> QED BY <1>1 DEF Consistent, Maybe

(***************************************************************************)
(* Consistency                                                             *)
(***************************************************************************)

LEMMA InitApp == Init => AppInv
BY NewDocIsConsistent
   DEF Init, AppInv, TypeOK, ProgressIsConsistent, CopiesInv, NoTask, NoReq,
       Statuses, Kinds, Maybe

\* A step of an analysis keeps the invariant.
LEMMA RunApp ==
  ASSUME AppInv, NEW a \in Analyses, CreateAnalysis(a) \/ RunStep(a)
  PROVE  AppInv'
<1> USE DEF AppInv, ProgressIsConsistent
<1>a. /\ \A b \in Analyses : task[b].copy \in Docs
      /\ \A r \in Requests : req[r].copy \in Docs
  BY DEF TypeOK
<1>0. doc \in Docs /\ task[a].copy \in Docs /\ NewDoc \in Docs
      /\ Consistent(NewDoc, status) /\ Consistent(NewDoc, status')
  BY NewDocIsConsistent DEF TypeOK
<1>1. CASE CreateAnalysis(a)
  <2> USE <1>1 DEF CreateAnalysis
  <2>1. TypeOK'
    BY <1>0 DEF TypeOK, NoTask, Statuses
  <2>2. \A d \in Docs : Consistent(d, status) => Consistent(d, status')
    <3>1. \A b \in Analyses : status[b] = "completed" => status'[b] = "completed"
      BY DEF TypeOK
    <3> QED BY <3>1, CompletedStays
  <2>3. \A b \in Analyses : task'[b].copy \in {task[b].copy, NewDoc}
    BY <1>0 DEF TypeOK, NoTask
  <2>4. \A b \in Analyses : status[b] = "completed" => status'[b] = "completed"
    BY DEF TypeOK
  <2>5. Consistent(doc, status)' /\ CopiesInv'
    BY <1>a, <1>0, <2>2, <2>3, <2>4 DEF CopiesInv
  <2> QED BY <2>1, <2>5
<1>2. CASE LoadProfile(a)
  <2> USE <1>2 DEF LoadProfile
  <2>1. TypeOK'
    BY DEF TypeOK
  <2>2. Consistent(doc, status)' /\ CopiesInv'
    BY DEF CopiesInv, Consistent, RefersTo, TypeOK
  <2> QED BY <2>1, <2>2
<1>3. CASE LoadJob(a)
  <2> USE <1>3 DEF LoadJob
  <2>1. TypeOK'
    BY DEF TypeOK
  <2>2. Consistent(doc, status)' /\ CopiesInv'
    BY DEF CopiesInv, Consistent, RefersTo, TypeOK
  <2> QED BY <2>1, <2>2
<1>4. CASE CompleteAnalysis(a)
  <2> USE <1>4 DEF CompleteAnalysis
  <2> DEFINE new == RecordRemeasurement(task[a].copy, a)
  <2>1. new \in Docs /\ Consistent(new, status')
    BY <1>0, RemeasurementIsConsistent DEF CopiesInv, TypeOK
  <2> HIDE DEF new
  <2>2. \A d \in Docs : Consistent(d, status) => Consistent(d, status')
    <3>1. \A b \in Analyses : status[b] = "completed" => status'[b] = "completed"
      BY DEF TypeOK
    <3> QED BY <3>1, CompletedStays
  <2>3. doc' = doc \/ doc' = new
    BY DEF Store, new
  <2>4. TypeOK'
    BY <1>0, <2>1, <2>3 DEF TypeOK, NoTask, Statuses
  <2>5. Consistent(doc, status)'
    BY <1>0, <2>1, <2>2, <2>3
  <2>6. \A b \in Analyses : task'[b].copy \in {task[b].copy, NewDoc}
    BY <1>0 DEF TypeOK, NoTask
  <2>7. \A b \in Analyses : status[b] = "completed" => status'[b] = "completed"
    BY DEF TypeOK
  <2>8. CopiesInv'
    BY <1>a, <1>0, <2>2, <2>6, <2>7 DEF CopiesInv
  <2> QED BY <2>4, <2>5, <2>8
<1>5. CASE FailAnalysis(a)
  <2> USE <1>5 DEF FailAnalysis
  <2>1. TypeOK'
    BY <1>0 DEF TypeOK, NoTask, Statuses
  <2>2. \A d \in Docs : Consistent(d, status) => Consistent(d, status')
    <3>1. \A b \in Analyses : status[b] = "completed" => status'[b] = "completed"
      BY DEF TypeOK
    <3> QED BY <3>1, CompletedStays
  <2>3. \A b \in Analyses : task'[b].copy \in {task[b].copy, NewDoc}
    BY <1>0 DEF TypeOK, NoTask
  <2>4. \A b \in Analyses : status[b] = "completed" => status'[b] = "completed"
    BY DEF TypeOK
  <2>5. Consistent(doc, status)' /\ CopiesInv'
    BY <1>a, <1>0, <2>2, <2>3, <2>4 DEF CopiesInv
  <2> QED BY <2>1, <2>5
<1>6. CASE LoseAnalysis(a)
  <2> USE <1>6 DEF LoseAnalysis
  <2>1. TypeOK'
    BY <1>0 DEF TypeOK, NoTask
  <2>2. Consistent(doc, status)' /\ CopiesInv'
    BY <1>0 DEF CopiesInv, Consistent, RefersTo, TypeOK, NoTask
  <2> QED BY <2>1, <2>2
<1> QED BY <1>1, <1>2, <1>3, <1>4, <1>5, <1>6 DEF RunStep

\* A step of a request keeps the invariant.
LEMMA RequestApp ==
  ASSUME AppInv, NEW r \in Requests, RequestStep(r)
  PROVE  AppInv'
<1> USE DEF AppInv, ProgressIsConsistent
<1>0. doc \in Docs /\ NewDoc \in Docs /\ Consistent(NewDoc, status)
      /\ Consistent(NewDoc, status')
      /\ req[r] \in [stage : {"idle", "indexing", "loading", "working"},
                     kind : Kinds, a : Maybe, copy : Docs, of : Nat]
  BY NewDocIsConsistent DEF TypeOK
<1>1. ASSUME NEW a \in Analyses, NEW kind \in {"optimization", "letter"},
             StartDraft(r, kind, a)
      PROVE  AppInv'
  <2> USE <1>1 DEF StartDraft
  <2>1. TypeOK'
    BY <1>0 DEF TypeOK, Kinds, Maybe
  <2>2. Consistent(doc, status)' /\ CopiesInv'
    BY <1>0 DEF CopiesInv, Consistent, RefersTo, TypeOK, Usable
  <2> QED BY <2>1, <2>2
<1>2. ASSUME NEW a \in Analyses, StartApply(r, a)
      PROVE  AppInv'
  <2> USE <1>2 DEF StartApply
  <2>1. TypeOK'
    BY <1>0 DEF TypeOK, Kinds, Maybe
  <2>2. Consistent(doc, status)' /\ CopiesInv'
    BY <1>0 DEF CopiesInv, Consistent, RefersTo, TypeOK
  <2> QED BY <2>1, <2>2
<1>3. CASE StartEdit(r)
  <2> USE <1>3 DEF StartEdit
  <2>1. TypeOK'
    BY <1>0 DEF TypeOK, NoReq, Kinds, Maybe
  <2>2. Consistent(doc, status)' /\ CopiesInv'
    BY <1>0 DEF CopiesInv, Consistent, RefersTo, TypeOK, NoReq
  <2> QED BY <2>1, <2>2
<1>4. CASE ApplyIndexed(r)
  <2> USE <1>4 DEF ApplyIndexed
  <2>1. TypeOK'
    BY <1>0 DEF TypeOK
  <2>2. Consistent(doc, status)' /\ CopiesInv'
    BY <1>0 DEF CopiesInv, Consistent, RefersTo, TypeOK
  <2> QED BY <2>1, <2>2
<1>5. CASE ApplyLoadsJob(r)
  <2> USE <1>5 DEF ApplyLoadsJob
  <2>1. TypeOK'
    BY <1>0 DEF TypeOK, NoReq, Kinds, Maybe
  <2>2. Consistent(doc, status)' /\ CopiesInv'
    BY <1>0 DEF CopiesInv, Consistent, RefersTo, TypeOK, NoReq, Usable
  <2> QED BY <2>1, <2>2
<1>6. CASE FinishRequest(r)
  <2> USE <1>6 DEF FinishRequest
  <2> DEFINE new == Written(req[r])
  <2>1. new \in Docs /\ Consistent(new, status)
    BY <1>0, WrittenIsConsistent DEF CopiesInv
  <2> HIDE DEF new
  <2>2. doc' = new
    BY DEF new
  <2>3. TypeOK'
    BY <1>0, <2>1, <2>2 DEF TypeOK, NoReq, Kinds, Maybe
  <2>4. Consistent(doc, status)'
    BY <2>1, <2>2 DEF Consistent, RefersTo
  <2>5. CopiesInv'
    BY <1>0 DEF CopiesInv, Consistent, RefersTo, TypeOK, NoReq
  <2> QED BY <2>3, <2>4, <2>5
<1>7. CASE AbandonRequest(r)
  <2> USE <1>7 DEF AbandonRequest
  <2>1. TypeOK'
    BY <1>0 DEF TypeOK, NoReq, Kinds, Maybe
  <2>2. Consistent(doc, status)' /\ CopiesInv'
    BY <1>0 DEF CopiesInv, Consistent, RefersTo, TypeOK, NoReq
  <2> QED BY <2>1, <2>2
<1> QED BY <1>1, <1>2, <1>3, <1>4, <1>5, <1>6, <1>7 DEF RequestStep

LEMMA NextApp == AppInv /\ [Next]_vars => AppInv'
<1> SUFFICES ASSUME AppInv, [Next]_vars PROVE AppInv'
  OBVIOUS
<1> USE DEF AppInv, ProgressIsConsistent
<1>0. NewDoc \in Docs
  BY NewDocIsConsistent
<1>1. CASE EditResume
  <2>1. TypeOK'
    BY <1>1 DEF EditResume, TypeOK
  <2>2. Consistent(doc, status)' /\ CopiesInv'
    BY <1>1 DEF EditResume, CopiesInv, Consistent, RefersTo
  <2> QED BY <2>1, <2>2
<1>2. CASE Restart
  <2>1. TypeOK'
    BY <1>0, <1>2 DEF Restart, TypeOK, NoTask, NoReq, Kinds, Maybe
  <2>2. Consistent(doc, status)' /\ CopiesInv'
    BY <1>2, NewDocIsConsistent
       DEF Restart, CopiesInv, Consistent, RefersTo, NoTask, NoReq
  <2> QED BY <2>1, <2>2
<1>3. CASE UNCHANGED vars
  BY <1>3 DEF vars, TypeOK, CopiesInv, Consistent, RefersTo
<1> QED BY <1>1, <1>2, <1>3, RunApp, RequestApp DEF Next

\* The strengthened invariant, and with it the two the runs check.
THEOREM AppIsConsistent == Spec => []AppInv
BY InitApp, NextApp, PTL DEF Spec

\* Rows, documents and copies keep their shape, whatever is in flight.
THEOREM AppTypeCorrect == Spec => []TypeOK
<1>1. AppInv => TypeOK
  BY DEF AppInv
<1> QED BY <1>1, AppIsConsistent, PTL

\* The document refers to completed analyses only, however many requests, runs,
\* edits and restarts overlap.
THEOREM ProgressStaysConsistent == Spec => []ProgressIsConsistent
<1>1. AppInv => ProgressIsConsistent
  BY DEF AppInv
<1> QED BY <1>1, AppIsConsistent, PTL

(***************************************************************************)
(* What is measured                                                        *)
(***************************************************************************)

\* The document and every copy of it somebody may write back.
InUse == {doc} \cup {task[a].copy : a \in Analyses}
               \cup {req[r].copy : r \in Requests}

Measured(d) ==
  d.remeasured \notin {None} \cup overtaken => basis[d.remeasured] >= d.of

\* No copy knows of suggestions that are not in the resume; while a run is between
\* its loads, none knows of any that are not in what it has loaded.
TailorInv ==
  /\ \A d \in InUse : d.of <= resume /\ Measured(d)
  /\ \A r \in Requests : req[r].of <= resume
  /\ \A a \in Analyses \ overtaken :
       /\ task[a].stage = "loading" => \A d \in InUse : d.of <= basis[a]
       /\ task[a].stage = "analyzing" => task[a].copy.of <= basis[a]

LEMMA InUseAreDocs ==
  ASSUME TypeOK PROVE InUse \subseteq Docs /\ \A d \in Docs : d.of \in Nat
BY DEF TypeOK, InUse, Docs

LEMMA NewDocIsMeasured == NewDoc.of = 0 /\ NewDoc.remeasured = None
BY DEF NewDoc

\* A step is safe if each document it leaves in use was in use, is new, or obeys
\* the invariant of its own.
LEMMA CopyingIsSafe ==
  ASSUME TypeOK, TailorInv, resume' \in Nat, resume <= resume',
         basis' = basis, overtaken \subseteq overtaken',
         \A d \in InUse' :
           \/ d \in InUse \cup {NewDoc}
           \/ /\ d.of <= resume' /\ Measured(d)'
              /\ \A a \in Analyses \ overtaken' :
                   task'[a].stage = "loading" => d.of <= basis[a],
         \A r \in Requests : req'[r].of <= resume',
         \A a \in Analyses :
           /\ task'[a].stage = "loading" => task[a].stage = "loading"
           /\ task'[a].stage = "analyzing" =>
                \/ task'[a] = task[a]
                \/ task[a].stage = "loading" /\ task'[a].copy \in InUse
  PROVE  TailorInv'
<1>1. /\ resume \in Nat /\ \A d \in InUse : d.of \in Nat
      /\ \A a \in Analyses : basis[a] \in Nat
  BY InUseAreDocs, BoundAssumption DEF TypeOK
<1>2. NewDoc.of = 0 /\ NewDoc.remeasured = None
  BY NewDocIsMeasured
<1>3. \A d \in InUse \cup {NewDoc} : d.of <= resume' /\ Measured(d)'
  BY <1>1, <1>2 DEF TailorInv, Measured
<1>4. \A a \in Analyses \ overtaken' : task'[a].stage = "loading" =>
        \A d \in InUse' : d.of <= basis'[a]
  BY <1>1, <1>2 DEF TailorInv
<1>5. \A a \in Analyses \ overtaken' :
        task'[a].stage = "analyzing" => task'[a].copy.of <= basis'[a]
  BY DEF TailorInv
<1> QED BY <1>3, <1>4, <1>5 DEF TailorInv

LEMMA InitTailor == Init => TailorInv
BY NewDocIsMeasured, BoundAssumption
   DEF Init, TailorInv, InUse, Measured, NoTask, NoReq

\* A run that loads the resume has all the suggestions anybody knows of.
LEMMA LoadTailor ==
  ASSUME AppInv, TailorInv, NEW a \in Analyses, LoadProfile(a)
  PROVE  TailorInv'
<1>1. TypeOK
  BY DEF AppInv
<1>2. \A d \in InUse : Consistent(d, status) /\ d.of \in Nat /\ d \in Docs
  BY <1>1, InUseAreDocs DEF AppInv, ProgressIsConsistent, CopiesInv, InUse
<1>3. status[a] = "pending"
  BY <1>1 DEF LoadProfile, TypeOK
<1>4. \A d \in InUse : d.remeasured # a
  BY <1>2, <1>3, RowsAssumption DEF Consistent, RefersTo
<1>5. \A b \in Analyses : task'[b].copy = task[b].copy
  BY <1>1 DEF LoadProfile, TypeOK
<1>6. InUse' = InUse /\ UNCHANGED <<resume, req, overtaken>>
  BY <1>5 DEF LoadProfile, InUse
<1>7. /\ \A b \in Analyses \ {a} : basis'[b] = basis[b] /\ task'[b] = task[b]
      /\ basis'[a] = resume /\ task'[a].stage = "loading"
  BY <1>1 DEF LoadProfile, TypeOK
<1>8. \A d \in InUse : d.remeasured \in Maybe
  BY <1>2 DEF Docs
<1>9. \A d \in InUse : Measured(d)'
  BY <1>4, <1>6, <1>7, <1>8 DEF TailorInv, Measured, Maybe
<1> QED BY <1>6, <1>7, <1>9 DEF TailorInv

LEMMA CompleteTailor ==
  ASSUME AppInv, TailorInv, NEW a \in Analyses, CompleteAnalysis(a)
  PROVE  TailorInv'
<1> DEFINE new == RecordRemeasurement(task[a].copy, a)
<1>1. TypeOK /\ resume \in Nat
  BY BoundAssumption DEF AppInv, TypeOK
<1>2. task[a].copy \in InUse /\ task[a].copy \in Docs /\ basis[a] \in Nat
  BY <1>1 DEF InUse, TypeOK
<1>3. new.of = task[a].copy.of /\ new.remeasured \in {task[a].copy.remeasured, a}
  BY <1>2 DEF RecordRemeasurement, Docs
<1>4. task[a].stage = "analyzing"
  BY DEF CompleteAnalysis
<1>5. Measured(new) /\ new.of <= resume
  BY <1>2, <1>3, <1>4 DEF TailorInv, Measured
<1>6. \A b \in Analyses \ overtaken : task[b].stage = "loading" => new.of <= basis[b]
  BY <1>2, <1>3 DEF TailorInv
<1>7. /\ task' = [task EXCEPT ![a] = NoTask]
      /\ UNCHANGED <<resume, req, basis, overtaken>>
      /\ doc' \in {doc, new}
  BY DEF CompleteAnalysis, Store
<1>8. /\ task'[a] = NoTask /\ NoTask.copy = NewDoc /\ NoTask.stage = "none"
      /\ \A b \in Analyses \ {a} : task'[b] = task[b]
  BY <1>1, <1>7 DEF TypeOK, NoTask
<1> HIDE DEF new
<1>9. InUse' \subseteq InUse \cup {NewDoc, new}
  BY <1>7, <1>8 DEF InUse
<1>10. \A d \in InUse' :
         \/ d \in InUse \cup {NewDoc}
         \/ /\ d.of <= resume' /\ Measured(d)'
            /\ \A b \in Analyses \ overtaken' :
                 task'[b].stage = "loading" => d.of <= basis[b]
  <2> SUFFICES ASSUME NEW d, d = new
               PROVE  /\ d.of <= resume' /\ Measured(d)'
                      /\ \A b \in Analyses \ overtaken' :
                           task'[b].stage = "loading" => d.of <= basis[b]
    BY <1>9
  <2>1. Measured(d)'
    BY <1>5, <1>7 DEF Measured
  <2> QED BY <1>5, <1>6, <1>7, <1>8, <2>1
<1> QED BY <1>1, <1>7, <1>8, <1>10, CopyingIsSafe DEF TailorInv

\* What a request writes when the document is what it loaded.
LEMMA WrittenKeeps ==
  ASSUME NEW q \in [stage : {"idle", "indexing", "loading", "working"},
                    kind : Kinds, a : Maybe, copy : Docs, of : Nat],
         q.kind # "edit" => q.a \in Analyses
  PROVE  LET d == q.copy
             new == Written(q)
         IN  /\ d.done \subseteq new.done
             /\ \A s \in Steps : d.artifact[s] # None => new.artifact[s] # None
             /\ IF q.kind = "apply"
                THEN new.of = q.of /\ new.remeasured = None /\ new.awaiting
                ELSE /\ new.of = d.of /\ new.remeasured = d.remeasured
                     /\ new.awaiting = d.awaiting
<1>0. q.copy \in Docs /\ q.of \in Nat
  OBVIOUS
<1>1. CASE q.kind = "optimization"
  <2>1. Written(q) = SaveArtifact(MarkStep(q.copy, "resume"), "resume", q.a)
    BY <1>1 DEF Written
  <2> QED BY <1>0, <1>1, <2>1 DEF SaveArtifact, MarkStep, Docs, Steps
<1>2. CASE q.kind = "letter"
  <2>1. Written(q) = SaveArtifact(MarkStep(q.copy, "cover_letter"),
                                  "cover_letter", q.a)
    BY <1>2 DEF Written
  <2> QED BY <1>0, <1>2, <2>1 DEF SaveArtifact, MarkStep, Docs, Steps
<1>3. CASE q.kind = "apply"
  <2>1. Written(q) = MarkResumeApplied(q.copy, q.a, q.of)
    BY <1>3 DEF Written
  <2> QED BY <1>0, <1>3, <2>1 DEF MarkResumeApplied, Docs
<1>4. CASE q.kind = "edit"
  BY <1>0, <1>4 DEF Written
<1> QED BY <1>1, <1>2, <1>3, <1>4 DEF Kinds

LEMMA FinishTailor ==
  ASSUME AppInv, TailorInv, NEW r \in Requests, FinishRequest(r)
  PROVE  TailorInv'
<1> DEFINE new == Written(req[r])
<1>1. TypeOK /\ resume \in Nat
  BY BoundAssumption DEF AppInv, TypeOK
<1>2. /\ req[r] \in [stage : {"idle", "indexing", "loading", "working"},
                     kind : Kinds, a : Maybe, copy : Docs, of : Nat]
      /\ req[r].kind # "edit" => req[r].a \in Analyses
      /\ req[r].copy \in InUse
  BY <1>1 DEF AppInv, TypeOK, CopiesInv, InUse
<1>3. IF req[r].kind = "apply"
      THEN new.of = req[r].of /\ new.remeasured = None
      ELSE new.of = req[r].copy.of /\ new.remeasured = req[r].copy.remeasured
  BY <1>2, WrittenKeeps
<1> HIDE DEF new
<1>4. /\ doc' = new /\ req' = [req EXCEPT ![r] = NoReq]
      /\ UNCHANGED <<resume, task, basis>> /\ overtaken \subseteq overtaken'
      /\ req[r].kind = "apply" => \A a \in Analyses :
           task[a].stage = "loading" => a \in overtaken'
  BY DEF FinishRequest, new
<1>5. /\ req'[r] = NoReq /\ NoReq.copy = NewDoc /\ NoReq.of = 0
      /\ \A q \in Requests \ {r} : req'[q] = req[q]
  BY <1>1, <1>4 DEF TypeOK, NoReq
<1>6. InUse' \subseteq InUse \cup {NewDoc, new}
  BY <1>4, <1>5 DEF InUse
<1>7. ASSUME NEW d, d = new
      PROVE  /\ d.of <= resume' /\ Measured(d)'
             /\ \A a \in Analyses \ overtaken' :
                  task'[a].stage = "loading" => d.of <= basis[a]
  <2>1. CASE req[r].kind = "apply"
    BY <1>3, <1>4, <1>7, <2>1 DEF TailorInv, Measured
  <2>2. CASE req[r].kind # "apply"
    <3>1. d.of = req[r].copy.of /\ d.remeasured = req[r].copy.remeasured
      BY <1>3, <1>7, <2>2
    <3>2. Measured(d)'
      BY <1>2, <1>4, <3>1 DEF TailorInv, Measured
    <3>3. d.of <= resume'
      BY <1>2, <1>4, <3>1 DEF TailorInv
    <3> QED BY <1>2, <1>4, <3>1, <3>2, <3>3 DEF TailorInv
  <2> QED BY <2>1, <2>2
<1>8. \A q \in Requests : req'[q].of <= resume'
  BY <1>1, <1>4, <1>5 DEF TailorInv
<1>9. \A d \in InUse' :
        \/ d \in InUse \cup {NewDoc}
        \/ /\ d.of <= resume' /\ Measured(d)'
           /\ \A a \in Analyses \ overtaken' :
                task'[a].stage = "loading" => d.of <= basis[a]
  BY <1>6, <1>7
<1> QED BY <1>1, <1>4, <1>8, <1>9, CopyingIsSafe

LEMMA NextTailor ==
  ASSUME AppInv, TailorInv, [Next]_vars
  PROVE  TailorInv'
<1>0. TypeOK /\ resume \in Nat /\ MaxEdits \in Nat
      /\ NoTask.copy = NewDoc /\ NoTask.stage = "none"
      /\ NoReq.copy = NewDoc /\ NoReq.of = 0
  BY BoundAssumption DEF AppInv, TypeOK, NoTask, NoReq
<1>1. ASSUME NEW a \in Analyses, CreateAnalysis(a)
      PROVE  TailorInv'
  <2>1. /\ UNCHANGED <<doc, resume, req, basis, overtaken>>
        /\ task'[a].stage = "queued" /\ task'[a].copy = NewDoc
        /\ \A b \in Analyses \ {a} : task'[b] = task[b]
    BY <1>0, <1>1 DEF CreateAnalysis, TypeOK, NoTask
  <2>2. InUse' \subseteq InUse \cup {NewDoc}
    BY <2>1 DEF InUse
  <2> QED BY <1>0, <2>1, <2>2, CopyingIsSafe DEF TailorInv
<1>2. ASSUME NEW a \in Analyses, LoadJob(a)
      PROVE  TailorInv'
  <2>1. /\ UNCHANGED <<doc, resume, req, basis, overtaken>>
        /\ task[a].stage = "loading"
        /\ task'[a].stage = "analyzing" /\ task'[a].copy = doc
        /\ \A b \in Analyses \ {a} : task'[b] = task[b]
    BY <1>0, <1>2 DEF LoadJob, TypeOK
  <2>2. InUse' \subseteq InUse \cup {NewDoc} /\ doc \in InUse
    BY <2>1 DEF InUse
  <2> QED BY <1>0, <2>1, <2>2, CopyingIsSafe DEF TailorInv
<1>3. ASSUME NEW a \in Analyses, FailAnalysis(a) \/ LoseAnalysis(a)
      PROVE  TailorInv'
  <2>1. /\ UNCHANGED <<doc, resume, req, basis, overtaken>>
        /\ task'[a] = NoTask
        /\ \A b \in Analyses \ {a} : task'[b] = task[b]
    BY <1>0, <1>3 DEF FailAnalysis, LoseAnalysis, TypeOK
  <2>2. InUse' \subseteq InUse \cup {NewDoc}
    BY <1>0, <2>1 DEF InUse
  <2> QED BY <1>0, <2>1, <2>2, CopyingIsSafe DEF TailorInv
\* A request starts, goes on or is given up.
<1>4. ASSUME NEW r \in Requests, UNCHANGED <<doc, task, basis, overtaken>>,
             resume' \in Nat, resume <= resume',
             \A q \in Requests \ {r} : req'[q] = req[q],
             req'[r].copy \in {doc, NewDoc, req[r].copy},
             req'[r].of \in {0, resume', req[r].of}
      PROVE  TailorInv'
  <2>1. InUse' \subseteq InUse \cup {NewDoc}
    BY <1>4 DEF InUse
  <2>2. \A q \in Requests : req[q].of \in Nat /\ req[q].of <= resume
    BY <1>0 DEF TypeOK, TailorInv
  <2>3. \A q \in Requests : req'[q].of <= resume'
    BY <1>0, <1>4, <2>2
  <2> QED BY <1>0, <1>4, <2>1, <2>3, CopyingIsSafe
<1>5. ASSUME NEW r \in Requests, NEW a \in Analyses,
             NEW kind \in {"optimization", "letter"}, StartDraft(r, kind, a)
      PROVE  TailorInv'
  BY <1>0, <1>4, <1>5 DEF StartDraft, TypeOK
<1>6. ASSUME NEW r \in Requests, StartEdit(r)
      PROVE  TailorInv'
  BY <1>0, <1>4, <1>6 DEF StartEdit, TypeOK, NoReq
<1>7. ASSUME NEW r \in Requests, NEW a \in Analyses, StartApply(r, a)
      PROVE  TailorInv'
  BY <1>0, <1>4, <1>7 DEF StartApply, TypeOK
<1>8. ASSUME NEW r \in Requests, ApplyIndexed(r)
      PROVE  TailorInv'
  BY <1>0, <1>4, <1>8 DEF ApplyIndexed, TypeOK
<1>9. ASSUME NEW r \in Requests, ApplyLoadsJob(r)
      PROVE  TailorInv'
  BY <1>0, <1>4, <1>9 DEF ApplyLoadsJob, TypeOK
<1>10. ASSUME NEW r \in Requests, AbandonRequest(r)
       PROVE  TailorInv'
  BY <1>0, <1>4, <1>10 DEF AbandonRequest, TypeOK
<1>11. CASE EditResume
  <2>1. InUse' = InUse /\ UNCHANGED <<task, req, basis, overtaken>>
    BY <1>11 DEF EditResume, InUse
  <2>2. resume' \in Nat /\ resume <= resume'
    BY <1>0, <1>11 DEF EditResume
  <2>3. \A r \in Requests : req[r].of \in Nat /\ req'[r].of <= resume'
    BY <1>0, <2>1, <2>2 DEF TypeOK, TailorInv
  <2> QED BY <1>0, <2>1, <2>2, <2>3, CopyingIsSafe
<1>12. CASE Restart
  <2>1. /\ UNCHANGED <<doc, resume, basis, overtaken>>
        /\ \A a \in Analyses : task'[a] = NoTask
        /\ \A r \in Requests : req'[r] = NoReq
    BY <1>12 DEF Restart
  <2>2. InUse' \subseteq InUse \cup {NewDoc}
    BY <1>0, <2>1 DEF InUse
  <2> QED BY <1>0, <2>1, <2>2, CopyingIsSafe
<1>13. CASE UNCHANGED vars
  BY <1>13 DEF vars, TailorInv, InUse, Measured
<1> QED BY <1>1, <1>2, <1>3, <1>5, <1>6, <1>7, <1>8, <1>9, <1>10, <1>11, <1>12,
           <1>13, LoadTailor, CompleteTailor, FinishTailor
        DEF Next, RunStep, RequestStep

LEMMA TailorIsInvariant == Spec => [](AppInv /\ TailorInv)
<1>1. Init => AppInv /\ TailorInv
  BY InitApp, InitTailor
<1>2. AppInv /\ TailorInv /\ [Next]_vars => (AppInv /\ TailorInv)'
  BY NextApp, NextTailor
<1> QED BY <1>1, <1>2, PTL DEF Spec

\* However many requests, runs, edits and restarts overlap, and whatever stale
\* copies of the document they write back, the improvement shown is measured on a
\* resume the suggestions are in, unless they were applied between the run's loads.
THEOREM ImprovementIsMeasured == Spec => []RemeasuredAfterTailoring
<1>1. TailorInv => RemeasuredAfterTailoring
  BY DEF TailorInv, InUse, Measured, RemeasuredAfterTailoring
<1> QED BY <1>1, TailorIsInvariant, PTL

(***************************************************************************)
(* What is kept                                                            *)
(***************************************************************************)

\* No write of a run or request that has the document as it is takes back a step, a
\* draft, a measurement or the wait for one.
THEOREM CurrentWritesAreKept == Spec => CurrentWritesKeepProgress
<1> DEFINE Current ==
      /\ \A a \in Analyses : CompleteAnalysis(a) => task[a].copy = doc
      /\ \A r \in Requests : FinishRequest(r) => req[r].copy = doc
<1>1. ASSUME AppInv, [Next]_vars PROVE [Current => Kept]_doc
  <2>0. doc \in Docs /\ None \notin Analyses
    BY <1>1, RowsAssumption DEF AppInv, TypeOK
  <2>1. ASSUME NEW a \in Analyses, CompleteAnalysis(a), Current
        PROVE  [Kept]_doc
    <3>1. task[a].copy = doc
      BY <2>1
    <3>2. doc.remeasured # None => ~doc.awaiting
      BY <1>1 DEF AppInv, ProgressIsConsistent, Consistent
    <3>3. CASE doc.awaiting /\ doc.baseline # a
      <4>1. doc' \in {doc, [doc EXCEPT !.awaiting = FALSE, !.remeasured = a]}
        BY <2>1, <3>1, <3>3 DEF CompleteAnalysis, Store, RecordRemeasurement
      <4> QED BY <2>0, <3>2, <3>3, <4>1 DEF Kept, Docs
    <3>4. CASE ~(doc.awaiting /\ doc.baseline # a)
      BY <2>1, <3>1, <3>4 DEF CompleteAnalysis, Store, RecordRemeasurement
    <3> QED BY <3>3, <3>4
  <2>2. ASSUME NEW r \in Requests, FinishRequest(r), Current
        PROVE  [Kept]_doc
    <3>1. req[r].copy = doc /\ doc' = Written(req[r])
      BY <2>2 DEF FinishRequest
    <3>2. /\ req[r] \in [stage : {"idle", "indexing", "loading", "working"},
                         kind : Kinds, a : Maybe, copy : Docs, of : Nat]
          /\ req[r].kind # "edit" => req[r].a \in Analyses
      BY <1>1 DEF AppInv, TypeOK, CopiesInv
    <3> QED BY <3>1, <3>2, WrittenKeeps DEF Kept
  <2>3. (\A a \in Analyses : ~CompleteAnalysis(a))
          /\ (\A r \in Requests : ~FinishRequest(r)) => doc' = doc
    BY <1>1 DEF Next, RunStep, RequestStep, CreateAnalysis, LoadProfile, LoadJob,
                FailAnalysis, LoseAnalysis, StartDraft, StartApply, StartEdit,
                ApplyIndexed, ApplyLoadsJob, AbandonRequest, EditResume, Restart,
                vars
  <2> HIDE DEF Current
  <2> QED BY <2>1, <2>2, <2>3
<1>2. CurrentWritesKeepProgress <=> [][Current => Kept]_doc
  BY PTL DEF CurrentWritesKeepProgress
<1> QED BY <1>1, <1>2, AppIsConsistent, PTL DEF Spec
=============================================================================
