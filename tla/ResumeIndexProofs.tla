------------------------- MODULE ResumeIndexProofs -------------------------
(***************************************************************************)
(* Theorems of ResumeIndex, for any chunks, versions and writers.          *)
(*                                                                         *)
(* VersionsAreWhole alone is not inductive: a commit replaces the rows its *)
(* DELETE met by the rows it inserted, so both sets must be whole versions *)
(* and stay so while others commit.                                        *)
(***************************************************************************)
EXTENDS ResumeIndex, TLAPS

HasDeleted == {"inserting", "inserted"}
Deleting   == {"deleting"} \cup HasDeleted

\* A row is a chunk of its version, and comes with the others.
RowsAreWhole ==
  \A c \in Present :
    c \in ChunksOf[rows[c]] /\ \A d \in ChunksOf[rows[c]] : rows[d] = rows[c]

\* What a DELETE has met is rows, and whole versions of them.
GoneIsWhole ==
  \A w \in Writers : txn[w].stage \in Deleting =>
    \A c \in txn[w].gone : c \in Present /\ ChunksOf[rows[c]] \subseteq txn[w].gone

\* Nobody deletes a row somebody else is deleting, ...
LocksAreExclusive ==
  \A w, o \in Writers : w # o => Deleted(w) \cap Deleted(o) = {}

\* ... or inserts a key somebody else is inserting, or one that stays.
KeysAreExclusive ==
  /\ \A w, o \in Writers : w # o => Inserted(w) \cap Inserted(o) = {}
  /\ \A w \in Writers : Inserted(w) \cap (Present \ txn[w].gone) = {}

IInv == TypeOK /\ RowsAreWhole /\ GoneIsWhole /\ LocksAreExclusive /\ KeysAreExclusive

LEMMA InitIsWhole == Init => IInv
<1>1. SUFFICES ASSUME Init PROVE IInv
  OBVIOUS
<1>2. TypeOK
  <2>1. \A v \in 1..MaxVersion : v \in 0..MaxVersion
    BY VersionAssumption
  <2>2. 1 \in 1..MaxVersion /\ 0 \in 0..MaxVersion /\ 0 \in 0..MaxMishaps
    BY VersionAssumption
  <2>3. rows \in [Chunks -> Versions]
    BY <1>1, <2>1, <2>2 DEF Init, Versions
  <2>4. txn \in [Writers -> [stage : Stages, v : Versions, gone : SUBSET Chunks,
                             save : BOOLEAN]]
    BY <1>1, <2>2 DEF Init, IdleTxn, At, Versions, Stages
  <2>5. \A w \in Writers : txn[w].v = 0 /\ txn[w].stage = "idle"
    BY <1>1 DEF Init, IdleTxn, At
  <2>6. resume = 1 /\ met = {} /\ mishaps = 0
    BY <1>1 DEF Init
  <2>7. QED
    BY <2>2, <2>3, <2>4, <2>5, <2>6, VersionAssumption DEF TypeOK
<1>3. RowsAreWhole
  BY <1>1, VersionAssumption DEF Init, RowsAreWhole, Present
<1>4. GoneIsWhole /\ LocksAreExclusive /\ KeysAreExclusive
  BY <1>1 DEF Init, IdleTxn, At, GoneIsWhole, LocksAreExclusive, KeysAreExclusive,
              Deleting, HasDeleted, Deleted, Inserted
<1>5. QED
  BY <1>2, <1>3, <1>4 DEF IInv

\* A writer that stops, starts over or has only begun holds nothing: such a step
\* takes rows and locks from nobody.
LEMMA LettingGoIsSafe ==
  ASSUME IInv, TypeOK', rows' = rows,
         \A w \in Writers : \/ txn'[w] = txn[w]
                            \/ txn'[w].stage \in {"idle", "saved", "loaded", "missing"}
  PROVE  IInv'
<1>1. RowsAreWhole'
  BY DEF IInv, RowsAreWhole, Present
<1>2. GoneIsWhole'
  BY DEF IInv, GoneIsWhole, Present, Deleting, HasDeleted
<1>3. \A w \in Writers : Deleted(w)' \in {Deleted(w), {}} /\ Inserted(w)' \in {Inserted(w), {}}
  BY DEF Deleted, Inserted
<1>4. LocksAreExclusive'
  BY <1>3 DEF IInv, LocksAreExclusive
<1>5. KeysAreExclusive'
  <2>1. \A w, o \in Writers : w # o => Inserted(w)' \cap Inserted(o)' = {}
    BY <1>3 DEF IInv, KeysAreExclusive
  <2>2. \A w \in Writers : Inserted(w)' # {} => txn'[w] = txn[w]
    BY DEF Inserted
  <2>3. \A w \in Writers : (Inserted(w) \cap (Present \ txn[w].gone) = {})'
    BY <2>2, <1>3 DEF IInv, KeysAreExclusive, Present
  <2>4. QED
    BY <2>1, <2>3 DEF KeysAreExclusive
<1>6. QED
  BY <1>1, <1>2, <1>4, <1>5 DEF IInv

\* Every step keeps the shape of the state.
LEMMA TypeIsKept == TypeOK /\ [Next]_vars => TypeOK'
<1> SUFFICES ASSUME TypeOK, [Next]_vars PROVE TypeOK'
  OBVIOUS
<1> USE VersionAssumption DEF TypeOK, Versions, Stages, IdleTxn, At, Meets
<1>1. CASE UNCHANGED vars
  BY <1>1 DEF vars
<1>2. CASE Restart
  BY <1>2 DEF Restart, Mishap
<1>3. ASSUME NEW w \in Writers, WriterStep(w) PROVE TypeOK'
  <2>1. CASE SaveResume(w)
    <3>1. /\ resume' = resume + 1 /\ resume' \in 1..MaxVersion
          /\ UNCHANGED <<rows, mishaps>>
      BY <2>1 DEF SaveResume
    <3>2. txn' = [txn EXCEPT ![w] = At("saved", 0, TRUE)]
      BY <2>1 DEF SaveResume
    <3>3. \A o \in Writers : txn'[o].v <= resume'
      BY <3>1, <3>2
    <3>4. met' \in SUBSET Writers
      BY <2>1 DEF SaveResume
    <3>5. QED
      BY <3>1, <3>2, <3>3, <3>4
  <2>2. CASE RefreshResume(w)
    <3>1. txn' = [txn EXCEPT ![w] = At("loaded", resume, TRUE)]
      BY <2>2 DEF RefreshResume
    <3>2. txn'[w].v = resume /\ \A o \in Writers \ {w} : txn'[o] = txn[o]
      BY <3>1
    <3>3. txn' \in [Writers -> [stage : Stages, v : Versions, gone : SUBSET Chunks,
                                save : BOOLEAN]]
      BY <3>1
    <3>4. QED
      BY <2>2, <3>2, <3>3 DEF RefreshResume
  <2>3. CASE StartRun(w)
    <3>1. txn' = [txn EXCEPT ![w] = At("loaded", resume, FALSE)]
      BY <2>3 DEF StartRun
    <3>2. txn'[w].v = resume /\ \A o \in Writers \ {w} : txn'[o] = txn[o]
      BY <3>1
    <3>3. txn' \in [Writers -> [stage : Stages, v : Versions, gone : SUBSET Chunks,
                                save : BOOLEAN]]
      BY <3>1
    <3>4. QED
      BY <2>3, <3>2, <3>3 DEF StartRun
  <2>4. CASE FindIndex(w)
    BY <2>4 DEF FindIndex
  <2>5. CASE StartDelete(w)
    BY <2>5 DEF StartDelete, ToIndex, Present
  <2>6. CASE FinishDelete(w)
    BY <2>6 DEF FinishDelete
  <2>7. CASE InsertRows(w)
    BY <2>7 DEF InsertRows
  <2>8. CASE InsertFails(w)
    BY <2>8 DEF InsertFails
  <2>9. CASE CommitIndex(w)
    <3>1. rows' \in [Chunks -> 0..MaxVersion]
      BY <2>9 DEF CommitIndex, RowsAfter
    <3>2. Skipped(w) \in [Writers -> [stage : Stages, v : Versions,
                                      gone : SUBSET Chunks, save : BOOLEAN]]
      BY DEF Skipped
    <3>3. \A o \in Writers : /\ Skipped(w)[o].v = txn[o].v
                             /\ Skipped(w)[o].stage = txn[o].stage
      BY DEF Skipped
    <3>4. txn' = [Skipped(w) EXCEPT ![w] = IdleTxn]
      BY <2>9 DEF CommitIndex
    <3>5. QED
      BY <2>9, <3>1, <3>2, <3>3, <3>4 DEF CommitIndex
  <2>10. CASE RollBack(w)
    BY <2>10 DEF RollBack
  <2>11. CASE EmbedderFails(w)
    BY <2>11 DEF EmbedderFails, Mishap
  <2>12. CASE CommitFailure(w)
    <3>1. rows' \in [Chunks -> 0..MaxVersion]
      BY <2>12 DEF CommitFailure
    <3>2. Skipped(w) \in [Writers -> [stage : Stages, v : Versions,
                                      gone : SUBSET Chunks, save : BOOLEAN]]
      BY DEF Skipped
    <3>3. \A o \in Writers : /\ Skipped(w)[o].v = txn[o].v
                             /\ Skipped(w)[o].stage = txn[o].stage
      BY DEF Skipped
    <3>4. txn' = [Skipped(w) EXCEPT ![w] = IdleTxn]
      BY <2>12 DEF CommitFailure
    <3>5. mishaps' \in 0..MaxMishaps
      BY <2>12 DEF CommitFailure
    <3>6. QED
      BY <2>12, <3>1, <3>2, <3>3, <3>4, <3>5 DEF CommitFailure
  <2>13. QED
    BY <1>3, <2>1, <2>2, <2>3, <2>4, <2>5, <2>6, <2>7, <2>8, <2>9, <2>10, <2>11, <2>12
    DEF WriterStep
<1>4. QED
  BY <1>1, <1>2, <1>3 DEF Next

LEMMA StartDeleteIsSafe ==
  ASSUME IInv, TypeOK', NEW w \in Writers, StartDelete(w)
  PROVE  IInv'
<1>1. /\ rows' = rows /\ Present' = Present
      /\ \A o \in Writers \ {w} : txn'[o] = txn[o]
      /\ txn'[w].stage = "deleting" /\ txn'[w].gone = Present
  BY DEF StartDelete, IInv, TypeOK, Present
<1>2. Deleted(w)' = {} /\ Inserted(w)' = {}
  BY <1>1 DEF Deleted, Inserted
<1>3. \A o \in Writers \ {w} : Deleted(o)' = Deleted(o) /\ Inserted(o)' = Inserted(o)
  BY <1>1 DEF Deleted, Inserted
<1>4. RowsAreWhole'
  BY <1>1 DEF IInv, RowsAreWhole
<1>5. ASSUME NEW c \in Present PROVE ChunksOf[rows[c]] \subseteq Present
  <2>1. rows[c] \in 1..MaxVersion /\ c \in Chunks
    BY VersionAssumption DEF Present, IInv, TypeOK, Versions
  <2>2. ChunksOf[rows[c]] \subseteq Chunks
    BY <2>1, VersionAssumption
  <2>3. \A d \in ChunksOf[rows[c]] : rows[d] = rows[c]
    BY DEF IInv, RowsAreWhole
  <2>4. QED
    BY <2>1, <2>2, <2>3 DEF Present
<1>6. GoneIsWhole'
  BY <1>1, <1>5 DEF IInv, GoneIsWhole
<1>7. LocksAreExclusive'
  BY <1>2, <1>3 DEF IInv, LocksAreExclusive
<1>8. KeysAreExclusive'
  BY <1>1, <1>2, <1>3 DEF IInv, KeysAreExclusive
<1>9. QED
  BY <1>4, <1>6, <1>7, <1>8 DEF IInv

LEMMA FinishDeleteIsSafe ==
  ASSUME IInv, TypeOK', NEW w \in Writers, FinishDelete(w)
  PROVE  IInv'
<1>1. /\ rows' = rows /\ Present' = Present
      /\ \A o \in Writers \ {w} : txn'[o] = txn[o]
      /\ txn[w].stage = "deleting" /\ txn'[w].stage = "inserting"
      /\ txn'[w].gone = txn[w].gone
  BY DEF FinishDelete, IInv, TypeOK, Present
<1>2. Deleted(w)' = txn[w].gone /\ Inserted(w)' = {}
  BY <1>1 DEF Deleted, Inserted
<1>3. \A o \in Writers \ {w} : Deleted(o)' = Deleted(o) /\ Inserted(o)' = Inserted(o)
  BY <1>1 DEF Deleted, Inserted
<1>4. RowsAreWhole'
  BY <1>1 DEF IInv, RowsAreWhole
<1>5. GoneIsWhole'
  BY <1>1 DEF IInv, GoneIsWhole, Deleting
<1>6. LocksAreExclusive'
  <2>1. \A o \in Writers \ {w} : Deleted(o) \cap txn[w].gone = {}
    BY DEF FinishDelete
  <2>2. QED
    BY <1>2, <1>3, <2>1 DEF IInv, LocksAreExclusive
<1>7. KeysAreExclusive'
  BY <1>1, <1>2, <1>3 DEF IInv, KeysAreExclusive
<1>8. QED
  BY <1>4, <1>5, <1>6, <1>7 DEF IInv

LEMMA InsertIsSafe ==
  ASSUME IInv, TypeOK', NEW w \in Writers, InsertRows(w)
  PROVE  IInv'
<1>1. /\ rows' = rows /\ Present' = Present
      /\ \A o \in Writers \ {w} : txn'[o] = txn[o]
      /\ txn[w].stage = "inserting" /\ txn'[w].stage = "inserted"
      /\ txn'[w].gone = txn[w].gone /\ txn'[w].v = txn[w].v
  BY DEF InsertRows, IInv, TypeOK, Present
<1>2. Deleted(w)' = Deleted(w) /\ Inserted(w)' = ChunksOf[txn[w].v]
  BY <1>1 DEF Deleted, Inserted
<1>3. \A o \in Writers \ {w} : Deleted(o)' = Deleted(o) /\ Inserted(o)' = Inserted(o)
  BY <1>1 DEF Deleted, Inserted
<1>4. RowsAreWhole'
  BY <1>1 DEF IInv, RowsAreWhole
<1>5. GoneIsWhole'
  BY <1>1 DEF IInv, GoneIsWhole, Deleting, HasDeleted
<1>6. LocksAreExclusive'
  BY <1>2, <1>3 DEF IInv, LocksAreExclusive
<1>7. KeysAreExclusive'
  <2>1. /\ \A o \in Writers \ {w} : Inserted(o) \cap ChunksOf[txn[w].v] = {}
        /\ ChunksOf[txn[w].v] \cap (Present \ txn[w].gone) = {}
    BY DEF InsertRows, KeysFree, KeysTaken
  <2>2. QED
    BY <1>1, <1>2, <1>3, <2>1 DEF IInv, KeysAreExclusive
<1>8. QED
  BY <1>4, <1>5, <1>6, <1>7 DEF IInv

\* A writer commits: the rows its DELETE has met are replaced by those it has
\* inserted, if it has.
Replaces(w, new) ==
  /\ rows' = [c \in Chunks |-> IF c \in new THEN txn[w].v
                              ELSE IF c \in txn[w].gone THEN 0 ELSE rows[c]]
  /\ txn' = [Skipped(w) EXCEPT ![w] = IdleTxn]

LEMMA ReplacingIsSafe ==
  ASSUME IInv, TypeOK', NEW w \in Writers, NEW new,
         txn[w].stage \in HasDeleted, new = Inserted(w), Replaces(w, new)
  PROVE  IInv'
<1> DEFINE v == txn[w].v
           gone == txn[w].gone
<1>1. v \in 1..MaxVersion /\ new \subseteq Chunks /\ (new # {} => new = ChunksOf[v])
  <2>1. new # {} => new = ChunksOf[v]
    BY DEF Inserted
  <2>2. txn[w].v \in 0..MaxVersion /\ txn[w].v > 0
    BY DEF IInv, TypeOK, Versions, HasDeleted
  <2>3. ChunksOf[v] \subseteq Chunks
    BY <2>2, VersionAssumption
  <2>4. QED
    BY <2>1, <2>2, <2>3, VersionAssumption
<1>2. /\ Deleted(w) = gone /\ Inserted(w) = new
      /\ new \cap (Present \ gone) = {}
  BY DEF Deleted, HasDeleted, IInv, KeysAreExclusive
<1>3. ASSUME NEW c \in Chunks
      PROVE  rows'[c] = IF c \in new THEN v ELSE IF c \in gone THEN 0 ELSE rows[c]
  BY DEF Replaces
<1>4. Present' = new \cup (Present \ gone)
  BY <1>1, <1>3 DEF Present
<1>5. ASSUME NEW o \in Writers \ {w}
      PROVE  /\ txn'[o].stage = txn[o].stage /\ txn'[o].v = txn[o].v
             /\ txn'[o].gone = IF txn[o].stage = "deleting"
                               THEN txn[o].gone \ gone ELSE txn[o].gone
  <2>1. txn'[o] = IF txn[o].stage = "deleting"
                  THEN [txn[o] EXCEPT !.gone = @ \ gone] ELSE txn[o]
    BY DEF Replaces, Skipped
  <2>2. txn[o] \in [stage : Stages, v : Versions, gone : SUBSET Chunks,
                    save : BOOLEAN]
    BY DEF IInv, TypeOK
  <2>3. QED
    BY <2>1, <2>2
<1>6. txn'[w] = IdleTxn
  BY DEF Replaces, Skipped
<1>7. \A c \in gone : ChunksOf[rows[c]] \subseteq gone
  BY DEF IInv, GoneIsWhole, Deleting, HasDeleted
<1>8. ASSUME NEW c \in Present \ gone
      PROVE  /\ c \in ChunksOf[rows[c]] /\ rows'[c] = rows[c]
             /\ \A d \in ChunksOf[rows[c]] : d \in Present \ gone /\ rows[d] = rows[c]
  <2>1. c \in Chunks /\ rows[c] \in 1..MaxVersion
    BY VersionAssumption DEF Present, IInv, TypeOK, Versions
  <2>2. c \in ChunksOf[rows[c]] /\ \A d \in ChunksOf[rows[c]] : rows[d] = rows[c]
    BY DEF IInv, RowsAreWhole
  <2>3. ChunksOf[rows[c]] \subseteq Present
    BY <2>1, <2>2, VersionAssumption DEF Present
  <2>4. \A d \in ChunksOf[rows[c]] : d \notin gone
    BY <1>7, <2>2
  <2>5. rows'[c] = rows[c]
    BY <1>2, <1>3, <2>1
  <2>6. QED
    BY <2>2, <2>3, <2>4, <2>5
<1>9. RowsAreWhole'
  <2>1. ASSUME NEW c \in new
        PROVE  c \in ChunksOf[rows'[c]] /\ \A d \in ChunksOf[rows'[c]] : rows'[d] = rows'[c]
    BY <1>1, <1>3
  <2>2. ASSUME NEW c \in Present \ gone
        PROVE  c \in ChunksOf[rows'[c]] /\ \A d \in ChunksOf[rows'[c]] : rows'[d] = rows'[c]
    BY <1>8
  <2>3. QED
    BY <1>4, <2>1, <2>2 DEF RowsAreWhole
<1>10. GoneIsWhole'
  <2>1. SUFFICES ASSUME NEW o \in Writers, txn'[o].stage \in Deleting,
                        NEW c \in txn'[o].gone
                 PROVE  c \in Present' /\ ChunksOf[rows'[c]] \subseteq txn'[o].gone
    BY DEF GoneIsWhole
  <2>2. o # w
    BY <1>6, <2>1 DEF IdleTxn, At, Deleting, HasDeleted
  <2>3. c \in txn[o].gone /\ txn[o].stage \in Deleting
    BY <1>5, <2>1, <2>2
  <2>4. c \in Present /\ ChunksOf[rows[c]] \subseteq txn[o].gone
    BY <2>3 DEF IInv, GoneIsWhole
  <2>5. c \notin gone
    <3>1. CASE txn[o].stage = "deleting"
      BY <1>5, <2>1, <2>2, <3>1
    <3>2. CASE txn[o].stage # "deleting"
      <4>1. Deleted(o) = txn[o].gone
        BY <2>3, <3>2 DEF Deleted, Deleting, HasDeleted
      <4>2. QED
        BY <1>2, <2>2, <2>3, <4>1 DEF IInv, LocksAreExclusive
    <3>3. QED
      BY <3>1, <3>2
  <2>6. c \in Present' /\ rows'[c] = rows[c]
    BY <1>4, <1>8, <2>4, <2>5
  <2>7. \A d \in ChunksOf[rows[c]] : d \notin gone
    BY <1>8, <2>4, <2>5
  <2>8. QED
    BY <1>5, <2>2, <2>4, <2>6, <2>7
<1>11. /\ Deleted(w)' = {} /\ Inserted(w)' = {}
       /\ \A o \in Writers \ {w} : Deleted(o)' = Deleted(o) /\ Inserted(o)' = Inserted(o)
  <2>1. Deleted(w)' = {} /\ Inserted(w)' = {}
    BY <1>6 DEF Deleted, Inserted, IdleTxn, At
  <2>2. ASSUME NEW o \in Writers \ {w}
        PROVE  Deleted(o)' = Deleted(o) /\ Inserted(o)' = Inserted(o)
    BY <1>5 DEF Deleted, Inserted
  <2>3. QED
    BY <2>1, <2>2
<1>12. LocksAreExclusive'
  BY <1>11 DEF IInv, LocksAreExclusive
<1>13. KeysAreExclusive'
  <2>1. \A p, o \in Writers : p # o => Inserted(p)' \cap Inserted(o)' = {}
    BY <1>11 DEF IInv, KeysAreExclusive
  <2>2. ASSUME NEW o \in Writers \ {w}, Inserted(o) # {}
        PROVE  Inserted(o) \cap (Present' \ txn'[o].gone) = {}
    <3>1. txn'[o].gone = txn[o].gone
      BY <1>5, <2>2 DEF Inserted
    <3>2. Inserted(o) \cap new = {} /\ Inserted(o) \cap (Present \ txn[o].gone) = {}
      BY <1>2 DEF IInv, KeysAreExclusive
    <3>3. QED
      BY <1>4, <3>1, <3>2
  <2>3. \A o \in Writers : (Inserted(o) \cap (Present \ txn[o].gone))' = {}
    BY <1>11, <2>2
  <2>4. QED
    BY <2>1, <2>3 DEF KeysAreExclusive
<1>14. QED
  BY <1>9, <1>10, <1>12, <1>13 DEF IInv

LEMMA CommitIsSafe ==
  ASSUME IInv, TypeOK', NEW w \in Writers, CommitIndex(w) \/ CommitFailure(w)
  PROVE  IInv'
<1>1. CASE CommitIndex(w)
  <2>1. Inserted(w) = ChunksOf[txn[w].v] /\ txn[w].stage \in HasDeleted
    BY <1>1 DEF CommitIndex, Inserted, HasDeleted
  <2>2. QED
    BY <1>1, <2>1, ReplacingIsSafe DEF CommitIndex, RowsAfter, Replaces
<1>2. CASE CommitFailure(w)
  <2>1. Inserted(w) = {} /\ txn[w].stage \in HasDeleted
    BY <1>2 DEF CommitFailure, Inserted, HasDeleted
  <2>2. QED
    BY <1>2, <2>1, ReplacingIsSafe DEF CommitFailure, Replaces
<1>3. QED
  BY <1>1, <1>2

LEMMA StepIsWhole == IInv /\ [Next]_vars => IInv'
<1>1. SUFFICES ASSUME IInv, [Next]_vars PROVE IInv'
  OBVIOUS
<1>2. TypeOK /\ TypeOK'
  BY <1>1, TypeIsKept DEF IInv
<1>3. CASE UNCHANGED vars
  BY <1>1, <1>2, <1>3, LettingGoIsSafe DEF vars
<1>4. CASE Restart
  <2>1. rows' = rows /\ \A w \in Writers : txn'[w] = IdleTxn
    BY <1>4 DEF Restart, Mishap
  <2>2. QED
    BY <1>1, <1>2, <2>1, LettingGoIsSafe DEF IdleTxn, At
<1>5. ASSUME NEW w \in Writers, WriterStep(w) PROVE IInv'
  <2>1. CASE SaveResume(w) \/ RefreshResume(w) \/ StartRun(w) \/ FindIndex(w)
             \/ InsertFails(w) \/ RollBack(w) \/ EmbedderFails(w)
    <3>1. rows' = rows /\ \A o \in Writers \ {w} : txn'[o] = txn[o]
      BY <1>2, <2>1 DEF SaveResume, RefreshResume, StartRun, FindIndex, InsertFails,
                        RollBack, EmbedderFails, Mishap, TypeOK
    <3>2. txn'[w].stage \in {"idle", "saved", "loaded", "missing"}
      <4>1. CASE SaveResume(w) \/ RefreshResume(w) \/ StartRun(w)
        BY <1>2, <4>1 DEF SaveResume, RefreshResume, StartRun, TypeOK, At
      <4>2. CASE FindIndex(w) \/ InsertFails(w) \/ RollBack(w)
        BY <1>2, <4>2 DEF FindIndex, InsertFails, RollBack, TypeOK, IdleTxn, At
      <4>3. CASE EmbedderFails(w)
        BY <1>2, <4>3 DEF EmbedderFails, Mishap, TypeOK, IdleTxn, At
      <4>4. QED
        BY <2>1, <4>1, <4>2, <4>3
    <3>3. QED
      BY <1>1, <1>2, <3>1, <3>2, LettingGoIsSafe
  <2>2. CASE StartDelete(w)
    BY <1>1, <1>2, <2>2, StartDeleteIsSafe
  <2>3. CASE FinishDelete(w)
    BY <1>1, <1>2, <2>3, FinishDeleteIsSafe
  <2>4. CASE InsertRows(w)
    BY <1>1, <1>2, <2>4, InsertIsSafe
  <2>5. CASE CommitIndex(w) \/ CommitFailure(w)
    BY <1>1, <1>2, <2>5, CommitIsSafe
  <2>6. QED
    BY <1>5, <2>1, <2>2, <2>3, <2>4, <2>5 DEF WriterStep
<1>6. QED
  BY <1>1, <1>3, <1>4, <1>5 DEF Next

\* The state and the transactions keep their shape, and a writer embeds a version
\* the profile has had.
THEOREM IndexTypeCorrect == Spec => []TypeOK
<1>1. Init => TypeOK
  BY InitIsWhole DEF IInv
<1>2. QED
  BY <1>1, TypeIsKept, PTL DEF Spec

THEOREM IndexIsConsistent == Spec => []IInv
  BY InitIsWhole, StepIsWhole, PTL DEF Spec

\* Overlapping saves and analyses never leave a part of a resume in the index,
\* however the resumes' chunks overlap and wherever a writer stops.
THEOREM ResumesStayWhole == Spec => []VersionsAreWhole
<1>1. IInv => VersionsAreWhole
  BY DEF IInv, RowsAreWhole, VersionsAreWhole
<1>2. QED
  BY <1>1, IndexIsConsistent, PTL

(***************************************************************************)
(* Writers that meet nobody                                                *)
(***************************************************************************)

\* As long as a writer has met no other one, it is the only one at work, what it
\* embeds is the resume, and its DELETE has met every row.
Undisturbed ==
  \A w \in Writers : ~Idle(w) /\ w \notin met =>
    /\ \A o \in Writers \ {w} : Idle(o)
    /\ txn[w].stage \in {"loaded", "missing"} \cup Deleting => txn[w].v = resume
    /\ txn[w].stage \in Deleting => txn[w].gone = Present

LoneInv == TypeOK /\ Undisturbed

\* Steps of a writer that is at work, that neither change the resume or the rows
\* nor start anybody, leave the others' share of the invariant alone.
LEMMA OwnStepKeeps ==
  ASSUME LoneInv, NEW w \in Writers, ~Idle(w),
         UNCHANGED <<resume, rows, met>>,
         \A o \in Writers \ {w} : txn'[o] = txn[o],
         w \notin met /\ ~Idle(w)' =>
           /\ txn'[w].stage \in {"loaded", "missing"} \cup Deleting => txn'[w].v = resume
           /\ txn'[w].stage \in Deleting => txn'[w].gone = Present
  PROVE  Undisturbed'
<1>1. \A o \in Writers \ {w} : o \notin met => Idle(o)
  BY DEF LoneInv, Undisturbed
<1>2. Present' = Present /\ \A o \in Writers \ {w} : Idle(o)' = Idle(o)
  BY DEF Present, Idle
<1>3. w \notin met => \A o \in Writers \ {w} : Idle(o)
  BY DEF LoneInv, Undisturbed
<1>4. QED
  BY <1>1, <1>2, <1>3 DEF Undisturbed

\* A writer that starts has met whoever is at work, and they it.
LEMMA StartKeeps ==
  ASSUME LoneInv, NEW w \in Writers, Idle(w), Meets(w), rows' = rows,
         \A o \in Writers \ {w} : txn'[o] = txn[o],
         txn'[w].stage \in {"saved", "loaded"},
         txn'[w].stage = "loaded" => txn'[w].v = resume /\ resume' = resume
  PROVE  Undisturbed'
<1> DEFINE others == {o \in Writers : ~Idle(o)}
<1>1. w \notin others
  OBVIOUS
<1>2. \A o \in Writers \ {w} : Idle(o)' = Idle(o)
  BY DEF Idle
<1>3. CASE others = {}
  BY <1>2, <1>3 DEF Undisturbed, Deleting, HasDeleted, Idle
<1>4. CASE others # {}
  <2>1. met' = met \cup others \cup {w}
    BY <1>4 DEF Meets
  <2>2. \A o \in Writers : o \notin met' => Idle(o)'
    BY <1>2, <2>1
  <2>3. QED
    BY <2>2 DEF Undisturbed
<1>5. QED
  BY <1>3, <1>4

LEMMA LoneFromTheStart == Init => LoneInv
  BY InitIsWhole DEF Init, LoneInv, Undisturbed, IInv, IdleTxn, At, Idle

LEMMA LoneStep == LoneInv /\ [Next]_vars => LoneInv'
<1>1. SUFFICES ASSUME LoneInv, [Next]_vars PROVE Undisturbed'
  BY TypeIsKept DEF LoneInv
<1>2. CASE UNCHANGED vars
  BY <1>1, <1>2 DEF vars, LoneInv, Undisturbed, Present, Idle
<1>3. CASE Restart
  BY <1>3 DEF Restart, Mishap, Undisturbed, IdleTxn, At, Idle
<1>4. ASSUME NEW w \in Writers, WriterStep(w) PROVE Undisturbed'
  <2> USE DEF TypeOK
  <2>0. TypeOK
    BY <1>1 DEF LoneInv
  <2>1. CASE SaveResume(w)
    BY <1>1, <2>0, <2>1, StartKeeps DEF SaveResume, At
  <2>2. CASE StartRun(w)
    BY <1>1, <2>0, <2>2, StartKeeps DEF StartRun, At
  <2>3. CASE RefreshResume(w)
    <3>1. /\ ~Idle(w) /\ UNCHANGED <<resume, rows, met>>
          /\ \A o \in Writers \ {w} : txn'[o] = txn[o]
          /\ txn'[w].stage = "loaded" /\ txn'[w].v = resume
      BY <2>0, <2>3 DEF RefreshResume, At, Idle
    <3>2. QED
      BY <1>1, <3>1, OwnStepKeeps DEF Deleting, HasDeleted
  <2>4. CASE StartDelete(w)
    <3>1. /\ ~Idle(w) /\ UNCHANGED <<resume, rows, met>>
          /\ \A o \in Writers \ {w} : txn'[o] = txn[o]
          /\ txn'[w].v = txn[w].v /\ txn'[w].gone = Present
          /\ txn[w].stage \in {"loaded", "missing"}
      BY <2>0, <2>4 DEF StartDelete, ToIndex, Idle
    <3>2. w \notin met => txn[w].v = resume
      BY <1>1, <3>1 DEF LoneInv, Undisturbed
    <3>3. QED
      BY <1>1, <3>1, <3>2, OwnStepKeeps
  <2>5. CASE FinishDelete(w) \/ InsertRows(w)
    <3>1. /\ ~Idle(w) /\ UNCHANGED <<resume, rows, met>>
          /\ \A o \in Writers \ {w} : txn'[o] = txn[o]
          /\ txn'[w].v = txn[w].v /\ txn'[w].gone = txn[w].gone
          /\ txn[w].stage \in Deleting
      BY <2>0, <2>5 DEF FinishDelete, InsertRows, Idle, Deleting, HasDeleted
    <3>2. w \notin met => txn[w].v = resume /\ txn[w].gone = Present
      BY <1>1, <3>1 DEF LoneInv, Undisturbed
    <3>3. QED
      BY <1>1, <3>1, <3>2, OwnStepKeeps
  <2>6. CASE FindIndex(w) /\ Present = {}
    <3>1. /\ ~Idle(w) /\ UNCHANGED <<resume, rows, met>>
          /\ \A o \in Writers \ {w} : txn'[o] = txn[o]
          /\ txn'[w].v = txn[w].v /\ txn'[w].stage = "missing"
          /\ txn[w].stage = "loaded"
      BY <2>0, <2>6 DEF FindIndex, Idle
    <3>2. w \notin met => txn[w].v = resume
      BY <1>1, <3>1 DEF LoneInv, Undisturbed
    <3>3. QED
      BY <1>1, <3>1, <3>2, OwnStepKeeps DEF Deleting, HasDeleted
  <2>7. CASE \/ FindIndex(w) /\ Present # {}
             \/ InsertFails(w) \/ RollBack(w) \/ EmbedderFails(w)
    <3>1. /\ ~Idle(w) /\ UNCHANGED <<resume, rows, met>>
          /\ \A o \in Writers \ {w} : txn'[o] = txn[o]
          /\ Idle(w)'
      BY <2>0, <2>7 DEF FindIndex, InsertFails, RollBack, EmbedderFails, Mishap, Idle,
                        IdleTxn, At
    <3>2. QED
      BY <1>1, <3>1, OwnStepKeeps
  <2>8. CASE CommitIndex(w) \/ CommitFailure(w)
    <3>0. txn' = [Skipped(w) EXCEPT ![w] = IdleTxn] /\ ~Idle(w) /\ UNCHANGED <<resume, met>>
      BY <2>8 DEF CommitIndex, CommitFailure, Idle
    <3>1. /\ ~Idle(w) /\ UNCHANGED <<resume, met>> /\ Idle(w)'
          /\ \A o \in Writers \ {w} : Idle(o)' = Idle(o)
      BY <2>0, <3>0 DEF Skipped, Idle, IdleTxn, At
    <3>2. \A o \in Writers \ {w} : o \notin met => Idle(o)
      BY <1>1, <3>1 DEF LoneInv, Undisturbed
    <3>3. QED
      BY <3>1, <3>2 DEF Undisturbed
  <2>9. QED
    BY <1>4, <2>1, <2>2, <2>3, <2>4, <2>5, <2>7, <2>8, <2>6 DEF WriterStep
<1>5. QED
  BY <1>1, <1>2, <1>3, <1>4 DEF Next

LEMMA LoneIsInvariant == Spec => []LoneInv
  BY LoneFromTheStart, LoneStep, PTL DEF Spec

\* An INSERT that finds a key taken is that of a writer that has met another one:
\* neither failures and restarts before it nor the rows they left can refuse it.
THEOREM RefusalsNeedAnOverlap == Spec => OnlyOverlapsAreRefused
<1>1. LoneInv /\ [Next]_vars
        => [\A w \in Writers : InsertFails(w) => w \in met]_vars
  BY DEF LoneInv, Undisturbed, InsertFails, KeysTaken, Idle, Deleting, HasDeleted
<1>2. QED
  BY <1>1, LoneIsInvariant, PTL DEF Spec, OnlyOverlapsAreRefused

\* The commit of a writer that has met nobody leaves rows of the current resume only,
\* or none if it failed, whatever earlier overlaps and failures left in the index.
THEOREM LoneCommitsAreCurrent == Spec => LoneWritesAreCurrent
<1> DEFINE Current(w) == \A c \in Chunks : rows'[c] \in {0, resume}
           Commits(w) == CommitIndex(w) \/ CommitFailure(w)
<1>1. LoneInv /\ [Next]_vars
        => [\A w \in Writers : Commits(w) /\ w \notin met => Current(w)]_vars
  <2>1. SUFFICES ASSUME LoneInv, NEW w \in Writers, Commits(w), w \notin met
                 PROVE  Current(w)
    OBVIOUS
  <2>2. txn[w].gone = Present /\ txn[w].v = resume
    BY <2>1 DEF CommitIndex, CommitFailure, LoneInv, Undisturbed, Idle, Deleting, HasDeleted
  <2>3. CASE CommitIndex(w)
    BY <2>1, <2>2, <2>3 DEF CommitIndex, RowsAfter, Present
  <2>4. CASE CommitFailure(w)
    BY <2>1, <2>2, <2>4 DEF CommitFailure, Present
  <2>5. QED
    BY <2>1, <2>3, <2>4
<1>2. QED
  BY <1>1, LoneIsInvariant, PTL DEF Spec, LoneWritesAreCurrent
=============================================================================
