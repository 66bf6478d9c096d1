------------------------- MODULE CareerMemoryProofs -------------------------
(***************************************************************************)
(* Theorems of CareerMemory, for any topics, statuses, requests and number *)
(* of feedbacks.                                                           *)
(*                                                                         *)
(* The invariants are about committed rows; what makes them inductive is   *)
(* what an open transaction is about to do: it deactivates rows of its own *)
(* key only, and all that were active when it came in.                     *)
(***************************************************************************)
EXTENDS CareerMemory, TLAPS

\* Rows a transaction deactivates are of its key; ...
OwnRows ==
  \A w \in Writers : \A i \in txn[w].rows : memories[i].key = txn[w].fb.key

\* ... once its UPDATE has started, none that was there before it is left out; ...
RowsMet ==
  \A w \in Writers :
    txn[w].stage \in {"updating", "replaced", "reported"} /\ txn[w].fb.key # None =>
      \A i \in ActiveOf(txn[w].fb.key) : i <= txn[w].begun => i \in txn[w].rows

\* ... it writes a status only if it has one to report, and one that is alone and has
\* selected the job has loaded the status there is.
StatusLoaded ==
  \A w \in Writers :
    /\ txn[w].stage = "reported" => txn[w].fb.status # None
    /\ txn[w].stage \in {"replaced", "reported"} /\ txn[w].alone
         => txn[w].loaded = status

TxnInv == OwnRows /\ RowsMet /\ StatusLoaded

MemoryInv ==
  /\ TypeOK /\ TxnInv
  /\ LastWordIsActive /\ OnlyOverlapsContradict /\ StatusIsRemembered

USE FeedbackAssumption

LEMMA FeedbackShape ==
  /\ Nothing \in Feedback
  /\ \A fb \in Feedback :
       /\ fb.key \in Keys \cup {None} /\ fb.status \in Statuses \cup {None}
       /\ fb.status \notin {None, Saved} => fb.key = fb.status
BY DEF Feedback, Nothing, Keys

LEMMA InitMemory == Init => MemoryInv
<1> SUFFICES ASSUME Init PROVE MemoryInv
  OBVIOUS
<1>1. memories = <<>> /\ DOMAIN memories = {} /\ Len(memories) = 0
      /\ memories \in Seq(Memories)
  BY DEF Init
<1>2. TypeOK
  BY <1>1, FeedbackShape DEF Init, TypeOK, IdleTxn, Stages
<1>3. TxnInv
  BY <1>1 DEF Init, TxnInv, OwnRows, RowsMet, StatusLoaded, IdleTxn, Idle
<1> QED
  BY <1>1, <1>2, <1>3 DEF Init, MemoryInv, LastWordIsActive, OnlyOverlapsContradict,
                          StatusIsRemembered, Active

\* Before its commit, a transaction changes nothing anybody sees.
LEMMA OpenStepIsSafe ==
  ASSUME MemoryInv, NEW w \in Writers, UNCHANGED <<memories, status, recorded>>,
         NEW t \in [stage : Stages, fb : Feedback, loaded : Statuses,
                    rows : SUBSET Nat, begun : Nat, alone : BOOLEAN],
         txn' = [txn EXCEPT ![w] = t],
         t.rows \subseteq DOMAIN memories, t.begun <= Len(memories),
         \A i \in t.rows : memories[i].key = t.fb.key,
         t.stage \in {"updating", "replaced", "reported"} /\ t.fb.key # None =>
           \A i \in ActiveOf(t.fb.key) : i <= t.begun => i \in t.rows,
         t.stage = "reported" => t.fb.status # None,
         t.stage \in {"replaced", "reported"} /\ t.alone => t.loaded = status
  PROVE  MemoryInv'
<1>1. txn'[w] = t /\ \A o \in Writers \ {w} : txn'[o] = txn[o]
  BY DEF MemoryInv, TypeOK
<1>2. TypeOK'
  BY <1>1 DEF MemoryInv, TypeOK
<1>3. Active' = Active /\ \A k \in Keys : ActiveOf(k)' = ActiveOf(k)
  BY DEF Active, ActiveOf
<1>4. OwnRows'
  BY <1>1 DEF MemoryInv, TxnInv, OwnRows
<1>5. RowsMet'
  BY <1>1, <1>3 DEF MemoryInv, TxnInv, RowsMet, ActiveOf
<1>6. StatusLoaded'
  BY <1>1 DEF MemoryInv, TxnInv, StatusLoaded, Idle
<1>7. LastWordIsActive' /\ OnlyOverlapsContradict' /\ StatusIsRemembered'
  BY <1>3 DEF MemoryInv, LastWordIsActive, OnlyOverlapsContradict, StatusIsRemembered,
              ActiveOf
<1> QED BY <1>2, <1>4, <1>5, <1>6, <1>7 DEF MemoryInv, TxnInv

\* A commit keeps the rows there are, deactivates those of the transaction, and adds
\* one of its key.
LEMMA CommitShape ==
  ASSUME MemoryInv, NEW w \in Writers, CommitFeedback(w), txn[w].fb.key # None
  PROVE  /\ memories' \in Seq(Memories)
         /\ Len(memories') = Len(memories) + 1
         /\ DOMAIN memories = 1..Len(memories) /\ DOMAIN memories' = 1..Len(memories')
         /\ Len(memories) \in Nat
         /\ memories'[Len(memories')] =
              [key |-> txn[w].fb.key, active |-> TRUE, begun |-> txn[w].begun]
         /\ \A i \in DOMAIN memories :
              /\ memories'[i].key = memories[i].key
              /\ memories'[i].begun = memories[i].begun
              /\ memories'[i].active <=> memories[i].active /\ i \notin txn[w].rows
<1> DEFINE old == Deactivated(txn[w].rows)
           new == [key |-> txn[w].fb.key, active |-> TRUE, begun |-> txn[w].begun]
<1>1. memories \in Seq(Memories) /\ DOMAIN memories = 1..Len(memories)
      /\ Len(memories) \in Nat
  BY DEF MemoryInv, TypeOK
<1>2. \A i \in DOMAIN memories :
        /\ old[i] \in Memories
        /\ old[i].key = memories[i].key /\ old[i].begun = memories[i].begun
        /\ old[i].active <=> memories[i].active /\ i \notin txn[w].rows
  <2> SUFFICES ASSUME NEW i \in DOMAIN memories
               PROVE  /\ old[i] \in Memories
                      /\ old[i].key = memories[i].key
                      /\ old[i].begun = memories[i].begun
                      /\ old[i].active <=> memories[i].active /\ i \notin txn[w].rows
    OBVIOUS
  <2>1. memories[i] \in Memories
    BY <1>1
  <2>2. old[i] = [memories[i] EXCEPT !.active = @ /\ i \notin txn[w].rows]
    BY DEF Deactivated
  <2> HIDE DEF old
  <2>3. /\ old[i].key = memories[i].key /\ old[i].begun = memories[i].begun
        /\ old[i].active = (memories[i].active /\ i \notin txn[w].rows)
        /\ old[i] \in Memories
    BY <2>1, <2>2 DEF Memories
  <2> QED BY <2>3
<1>3. old \in Seq(Memories) /\ Len(old) = Len(memories)
  <2>1. DOMAIN old = 1..Len(memories) /\ old = [i \in 1..Len(memories) |-> old[i]]
    BY <1>1 DEF Deactivated
  <2> HIDE DEF old
  <2>2. old \in [1..Len(memories) -> Memories]
    BY <1>1, <1>2, <2>1
  <2> QED BY <1>1, <2>2
<1>4. new \in Memories
  BY FeedbackShape DEF MemoryInv, TypeOK, Memories
<1>5. memories' = Append(old, new)
  BY DEF CommitFeedback, Replaced
<1> HIDE DEF old, new
<1>6. /\ memories' \in Seq(Memories) /\ Len(memories') = Len(memories) + 1
      /\ DOMAIN memories' = 1..Len(memories')
      /\ memories'[Len(memories')] = new
      /\ \A i \in DOMAIN memories : memories'[i] = old[i]
  BY <1>1, <1>3, <1>4, <1>5
<1> QED BY <1>1, <1>2, <1>6 DEF new

LEMMA CommitIsSafe ==
  ASSUME MemoryInv, NEW w \in Writers, CommitFeedback(w)
  PROVE  MemoryInv'
<1> USE DEF MemoryInv
<1> DEFINE key == txn[w].fb.key
<1>1. /\ txn[w].stage \in {"replaced", "reported"}
      /\ txn[w].fb \in Feedback /\ txn[w].begun \in Nat
      /\ txn[w].begun <= Len(memories) /\ txn[w].rows \subseteq DOMAIN memories
  BY DEF CommitFeedback, TypeOK
<1>2. \A o \in Writers :
        /\ txn'[o].stage # "idle" =>
             /\ o # w /\ txn'[o].stage = txn[o].stage /\ ~Idle(o)
             /\ txn'[o].alone = FALSE
        /\ o # w => /\ txn'[o].fb = txn[o].fb /\ txn'[o].rows = txn[o].rows
                    /\ txn'[o].begun = txn[o].begun
        /\ o = w => txn'[o] = IdleTxn
        /\ txn'[o] \in [stage : Stages, fb : Feedback, loaded : Statuses,
                        rows : SUBSET Nat, begun : Nat, alone : BOOLEAN]
  <2>1. \A o \in Writers :
          txn'[o] = IF o = w THEN IdleTxn ELSE [txn[o] EXCEPT !.alone = Idle(o)]
    BY DEF CommitFeedback
  <2>2. IdleTxn.stage = "idle" /\ IdleTxn \in
          [stage : Stages, fb : Feedback, loaded : Statuses,
           rows : SUBSET Nat, begun : Nat, alone : BOOLEAN]
    BY FeedbackShape DEF IdleTxn, Stages
  <2>3. \A o \in Writers : txn[o] \in
          [stage : Stages, fb : Feedback, loaded : Statuses,
           rows : SUBSET Nat, begun : Nat, alone : BOOLEAN]
    BY DEF TypeOK
  <2> TAKE o \in Writers
  <2>4. CASE o = w
    BY <2>1, <2>2, <2>4
  <2>5. CASE o # w
    <3>1. txn'[o] = [txn[o] EXCEPT !.alone = Idle(o)] /\ txn[o].stage \in Stages
      BY <2>1, <2>3, <2>5
    <3>2. Idle(o) \in BOOLEAN /\ (Idle(o) <=> txn[o].stage = "idle")
      BY DEF Idle
    <3>3. /\ txn'[o].alone = Idle(o) /\ txn'[o].stage = txn[o].stage
          /\ txn'[o].fb = txn[o].fb /\ txn'[o].rows = txn[o].rows
          /\ txn'[o].begun = txn[o].begun
      BY <2>3, <3>1
    <3>4. txn'[o] \in [stage : Stages, fb : Feedback, loaded : Statuses,
                       rows : SUBSET Nat, begun : Nat, alone : BOOLEAN]
      BY <2>3, <3>1, <3>2
    <3> QED BY <2>5, <3>2, <3>3, <3>4
  <2> QED BY <2>4, <2>5
<1>3. recorded' \in 0..MaxFeedback /\ txn' = [o \in Writers |-> txn'[o]]
  BY DEF CommitFeedback, TypeOK
<1>4. status' \in Statuses
  BY FeedbackShape DEF CommitFeedback, TypeOK, TxnInv, StatusLoaded
<1>5. StatusLoaded'
  BY <1>2 DEF TxnInv, StatusLoaded, Idle
<1>6. CASE key = None
  <2>1. status' \in {status, Saved}
    BY <1>6, FeedbackShape, <1>1 DEF CommitFeedback, Replaced, TxnInv, StatusLoaded
  <2>2. memories' = memories
    BY <1>6 DEF CommitFeedback, Replaced
  <2>3. TypeOK'
    BY <1>2, <1>3, <1>4, <2>2 DEF TypeOK, IdleTxn
  <2>4. OwnRows'
    BY <1>2, <2>2 DEF TxnInv, OwnRows, IdleTxn
  <2>5. RowsMet'
    BY <1>2, <2>2 DEF TxnInv, RowsMet, ActiveOf, Active, IdleTxn
  <2>6. LastWordIsActive' /\ OnlyOverlapsContradict' /\ StatusIsRemembered'
    BY <2>1, <2>2 DEF LastWordIsActive, OnlyOverlapsContradict, StatusIsRemembered,
                      ActiveOf, Active
  <2> QED BY <1>5, <2>3, <2>4, <2>5, <2>6 DEF TxnInv
<1>7. CASE key # None
  <2> DEFINE n == Len(memories)
  <2>1. /\ n \in Nat /\ Len(memories') = n + 1 /\ memories' \in Seq(Memories)
        /\ DOMAIN memories = 1..n /\ DOMAIN memories' = 1..(n + 1)
        /\ memories'[n + 1].key = key /\ memories'[n + 1].active
        /\ memories'[n + 1].begun = txn[w].begun
        /\ \A i \in 1..n :
             /\ memories'[i].key = memories[i].key
             /\ memories'[i].begun = memories[i].begun
             /\ memories'[i].active <=> memories[i].active /\ i \notin txn[w].rows
    <3>1. /\ memories' \in Seq(Memories)
          /\ Len(memories') = Len(memories) + 1
          /\ DOMAIN memories = 1..Len(memories) /\ DOMAIN memories' = 1..Len(memories')
          /\ Len(memories) \in Nat
          /\ memories'[Len(memories')] =
               [key |-> txn[w].fb.key, active |-> TRUE, begun |-> txn[w].begun]
          /\ \A i \in DOMAIN memories :
               /\ memories'[i].key = memories[i].key
               /\ memories'[i].begun = memories[i].begun
               /\ memories'[i].active <=> memories[i].active /\ i \notin txn[w].rows
      BY <1>7, CommitShape, Zenon
    <3> QED BY <3>1
  <2> HIDE DEF n
  <2>2. n = Len(memories)
    BY DEF n
  <2>3. TypeOK'
    <3>1. \A o \in Writers : txn'[o].rows \subseteq DOMAIN memories'
                               /\ txn'[o].begun <= Len(memories')
      BY <1>2, <2>1, <2>2 DEF TypeOK, IdleTxn
    <3>2. \A i \in DOMAIN memories' : memories'[i].begun < i
      BY <1>1, <2>1, <2>2 DEF TypeOK
    <3>3. txn' \in [Writers -> [stage : Stages, fb : Feedback, loaded : Statuses,
                                rows : SUBSET Nat, begun : Nat, alone : BOOLEAN]]
      BY <1>2, <1>3
    <3> QED BY <1>3, <1>4, <2>1, <3>1, <3>2, <3>3 DEF TypeOK
  <2>4. OwnRows'
    BY <1>2, <2>1 DEF TxnInv, OwnRows, IdleTxn, TypeOK
  <2>5. RowsMet'
    <3> SUFFICES ASSUME NEW o \in Writers,
                        txn'[o].stage \in {"updating", "replaced", "reported"},
                        txn'[o].fb.key # None,
                        NEW i \in ActiveOf(txn[o].fb.key)', i <= txn[o].begun,
                        o # w
                 PROVE  i \in txn[o].rows
      BY <1>2 DEF RowsMet
    <3>1. i \in 1..n
      BY <2>1, <2>2 DEF TypeOK, ActiveOf, Active
    <3>2. i \in ActiveOf(txn[o].fb.key)
      BY <1>2, <2>1, <3>1 DEF ActiveOf, Active
    <3> QED BY <1>2, <3>2 DEF TxnInv, RowsMet
  <2>6. LastWordIsActive'
    <3> SUFFICES ASSUME NEW i \in DOMAIN memories',
                        \A j \in DOMAIN memories' :
                          memories'[j].key = memories'[i].key => j <= i
                 PROVE  memories'[i].active
      BY DEF LastWordIsActive
    <3>1. CASE i = n + 1
      BY <2>1, <3>1
    <3>2. CASE i \in 1..n
      <4>1. memories[i].key # key
        BY <2>1, <3>2
      <4>2. memories[i].active
        BY <2>1, <3>2 DEF LastWordIsActive
      <4> QED BY <2>1, <3>2, <4>1, <4>2 DEF TxnInv, OwnRows
    <3> QED BY <2>1, <3>1, <3>2
  <2>7. OnlyOverlapsContradict'
    <3> SUFFICES ASSUME NEW i \in Active', NEW j \in Active', i < j,
                        memories'[i].key = memories'[j].key
                 PROVE  memories'[j].begun < i
      BY DEF OnlyOverlapsContradict
    <3>1. i \in 1..n /\ i \in Active /\ i \notin txn[w].rows
      BY <2>1 DEF Active
    <3>2. CASE j = n + 1
      BY <1>1, <1>7, <2>1, <3>1, <3>2 DEF TxnInv, RowsMet, ActiveOf
    <3>3. CASE j \in 1..n
      BY <2>1, <3>1, <3>3 DEF OnlyOverlapsContradict, Active
    <3> QED BY <2>1, <3>2, <3>3 DEF Active
  <2>8. StatusIsRemembered'
    <3> SUFFICES ASSUME status' # Saved
                 PROVE  \E i \in 1..(n + 1) : memories'[i].active
                                              /\ memories'[i].key = status'
      BY <2>1 DEF StatusIsRemembered, ActiveOf, Active
    <3>1. CASE status' = key
      BY <2>1, <3>1
    <3>2. CASE status' # key
      <4>1. status' = status
        BY <1>1, <3>2, FeedbackShape DEF CommitFeedback, TxnInv, StatusLoaded
      <4>2. PICK i \in 1..n : memories[i].active /\ memories[i].key = status
        BY <2>1, <4>1 DEF StatusIsRemembered, ActiveOf, Active
      <4> QED BY <2>1, <3>2, <4>1, <4>2 DEF TxnInv, OwnRows
    <3> QED BY <3>1, <3>2
  <2> QED BY <1>5, <2>3, <2>4, <2>5, <2>6, <2>7, <2>8 DEF TxnInv
<1> QED BY <1>6, <1>7

LEMMA FeedbackStepIsSafe ==
  ASSUME MemoryInv, NEW w \in Writers, FeedbackStep(w)
  PROVE  MemoryInv'
<1> DEFINE Txns == [stage : Stages, fb : Feedback, loaded : Statuses,
                    rows : SUBSET Nat, begun : Nat, alone : BOOLEAN]
<1>1. /\ txn[w] \in Txns /\ txn[w].rows \subseteq DOMAIN memories
      /\ txn[w].begun <= Len(memories)
      /\ memories \in Seq(Memories) /\ DOMAIN memories = 1..Len(memories)
      /\ Len(memories) \in Nat /\ status \in Statuses
  BY DEF MemoryInv, TypeOK
<1>2. /\ \A i \in txn[w].rows : memories[i].key = txn[w].fb.key
      /\ txn[w].stage \in {"updating", "replaced", "reported"} /\ txn[w].fb.key # None =>
           \A i \in ActiveOf(txn[w].fb.key) : i <= txn[w].begun => i \in txn[w].rows
      /\ txn[w].stage \in {"replaced", "reported"} /\ txn[w].alone
           => txn[w].loaded = status
  BY DEF MemoryInv, TxnInv, OwnRows, RowsMet, StatusLoaded, Idle
<1>3. /\ IdleTxn \in Txns /\ IdleTxn.stage = "idle" /\ IdleTxn.rows = {}
      /\ IdleTxn.begun = 0
  BY FeedbackShape DEF IdleTxn, Stages
<1>4. \A k : ActiveOf(k) \subseteq DOMAIN memories
                /\ \A i \in ActiveOf(k) : memories[i].key = k /\ i \in Active
  BY DEF ActiveOf, Active
<1>5. ASSUME LoadReferences(w) PROVE MemoryInv'
  <2>1. PICK fb \in Feedback :
          txn' = [txn EXCEPT ![w] =
                    [IdleTxn EXCEPT !.stage = "loaded", !.fb = fb,
                                    !.begun = Len(memories)]]
    BY <1>5 DEF LoadReferences
  <2> DEFINE t == [IdleTxn EXCEPT !.stage = "loaded", !.fb = fb,
                                  !.begun = Len(memories)]
  <2>2. /\ t \in Txns /\ t.stage = "loaded" /\ t.rows = {}
        /\ t.begun = Len(memories)
    BY <1>1, <1>3 DEF Stages
  <2>3. txn' = [txn EXCEPT ![w] = t] /\ UNCHANGED <<memories, status, recorded>>
    BY <1>5, <2>1 DEF LoadReferences
  <2> HIDE DEF t
  <2>4. t.rows \subseteq DOMAIN memories /\ t.begun <= Len(memories)
        /\ \A i \in t.rows : memories[i].key = t.fb.key
    BY <1>1, <2>2
  <2> QED BY <2>2, <2>3, <2>4, OpenStepIsSafe
<1>6. ASSUME StartUpdate(w) PROVE MemoryInv'
  <2> DEFINE t == [txn[w] EXCEPT !.stage = "updating",
                                 !.rows = ToDeactivate(txn[w].fb.key)]
  <2>1. ToDeactivate(txn[w].fb.key) \subseteq DOMAIN memories
        /\ ToDeactivate(txn[w].fb.key) \subseteq Nat
    BY <1>1, <1>4 DEF ToDeactivate
  <2>2. /\ t \in Txns /\ t.stage = "updating" /\ t.rows = ActiveOf(txn[w].fb.key)
        /\ t.begun = txn[w].begun /\ t.loaded = txn[w].loaded
        /\ t.fb = txn[w].fb /\ t.alone = txn[w].alone
    BY <1>1, <2>1 DEF Stages, ToDeactivate
  <2>3. txn' = [txn EXCEPT ![w] = t] /\ UNCHANGED <<memories, status, recorded>>
        /\ txn[w].stage = "loaded"
    BY <1>6 DEF StartUpdate
  <2> HIDE DEF t
  <2>4. /\ t.rows \subseteq DOMAIN memories /\ t.begun <= Len(memories)
        /\ \A i \in t.rows : memories[i].key = t.fb.key
        /\ \A i \in ActiveOf(t.fb.key) : i <= t.begun => i \in t.rows
    BY <1>1, <1>2, <1>4, <2>2, <2>3
  <2> QED BY <2>2, <2>3, <2>4, OpenStepIsSafe
<1>7. ASSUME FinishUpdate(w) PROVE MemoryInv'
  <2> DEFINE t == [txn[w] EXCEPT !.stage = "replaced", !.rows = @ \cap Active,
                                 !.loaded = status]
  <2>1. /\ t \in Txns /\ t.stage = "replaced" /\ t.rows = txn[w].rows \cap Active
        /\ t.begun = txn[w].begun /\ t.loaded = status
        /\ t.fb = txn[w].fb /\ t.alone = txn[w].alone
    BY <1>1 DEF Stages
  <2>2. txn' = [txn EXCEPT ![w] = t] /\ UNCHANGED <<memories, status, recorded>>
        /\ txn[w].stage = "updating"
    BY <1>7 DEF FinishUpdate
  <2> HIDE DEF t
  <2>3. t.rows \subseteq DOMAIN memories /\ \A i \in t.rows : memories[i].key = t.fb.key
    BY <1>1, <1>2, <2>1
  <2>4. t.fb.key # None => \A i \in ActiveOf(t.fb.key) : i <= t.begun => i \in t.rows
    BY <1>2, <1>4, <2>1, <2>2
  <2>5. t.begun <= Len(memories) /\ t.loaded = status
    BY <1>1, <2>1
  <2> QED BY <2>1, <2>2, <2>3, <2>4, <2>5, OpenStepIsSafe
<1>8. ASSUME NoDraft(w) PROVE MemoryInv'
  <2> DEFINE t == [txn[w] EXCEPT !.stage = "replaced", !.loaded = status]
  <2>1. /\ t \in Txns /\ t.stage = "replaced" /\ t.rows = txn[w].rows
        /\ t.begun = txn[w].begun /\ t.loaded = status
        /\ t.fb = txn[w].fb /\ t.alone = txn[w].alone
    BY <1>1 DEF Stages
  <2>2. txn' = [txn EXCEPT ![w] = t] /\ UNCHANGED <<memories, status, recorded>>
        /\ txn[w].stage = "loaded" /\ txn[w].fb.key = None
    BY <1>8 DEF NoDraft
  <2> HIDE DEF t
  <2> QED BY <1>1, <1>2, <2>1, <2>2, OpenStepIsSafe
<1>9. ASSUME SetStatus(w) PROVE MemoryInv'
  <2> DEFINE t == [txn[w] EXCEPT !.stage = "reported"]
  <2>1. /\ t \in Txns /\ t.stage = "reported" /\ t.rows = txn[w].rows
        /\ t.begun = txn[w].begun /\ t.loaded = txn[w].loaded
        /\ t.fb = txn[w].fb /\ t.alone = txn[w].alone
    BY <1>1 DEF Stages
  <2>2. txn' = [txn EXCEPT ![w] = t] /\ UNCHANGED <<memories, status, recorded>>
        /\ txn[w].stage = "replaced" /\ txn[w].fb.status # None
    BY <1>9 DEF SetStatus, IsSent
  <2> HIDE DEF t
  <2> QED BY <1>1, <1>2, <2>1, <2>2, OpenStepIsSafe
<1>10. ASSUME RollBack(w) PROVE MemoryInv'
  <2>1. txn' = [txn EXCEPT ![w] = IdleTxn] /\ UNCHANGED <<memories, status, recorded>>
    BY <1>10 DEF RollBack
  <2>2. IdleTxn.rows \subseteq DOMAIN memories /\ IdleTxn.begun <= Len(memories)
        /\ \A i \in IdleTxn.rows : memories[i].key = IdleTxn.fb.key
    BY <1>1, <1>3
  <2> QED BY <1>3, <2>1, <2>2, OpenStepIsSafe
<1>11. ASSUME CommitFeedback(w) PROVE MemoryInv'
  BY <1>11, CommitIsSafe
<1> QED BY <1>5, <1>6, <1>7, <1>8, <1>9, <1>10, <1>11, Zenon DEF FeedbackStep

LEMMA NextMemory == MemoryInv /\ [Next]_vars => MemoryInv'
<1> SUFFICES ASSUME MemoryInv, [Next]_vars PROVE MemoryInv'
  OBVIOUS
<1>1. ASSUME NEW w \in Writers, FeedbackStep(w) PROVE MemoryInv'
  BY <1>1, FeedbackStepIsSafe
<1>2. ASSUME Restart PROVE MemoryInv'
  <2>1. txn' = [w \in Writers |-> IdleTxn] /\ UNCHANGED <<memories, status, recorded>>
    BY <1>2 DEF Restart
  <2>2. IdleTxn \in [stage : Stages, fb : Feedback, loaded : Statuses, rows : SUBSET Nat,
                     begun : Nat, alone : BOOLEAN]
        /\ IdleTxn.stage = "idle" /\ IdleTxn.rows = {} /\ IdleTxn.begun = 0
    BY FeedbackShape DEF IdleTxn, Stages
  <2>3. TypeOK'
    BY <2>1, <2>2 DEF MemoryInv, TypeOK
  <2>4. TxnInv'
    BY <2>1, <2>2 DEF TxnInv, OwnRows, RowsMet, StatusLoaded, Idle
  <2> QED BY <2>1, <2>3, <2>4 DEF MemoryInv, LastWordIsActive, OnlyOverlapsContradict,
                                  StatusIsRemembered, ActiveOf, Active
<1>3. ASSUME UNCHANGED vars PROVE MemoryInv'
  BY <1>3 DEF vars, MemoryInv, TypeOK, TxnInv, OwnRows, RowsMet, StatusLoaded, Idle,
              LastWordIsActive, OnlyOverlapsContradict, StatusIsRemembered, ActiveOf,
              Active
<1> QED BY <1>1, <1>2, <1>3 DEF Next

LEMMA MemoryInvariant == Spec => []MemoryInv
BY InitMemory, NextMemory, PTL DEF Spec

\* Rows and transactions keep the shape the code gives them (context.py,
\* application_status.py): a feedback of an unknown topic never becomes a memory, and
\* no transaction deactivates rows that are not there.
THEOREM MemoryTypeCorrect == Spec => []TypeOK
<1>1. MemoryInv => TypeOK
  BY DEF MemoryInv
<1> QED BY <1>1, MemoryInvariant, PTL

\* For any number of requests at once: of each key, the memory committed last is
\* active, so nobody's UPDATE deactivates what was said after it (context.py:25-46).
THEOREM LastWordStays == Spec => []LastWordIsActive
<1>1. MemoryInv => LastWordIsActive
  BY DEF MemoryInv
<1> QED BY <1>1, MemoryInvariant, PTL

\* For any number of requests at once: two active memories of one key come from
\* feedback that overlapped (context.py:25-46).
THEOREM ContradictionsNeedAnOverlap == Spec => []OnlyOverlapsContradict
<1>1. MemoryInv => OnlyOverlapsContradict
  BY DEF MemoryInv
<1> QED BY <1>1, MemoryInvariant, PTL

\* For any statuses and requests: a reported status has an active memory of it, since
\* both are one commit and another outcome has another key (feedback.py:61-66).
THEOREM StatusStaysRemembered == Spec => []StatusIsRemembered
<1>1. MemoryInv => StatusIsRemembered
  BY DEF MemoryInv
<1> QED BY <1>1, MemoryInvariant, PTL

\* For any number of requests: an outcome nobody overlaps is what the job shows, also
\* when it is not sent because the job has it already (application_status.py:33-35).
THEOREM LoneOutcomesShow == Spec => LoneOutcomesAreShown
<1> DEFINE Shown(w) == CommitFeedback(w) /\ txn[w].alone
             => status' = IF txn[w].fb.status = None THEN status ELSE txn[w].fb.status
<1>1. MemoryInv /\ [Next]_vars => [\A w \in Writers : Shown(w)]_vars
  <2> SUFFICES ASSUME MemoryInv, NEW w \in Writers, CommitFeedback(w), txn[w].alone
               PROVE  status' = IF txn[w].fb.status = None THEN status
                                ELSE txn[w].fb.status
    OBVIOUS
  <2>1. CASE txn[w].stage = "reported"
    BY <2>1 DEF CommitFeedback, MemoryInv, TxnInv, StatusLoaded
  <2>2. CASE txn[w].stage = "replaced" /\ ~IsSent(txn[w].fb, txn[w].loaded)
    BY <2>2 DEF CommitFeedback, IsSent, MemoryInv, TxnInv, StatusLoaded, Idle
  <2> QED BY <2>1, <2>2 DEF CommitFeedback
<1> QED BY <1>1, MemoryInvariant, PTL DEF Spec, LoneOutcomesAreShown
=============================================================================
