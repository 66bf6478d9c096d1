---------------------------- MODULE RadarProofs ----------------------------
(***************************************************************************)
(* Theorems about Radar, for every value of the constants.                 *)
(***************************************************************************)
EXTENDS RadarInvariants, TLAPS

USE DEF Origins, Watched, InFeed, Decisions, States, Stages, NoAge, Statuses

(***************************************************************************)
(* Type correctness                                                        *)
(***************************************************************************)

LEMMA EmptyRecords ==
  IdlePoll \in PollRecord /\ NoWork \in WorkRecord /\ IdleReq \in RequestRecord
BY TimeAssumption, BoundAssumption
DEF IdlePoll, NoWork, IdleReq, PollRecord, WorkRecord, RequestRecord

LEMMA InitType == Init => TypeOK
BY TimeAssumption, BoundAssumption, EmptyRecords DEF Init, TypeOK

LEMMA OlderType ==
  ASSUME NEW age, NEW cap \in Nat, age \in {NoAge} \cup (0..cap)
  PROVE  /\ Older(age, cap) \in {NoAge} \cup (0..cap)
         /\ age # NoAge => Older(age, cap) \in 0..cap
BY DEF Older

LEMMA SpawnedType ==
  ASSUME TypeOK, NEW c \in Companies, NEW o \in Origins
  PROVE  Spawned(queue, c, o) \in [Companies -> [Origins -> 0..QueueBound]]
BY BoundAssumption DEF TypeOK, Spawned

LEMMA DequeuedType ==
  ASSUME TypeOK, NEW c \in Companies, NEW o \in Origins, queue[c][o] > 0
  PROVE  Dequeued(c, o) \in [Companies -> [Origins -> 0..QueueBound]]
BY BoundAssumption DEF TypeOK, Dequeued

LEMMA FreedType ==
  ASSUME TypeOK, NEW p \in Slots, Freed(p)
  PROVE  poll' \in [Slots -> PollRecord] /\ work' \in [Slots -> WorkRecord]
BY EmptyRecords DEF TypeOK, Freed

LEMMA MovedType ==
  ASSUME TypeOK, NEW p \in Slots, NEW stage \in Stages, Moved(p, stage)
  PROVE  poll' \in [Slots -> PollRecord]
<1>1. [poll[p] EXCEPT !.stage = stage] \in PollRecord
  BY DEF TypeOK, PollRecord
<1> QED
  BY <1>1 DEF TypeOK, Moved

LEMMA WorkUpdates ==
  ASSUME NEW w \in WorkRecord, NEW A \in SUBSET Ids, NEW B \in SUBSET Ids,
         NEW C \in SUBSET Ids
  PROVE  /\ [w EXCEPT !.items = A, !.unseen = B] \in WorkRecord
         /\ [w EXCEPT !.items = A, !.unseen = B, !.rows = C] \in WorkRecord
         /\ [w EXCEPT !.items = A, !.rows = B] \in WorkRecord
         /\ [w EXCEPT !.rows = A] \in WorkRecord
         /\ [w EXCEPT !.lost = @ \cup A] \in WorkRecord
BY DEF WorkRecord

LEMMA MinuteType == TypeOK /\ Minute => TypeOK'
<1> SUFFICES ASSUME TypeOK, Minute PROVE TypeOK'
  OBVIOUS
<1>1. claimAge' \in [Companies -> {NoAge} \cup (0..StaleAfter)]
  BY TimeAssumption, OlderType DEF TypeOK, Minute
<1>2. polledAge' \in [Companies -> {NoAge} \cup (0..Interval)]
  BY TimeAssumption, OlderType DEF TypeOK, Minute
<1>3. \A p \in Slots : [poll[p] EXCEPT !.age = Older(@, StaleAfter)] \in PollRecord
  <2> TAKE p \in Slots
  <2>1. Older(poll[p].age, StaleAfter) \in 0..StaleAfter
    BY TimeAssumption, OlderType DEF TypeOK, PollRecord
  <2> QED
    BY <2>1 DEF TypeOK, PollRecord
<1>4. poll' \in [Slots -> PollRecord]
  BY <1>3 DEF TypeOK, Minute
<1> QED
  BY <1>1, <1>2, <1>4 DEF TypeOK, Minute, postingVars, jobVars

LEMMA ClaimType ==
  ASSUME TypeOK, NEW p \in Slots, NEW c \in Companies, NEW o \in Origins,
         ClaimCompany(p, c, o)
  PROVE  TypeOK'
<1>1. queue' \in [Companies -> [Origins -> 0..QueueBound]]
  BY DequeuedType DEF ClaimCompany
<1>2. claimAge' \in [Companies -> {NoAge} \cup (0..StaleAfter)]
  BY TimeAssumption DEF ClaimCompany, TypeOK
<1>3. poll' \in [Slots -> PollRecord]
  BY TimeAssumption DEF ClaimCompany, TypeOK, PollRecord
<1>4. work' \in [Slots -> WorkRecord]
  BY DEF ClaimCompany, TypeOK, NoWork, WorkRecord
<1> QED
  BY <1>1, <1>2, <1>3, <1>4 DEF ClaimCompany, TypeOK, feedVars

LEMMA FinishPollType ==
  ASSUME TypeOK, NEW p \in Slots, poll[p].co \in Companies,
         NEW outcome \in Watched, NEW scored \in SUBSET Ids,
         FinishPoll(p, outcome, scored) \/ FinishFails(p, scored)
  PROVE  TypeOK'
<1>1. poll' \in [Slots -> PollRecord] /\ work' \in [Slots -> WorkRecord]
  BY FreedType DEF FinishPoll, FinishFails
<1>2. CASE FinishPoll(p, outcome, scored)
  <2>1. status' \in [Companies -> Statuses]
    BY <1>2 DEF FinishPoll, StatusAfter, TypeOK
  <2>2. /\ claimAge' \in [Companies -> {NoAge} \cup (0..StaleAfter)]
        /\ polledAge' \in [Companies -> {NoAge} \cup (0..Interval)]
    BY <1>2, TimeAssumption DEF FinishPoll, TypeOK
  <2>3. posting' \in [Companies -> [Ids -> States]]
    BY <1>2 DEF FinishPoll, TypeOK
  <2> QED
    BY <1>1, <1>2, <2>1, <2>2, <2>3 DEF FinishPoll, TypeOK, jobVars
<1>3. CASE FinishFails(p, scored)
  BY <1>1, <1>3 DEF FinishFails, TypeOK, companyVars, feedVars
<1> QED
  BY <1>2, <1>3

LEMMA PollStepType ==
  ASSUME TypeOK, SlotsConsistent, NEW p \in Slots, PollStep(p)
  PROVE  TypeOK'
<1> DEFINE c == poll[p].co
<1>0. c \in Companies
  BY DEF SlotsConsistent, PollStep, FetchBoard, Triage, StorePostings,
         StoreFails, LoadUnscreened, FailPoll, Screen, Working, IdlePoll
<1>1. CASE FetchBoard(p)
  <2>1. work' \in [Slots -> WorkRecord]
    <3>1. PICK eligible \in SUBSET Ids :
             work' = [work EXCEPT ![p] = [@ EXCEPT
               !.items  = eligible \cap Present(c),
               !.unseen = eligible \ Present(c)]]
      BY <1>1 DEF FetchBoard
    <3>2. work[p] \in WorkRecord
      BY DEF TypeOK
    <3>3. [work[p] EXCEPT !.items  = eligible \cap Present(c),
                          !.unseen = eligible \ Present(c)] \in WorkRecord
      BY <3>2, WorkUpdates
    <3> QED
      BY <3>1, <3>3 DEF TypeOK
  <2> QED
    BY <1>1, <2>1, MovedType DEF FetchBoard, TypeOK, companyVars, feedVars
<1>2. CASE Triage(p)
  <2>1. work' \in [Slots -> WorkRecord]
    <3>1. PICK kept \in SUBSET work[p].unseen :
             work' = [work EXCEPT ![p] = [@ EXCEPT
               !.items = work[p].items \cup kept, !.unseen = {},
               !.rows = (work[p].items \cup kept) \cap Present(c)]]
      BY <1>2 DEF Triage
    <3>2. work[p] \in WorkRecord
      BY DEF TypeOK
    <3>3. work[p].items \cup kept \in SUBSET Ids
      BY <3>2 DEF WorkRecord
    <3>4. [work[p] EXCEPT !.items = work[p].items \cup kept, !.unseen = {},
             !.rows = (work[p].items \cup kept) \cap Present(c)] \in WorkRecord
      BY <3>2, <3>3, WorkUpdates
    <3> QED
      BY <3>1, <3>4 DEF TypeOK
  <2> QED
    BY <1>2, <2>1, MovedType DEF Triage, TypeOK, companyVars, feedVars
<1>3. CASE StorePostings(p)
  <2>1. work' \in [Slots -> WorkRecord]
    <3>1. work[p] \in WorkRecord
      BY DEF TypeOK
    <3>2. [work[p] EXCEPT !.items = {}, !.rows = {}] \in WorkRecord
      BY <3>1, WorkUpdates
    <3> QED
      BY <1>3, <3>2 DEF StorePostings, TypeOK
  <2>2. posting' \in [Companies -> [Ids -> States]]
    BY <1>0, <1>3 DEF StorePostings, TypeOK
  <2> QED
    BY <1>3, <2>1, <2>2, MovedType
    DEF StorePostings, TypeOK, companyVars, jobVars
<1>4. CASE StoreFails(p)
  BY <1>4, FreedType DEF StoreFails, TypeOK, companyVars, feedVars
<1>5. CASE LoadUnscreened(p)
  <2>1. work' \in [Slots -> WorkRecord]
    <3>1. work[p] \in WorkRecord
      BY DEF TypeOK
    <3>2. [work[p] EXCEPT !.rows = {x \in Ids : posting[c][x] = "new"}]
            \in WorkRecord
      BY <3>1, WorkUpdates
    <3> QED
      BY <1>5, <3>2 DEF LoadUnscreened, TypeOK
  <2> QED
    BY <1>5, <2>1, MovedType DEF LoadUnscreened, TypeOK, companyVars, feedVars
<1>6. CASE FailPoll(p)
  BY <1>0, <1>6, FinishPollType DEF FailPoll
<1>7. CASE Screen(p)
  BY <1>0, <1>7, FinishPollType DEF Screen, TypeOK, WorkRecord
<1> QED
  BY <1>1, <1>2, <1>3, <1>4, <1>5, <1>6, <1>7 DEF PollStep

LEMMA ReqBereavedType ==
  ASSUME TypeOK, NEW gone(_), req' = ReqBereaved(gone)
  PROVE  req' \in [Requests -> RequestRecord]
<1>1. \A r \in Requests : [req[r] EXCEPT !.lost = TRUE] \in RequestRecord
  BY DEF TypeOK, RequestRecord
<1> QED
  BY <1>1 DEF TypeOK, ReqBereaved

LEMMA CompanyRequestType ==
  ASSUME TypeOK, NEW c \in Companies,
         \/ AddCompany(c) \/ PollNow(c) \/ QueueDuePoll(c)
         \/ \E s \in {"active", "paused"} : SetStatus(c, s)
         \/ \E o \in Origins : RefuseClaim(c, o)
  PROVE  TypeOK'
<1>1. CASE AddCompany(c)
  BY <1>1, SpawnedType DEF AddCompany, TypeOK, feedVars
<1>2. CASE PollNow(c)
  BY <1>2, SpawnedType DEF PollNow, TypeOK, feedVars, companyVars
<1>3. CASE QueueDuePoll(c)
  BY <1>3, SpawnedType
  DEF QueueDuePoll, TypeOK, companyVars, postingVars, jobVars
<1>4. CASE \E s \in {"active", "paused"} : SetStatus(c, s)
  BY <1>4 DEF SetStatus, TypeOK, feedVars, memoryVars
<1>5. CASE \E o \in Origins : RefuseClaim(c, o)
  BY <1>5, DequeuedType DEF RefuseClaim, TypeOK, feedVars, companyVars
<1> QED
  BY <1>1, <1>2, <1>3, <1>4, <1>5

LEMMA RemoveCompanyType ==
  ASSUME TypeOK, NEW c \in Companies, RemoveCompany(c)
  PROVE  TypeOK'
<1>1. /\ status' \in [Companies -> Statuses]
      /\ claimAge' \in [Companies -> {NoAge} \cup (0..StaleAfter)]
      /\ polledAge' \in [Companies -> {NoAge} \cup (0..Interval)]
  BY DEF RemoveCompany, TypeOK
<1>2. /\ posting' \in [Companies -> [Ids -> States]]
      /\ linked' \in [Companies -> [Ids -> BOOLEAN]]
      /\ decided' \in [Companies -> [Ids -> BOOLEAN]]
  <2>1. posting' \in [Companies -> [Ids -> States]]
    BY DEF RemoveCompany, TypeOK
  <2>2. linked' \in [Companies -> [Ids -> BOOLEAN]]
    BY DEF RemoveCompany, TypeOK
  <2>3. decided' \in [Companies -> [Ids -> BOOLEAN]]
    BY DEF RemoveCompany, TypeOK
  <2> QED
    BY <2>1, <2>2, <2>3
<1>3. poll' \in [Slots -> PollRecord]
  <2>1. \A p \in Slots : [poll[p] EXCEPT !.orphan = TRUE] \in PollRecord
    BY DEF TypeOK, PollRecord
  <2> QED
    BY <2>1 DEF RemoveCompany, TypeOK
<1>4. work' \in [Slots -> WorkRecord]
  <2>1. \A p \in Slots : work[p] \in WorkRecord
    BY DEF TypeOK
  <2>2. \A p \in Slots : work[p].rows \cap Present(c) \in SUBSET Ids
    BY DEF Present
  <2>3. \A p \in Slots :
          [work[p] EXCEPT !.lost = @ \cup (work[p].rows \cap Present(c))]
            \in WorkRecord
    BY <2>1, <2>2, WorkUpdates
  <2> QED
    BY <2>1, <2>3 DEF RemoveCompany, Bereaved
<1>5. req' \in [Requests -> RequestRecord]
  BY ReqBereavedType DEF RemoveCompany
<1> QED
  BY <1>1, <1>2, <1>3, <1>4, <1>5 DEF RemoveCompany, TypeOK

LEMMA SetRadarTargetType ==
  ASSUME TypeOK, SetRadarTarget
  PROVE  TypeOK'
<1>1. target' \in 0..MaxRetargets
  BY BoundAssumption DEF SetRadarTarget, Retargeted, TypeOK
<1>2. /\ posting' \in [Companies -> [Ids -> States]]
      /\ linked' \in [Companies -> [Ids -> BOOLEAN]]
      /\ decided' \in [Companies -> [Ids -> BOOLEAN]]
  <2>1. posting' \in [Companies -> [Ids -> States]]
    BY DEF SetRadarTarget, Retargeted, TypeOK
  <2>2. linked' \in [Companies -> [Ids -> BOOLEAN]]
    BY DEF SetRadarTarget, Retargeted, TypeOK
  <2>3. decided' \in [Companies -> [Ids -> BOOLEAN]]
    BY DEF SetRadarTarget, Retargeted, TypeOK
  <2> QED
    BY <2>1, <2>2, <2>3
<1>3. polledAge' \in [Companies -> {NoAge} \cup (0..Interval)]
  BY DEF SetRadarTarget, Retargeted, TypeOK
<1>4. queue' \in [Companies -> [Origins -> 0..QueueBound]]
  BY SpawnedType DEF SetRadarTarget, Retargeted, TypeOK
<1>5. work' \in [Slots -> WorkRecord]
  <2>1. \A p \in Slots : work[p] \in WorkRecord
    BY DEF TypeOK
  <2>2. \A p \in Slots : work[p].rows \cap Cleared(poll[p].co) \in SUBSET Ids
    BY DEF Cleared
  <2>3. \A p \in Slots :
          [work[p] EXCEPT
             !.lost = @ \cup (work[p].rows \cap Cleared(poll[p].co))]
            \in WorkRecord
    BY <2>1, <2>2, WorkUpdates
  <2> QED
    BY <2>1, <2>3 DEF SetRadarTarget, Retargeted
<1>6. req' \in [Requests -> RequestRecord]
  BY ReqBereavedType DEF SetRadarTarget, Retargeted
<1> QED
  BY <1>1, <1>2, <1>3, <1>4, <1>5, <1>6 DEF SetRadarTarget, Retargeted, TypeOK

LEMMA PostingRequestType ==
  ASSUME TypeOK, NEW c \in Companies, NEW x \in Ids,
         \/ DismissPosting(c, x) \/ LinkToExistingJob(c, x)
         \/ CreateJob(c, x) \/ DeleteJob(c, x)
         \/ \E r \in Requests : StartPromotion(r, c, x)
  PROVE  TypeOK'
<1>1. CASE DismissPosting(c, x)
  BY <1>1 DEF DismissPosting, TypeOK, companyVars, jobVars, memoryVars
<1>2. CASE LinkToExistingJob(c, x)
  BY <1>2 DEF LinkToExistingJob, Promoted, TypeOK, companyVars, memoryVars
<1>3. ASSUME NEW r \in Requests, StartPromotion(r, c, x) PROVE TypeOK'
  <2>1. req' \in [Requests -> RequestRecord]
    BY <1>3 DEF StartPromotion, TypeOK, RequestRecord
  <2> QED
    BY <1>3, <2>1 DEF StartPromotion, TypeOK, companyVars, feedVars
<1>4. CASE CreateJob(c, x)
  BY <1>4 DEF CreateJob, TypeOK, companyVars, postingVars, memoryVars
<1>5. CASE DeleteJob(c, x)
  <2>1. jobs[c][x] - 1 \in Nat
    BY <1>5 DEF DeleteJob, TypeOK
  <2> QED
    BY <1>5, <2>1 DEF DeleteJob, TypeOK, companyVars, postingVars, memoryVars
<1> QED
  BY <1>1, <1>2, <1>3, <1>4, <1>5

LEMMA PromotionType ==
  ASSUME TypeOK, RequestsConsistent, NEW r \in Requests,
         FinishPromotion(r) \/ AbandonPromotion(r)
  PROVE  TypeOK'
<1>1. req' \in [Requests -> RequestRecord]
  BY EmptyRecords DEF FinishPromotion, AbandonPromotion, TypeOK
<1>2. CASE FinishPromotion(r)
  <2>1. req[r].co \in Companies /\ req[r].x \in Ids
    BY <1>2 DEF FinishPromotion, RequestsConsistent
  <2> QED
    BY <1>1, <1>2, <2>1 DEF FinishPromotion, Promoted, TypeOK, companyVars
<1>3. CASE AbandonPromotion(r)
  BY <1>1, <1>3 DEF AbandonPromotion, TypeOK, companyVars, feedVars
<1> QED
  BY <1>2, <1>3

LEMMA RestartType == TypeOK /\ Restart => TypeOK'
BY BoundAssumption, EmptyRecords DEF Restart, TypeOK, companyVars, feedVars

(***************************************************************************)
(* Tasks and requests are about companies and postings                     *)
(***************************************************************************)

LEMMA SlotsStep ==
  ASSUME TypeOK, SlotsConsistent, [Next]_vars
  PROVE  SlotsConsistent'
<1> USE DEF SlotsConsistent, Working
<1>1. CASE Minute
  <2> SUFFICES ASSUME NEW p \in Slots
               PROVE  IF poll'[p].stage # "idle" THEN poll'[p].co \in Companies
                                                 ELSE poll'[p] = IdlePoll
    OBVIOUS
  <2>1. poll[p] \in PollRecord
    BY DEF TypeOK
  <2> QED
    BY <1>1, <2>1 DEF Minute, PollRecord
<1>2. ASSUME NEW p \in Slots, NEW c \in Companies, NEW o \in Origins,
             ClaimCompany(p, c, o)
      PROVE  SlotsConsistent'
  BY <1>2 DEF ClaimCompany, TypeOK
<1>3. ASSUME NEW p \in Slots, PollStep(p) PROVE SlotsConsistent'
  <2>1. CASE Freed(p)
    BY <2>1 DEF Freed, TypeOK, IdlePoll
  <2>2. ASSUME NEW stage \in Stages, Moved(p, stage), poll[p].stage # "idle"
        PROVE  SlotsConsistent'
    <3>1. poll[p] \in PollRecord
      BY DEF TypeOK
    <3> QED
      BY <2>2, <3>1 DEF Moved, TypeOK, PollRecord
  <2> QED
    BY <1>3, <2>1, <2>2 DEF PollStep, FetchBoard, Triage, StorePostings,
      StoreFails, LoadUnscreened, FailPoll, Screen, FinishPoll, FinishFails
<1>4. ASSUME NEW c \in Companies, RemoveCompany(c) PROVE SlotsConsistent'
  <2> SUFFICES ASSUME NEW p \in Slots
               PROVE  IF poll'[p].stage # "idle" THEN poll'[p].co \in Companies
                                                 ELSE poll'[p] = IdlePoll
    OBVIOUS
  <2>1. poll[p] \in PollRecord
    BY DEF TypeOK
  <2>2. poll'[p] = IF p \in PollsOf(c) THEN [poll[p] EXCEPT !.orphan = TRUE]
                                      ELSE poll[p]
    BY <1>4 DEF RemoveCompany
  <2>3. CASE p \in PollsOf(c)
    <3>1. poll[p].co = c /\ c # None
      BY <2>3, CompanyAssumption DEF PollsOf
    <3>2. poll[p].stage # "idle"
      BY <3>1 DEF IdlePoll
    <3> QED
      BY <2>1, <2>2, <2>3, <3>2 DEF PollRecord
  <2> QED
    BY <2>2, <2>3
<1>5. CASE Restart
  BY <1>5 DEF Restart, IdlePoll
<1>6. CASE UNCHANGED poll
  BY <1>6
<1> QED
  BY <1>1, <1>2, <1>3, <1>4, <1>5, <1>6
  DEF Next, UserStep, QueueDuePoll, RefuseClaim, AddCompany, PollNow, SetStatus,
      DismissPosting, LinkToExistingJob, StartPromotion, SetRadarTarget, Retargeted,
      CreateJob, DeleteJob,
      FinishPromotion, AbandonPromotion, memoryVars, vars

LEMMA RequestsStep ==
  ASSUME TypeOK, RequestsConsistent, [Next]_vars
  PROVE  RequestsConsistent'
<1> USE DEF RequestsConsistent
<1>1. ASSUME NEW gone(_), req' = ReqBereaved(gone) PROVE RequestsConsistent'
  <2> SUFFICES ASSUME NEW r \in Requests, req'[r].stage = "structuring"
               PROVE  req'[r].co \in Companies /\ req'[r].x \in Ids
    OBVIOUS
  <2>1. req[r] \in RequestRecord
    BY DEF TypeOK
  <2> QED
    BY <1>1, <2>1 DEF ReqBereaved, RequestRecord
<1>2. ASSUME NEW r \in Requests, NEW c \in Companies, NEW x \in Ids,
             StartPromotion(r, c, x)
      PROVE  RequestsConsistent'
  BY <1>2 DEF StartPromotion, TypeOK
<1>3. ASSUME NEW r \in Requests, FinishPromotion(r) \/ AbandonPromotion(r)
      PROVE  RequestsConsistent'
  <2>1. /\ req' = [req EXCEPT ![r] = IdleReq]
        /\ req \in [Requests -> RequestRecord]
    BY <1>3 DEF FinishPromotion, AbandonPromotion, TypeOK
  <2>2. IdleReq.stage # "structuring"
    BY DEF IdleReq
  <2> QED
    BY <2>1, <2>2
<1>4. CASE Restart
  BY <1>4 DEF Restart, IdleReq
<1>5. CASE UNCHANGED req
  BY <1>5
<1>6. ASSUME NEW p \in Slots, PollStep(p) PROVE UNCHANGED req
  BY <1>6 DEF PollStep, FetchBoard, Triage, StorePostings, StoreFails,
              LoadUnscreened, FailPoll, Screen, FinishPoll, FinishFails
<1>7. ASSUME NEW c \in Companies, RemoveCompany(c) PROVE RequestsConsistent'
  BY <1>1, <1>7 DEF RemoveCompany
<1>8. CASE SetRadarTarget
  BY <1>1, <1>8 DEF SetRadarTarget, Retargeted
<1> QED
  BY <1>2, <1>3, <1>4, <1>5, <1>6, <1>7, <1>8
  DEF Next, UserStep, QueueDuePoll, RefuseClaim, ClaimCompany, AddCompany,
      PollNow, SetStatus, DismissPosting, LinkToExistingJob, Minute,
      CreateJob, DeleteJob,
      memoryVars, vars

(***************************************************************************)
(* Types hold throughout.                                                  *)
(***************************************************************************)

LEMMA TypeInvInit == Init => TypeInv
BY InitType
DEF Init, TypeInv, SlotsConsistent, RequestsConsistent, Working, IdlePoll, IdleReq

LEMMA TypeInvStep == TypeInv /\ [Next]_vars => TypeInv'
<1> SUFFICES ASSUME TypeOK, SlotsConsistent, RequestsConsistent, [Next]_vars
             PROVE  TypeOK'
  BY SlotsStep, RequestsStep DEF TypeInv
<1>1. CASE Minute
  BY <1>1, MinuteType
<1>2. ASSUME NEW c \in Companies,
             \/ AddCompany(c) \/ PollNow(c) \/ QueueDuePoll(c)
             \/ \E s \in {"active", "paused"} : SetStatus(c, s)
             \/ \E o \in Origins : RefuseClaim(c, o)
      PROVE  TypeOK'
  BY <1>2, CompanyRequestType
<1>3. ASSUME NEW p \in Slots, NEW c \in Companies, NEW o \in Origins,
             ClaimCompany(p, c, o)
      PROVE  TypeOK'
  BY <1>3, ClaimType
<1>4. ASSUME NEW p \in Slots, PollStep(p) PROVE TypeOK'
  BY <1>4, PollStepType
<1>5. ASSUME NEW c \in Companies, RemoveCompany(c) PROVE TypeOK'
  BY <1>5, RemoveCompanyType
<1>6. ASSUME NEW c \in Companies, NEW x \in Ids,
             \/ DismissPosting(c, x) \/ LinkToExistingJob(c, x)
             \/ CreateJob(c, x) \/ DeleteJob(c, x)
             \/ \E r \in Requests : StartPromotion(r, c, x)
      PROVE  TypeOK'
  BY <1>6, PostingRequestType
<1>7. CASE SetRadarTarget
  BY <1>7, SetRadarTargetType
<1>8. ASSUME NEW r \in Requests, FinishPromotion(r) \/ AbandonPromotion(r)
      PROVE  TypeOK'
  BY <1>8, PromotionType
<1>9. CASE Restart
  BY <1>9, RestartType
<1>10. CASE UNCHANGED vars
  BY <1>10 DEF vars, companyVars, postingVars, jobVars, memoryVars, TypeOK
<1> QED
  BY <1>1, <1>2, <1>3, <1>4, <1>5, <1>6, <1>7, <1>8, <1>9, <1>10
  DEF Next, UserStep

LEMMA TypeInvHolds == Spec => []TypeInv
BY TypeInvInit, TypeInvStep, PTL DEF Spec

\* Rows and records keep their types, whatever the order of polls, requests,
\* minutes and restarts.
THEOREM TypeCorrect == Spec => []TypeOK
BY TypeInvHolds, PTL DEF TypeInv

(***************************************************************************)
(* The claim is exclusive as long as polls are shorter than it.            *)
(*                                                                         *)
(* ExclusiveClaim is not inductive: a state in which a running poll's      *)
(* company shows no claim satisfies it, and the next claim breaks it.      *)
(* HeldClaims says what is missing - a running poll's claim is on the row, *)
(* as old as the poll, and no older than a poll gets.                      *)
(***************************************************************************)

LEMMA LeaseInit == Init => LeaseInv
BY CompanyAssumption
DEF Init, LeaseInv, HeldClaims, ExclusiveClaim, PollsOf, Working, IdlePoll

\* In a slot that serves company c, a poll works.
LEMMA ServersWork ==
  ASSUME SlotsConsistent, NEW c \in Companies, NEW p \in PollsOf(c)
  PROVE  p \in Slots /\ Working(p) /\ poll[p].co = c /\ ~poll[p].orphan
BY CompanyAssumption DEF SlotsConsistent, PollsOf, IdlePoll

LEMMA ClaimedOnlyIfFree ==
  ASSUME TypeInv, LeaseInv, PollDeadline < StaleAfter,
         NEW c \in Companies, ~ClaimIsLive(c)
  PROVE  PollsOf(c) = {}
<1> SUFFICES ASSUME NEW p \in PollsOf(c) PROVE FALSE
  OBVIOUS
<1>1. p \in Slots /\ Working(p) /\ poll[p].co = c /\ ~poll[p].orphan
  BY ServersWork DEF TypeInv
<1>2. poll[p].age \in 0..StaleAfter
  BY <1>1 DEF TypeInv, TypeOK, PollRecord
<1>3. claimAge[c] = poll[p].age /\ poll[p].age <= PollDeadline
  BY <1>1 DEF LeaseInv, HeldClaims
<1> QED
  BY <1>2, <1>3, TimeAssumption DEF ClaimIsLive

LEMMA LeaseStep ==
  ASSUME TypeInv, LeaseInv, [Next]_vars, PollDeadline < StaleAfter
  PROVE  LeaseInv'
<1> USE DEF TypeInv, LeaseInv
<1>0. \A p \in Slots : poll[p] \in PollRecord
  BY DEF TypeOK
<1>1. CASE Minute
  <2>1. ASSUME NEW p \in Slots
        PROVE  /\ poll'[p].co = poll[p].co /\ poll'[p].orphan = poll[p].orphan
               /\ poll'[p].stage = poll[p].stage
               /\ Working(p) => poll'[p].age = Older(poll[p].age, StaleAfter)
    BY <1>0, <1>1 DEF Minute, PollRecord
  <2>2. HeldClaims'
    <3> SUFFICES ASSUME NEW p \in Slots, Working(p), ~poll[p].orphan
                 PROVE  /\ claimAge'[poll[p].co] = Older(poll[p].age, StaleAfter)
                        /\ Older(poll[p].age, StaleAfter) <= PollDeadline
      BY <2>1 DEF HeldClaims, Working
    <3>1. poll[p].co \in Companies
      BY DEF SlotsConsistent
    <3>2. claimAge[poll[p].co] = poll[p].age
      BY DEF HeldClaims
    <3>3. poll[p].age \in 0..StaleAfter /\ poll[p].age < PollDeadline
      BY <1>0, <1>1, TimeAssumption DEF Minute, PollRecord
    <3> QED
      BY <1>1, <3>1, <3>2, <3>3, TimeAssumption DEF Minute, Older
  <2>3. ExclusiveClaim'
    BY <2>1 DEF ExclusiveClaim, PollsOf
  <2> QED
    BY <2>2, <2>3
<1>2. ASSUME NEW p \in Slots, NEW c \in Companies, NEW o \in Origins,
             ClaimCompany(p, c, o)
      PROVE  LeaseInv'
  <2>1. PollsOf(c) = {}
    BY <1>2, ClaimedOnlyIfFree DEF ClaimCompany
  <2>2. /\ claimAge'[c] = 0
        /\ \A d \in Companies \ {c} : claimAge'[d] = claimAge[d]
    BY <1>2 DEF ClaimCompany, TypeOK
  <2>3. /\ poll'[p].co = c /\ poll'[p].age = 0
        /\ \A q \in Slots \ {p} : poll'[q] = poll[q]
    BY <1>2 DEF ClaimCompany, TypeOK
  <2>4. \A q \in Slots \ {p} : ~poll[q].orphan => poll[q].co # c
    BY <2>1 DEF PollsOf
  <2>5. HeldClaims'
    BY <2>2, <2>3, <2>4, TimeAssumption
    DEF HeldClaims, Working, SlotsConsistent
  <2>6. ExclusiveClaim'
    BY <2>3, <2>4 DEF ExclusiveClaim, PollsOf
  <2> QED
    BY <2>5, <2>6
<1>3. ASSUME NEW p \in Slots, PollStep(p) PROVE LeaseInv'
  <2>0. poll[p].co \in Companies
    BY <1>3 DEF SlotsConsistent, PollStep, FetchBoard, Triage, StorePostings,
                StoreFails, LoadUnscreened, FailPoll, Screen, Working, IdlePoll
  <2>1. ASSUME NEW stage \in Stages, Moved(p, stage), poll[p].stage # "idle",
               UNCHANGED claimAge
        PROVE  LeaseInv'
    <3>1. \A q \in Slots : /\ poll'[q].co = poll[q].co
                           /\ poll'[q].orphan = poll[q].orphan
                           /\ poll'[q].age = poll[q].age
                           /\ poll'[q].stage # "idle" => poll[q].stage # "idle"
      BY <1>0, <2>1 DEF Moved, PollRecord, TypeOK
    <3> QED
      BY <2>1, <3>1 DEF HeldClaims, ExclusiveClaim, PollsOf, Working
  <2>2. ASSUME Freed(p),
               \/ UNCHANGED claimAge
               \/ /\ ~poll[p].orphan
                  /\ claimAge' = [claimAge EXCEPT ![poll[p].co] = NoAge]
        PROVE  LeaseInv'
    <3>1. /\ poll'[p] = IdlePoll
          /\ \A q \in Slots \ {p} : poll'[q] = poll[q]
      BY <2>2 DEF Freed, TypeOK
    <3>2. ASSUME NEW q \in Slots \ {p}, Working(q), ~poll[q].orphan
          PROVE  claimAge'[poll[q].co] = claimAge[poll[q].co]
      <4>1. poll[q].co \in Companies
        BY <3>2 DEF SlotsConsistent
      <4>2. ~poll[p].orphan => poll[p].co # poll[q].co
        BY <3>2, <4>1 DEF ExclusiveClaim, PollsOf
      <4> QED
        BY <2>2, <4>1, <4>2 DEF TypeOK
    <3>3. HeldClaims'
      BY <3>1, <3>2 DEF HeldClaims, Working, IdlePoll
    <3>4. ExclusiveClaim'
      BY <3>1, CompanyAssumption DEF ExclusiveClaim, PollsOf, IdlePoll
    <3> QED
      BY <3>3, <3>4
  <2> QED
    BY <1>3, <2>1, <2>2
    DEF PollStep, FetchBoard, Triage, StorePostings, StoreFails, companyVars,
        LoadUnscreened, FailPoll, Screen, FinishPoll, FinishFails
<1>4. ASSUME NEW c \in Companies, RemoveCompany(c) PROVE LeaseInv'
  <2>1. ASSUME NEW p \in Slots
        PROVE  /\ poll'[p].co = poll[p].co
               /\ poll'[p].age = poll[p].age
               /\ poll'[p].stage = poll[p].stage
               /\ ~poll'[p].orphan => ~poll[p].orphan /\ poll[p].co # c
    <3>1. poll'[p] = IF p \in PollsOf(c) THEN [poll[p] EXCEPT !.orphan = TRUE]
                                        ELSE poll[p]
      BY <1>4 DEF RemoveCompany
    <3>2. poll[p] \in PollRecord
      BY <1>0
    <3> QED
      BY <3>1, <3>2 DEF PollRecord, PollsOf
  <2>2. \A d \in Companies \ {c} : claimAge'[d] = claimAge[d]
    BY <1>4 DEF RemoveCompany, TypeOK
  <2>3. HeldClaims'
    BY <2>1, <2>2 DEF HeldClaims, Working, SlotsConsistent
  <2>4. ExclusiveClaim'
    BY <2>1 DEF ExclusiveClaim, PollsOf
  <2> QED
    BY <2>3, <2>4
<1>5. CASE Restart
  BY <1>5, CompanyAssumption
  DEF Restart, IdlePoll, HeldClaims, ExclusiveClaim, PollsOf, Working
<1>6. CASE UNCHANGED <<poll, claimAge>>
  BY <1>6 DEF HeldClaims, ExclusiveClaim, PollsOf, Working
<1> QED
  BY <1>1, <1>2, <1>3, <1>4, <1>5, <1>6
  DEF Next, UserStep, QueueDuePoll, RefuseClaim, AddCompany, PollNow, SetStatus,
      DismissPosting, LinkToExistingJob, StartPromotion, SetRadarTarget, Retargeted,
      CreateJob, DeleteJob,
      FinishPromotion, AbandonPromotion, memoryVars, companyVars, vars

LEMMA LeaseInvHolds ==
  ASSUME PollDeadline < StaleAfter
  PROVE  Spec => []LeaseInv
<1>1. TypeInv /\ LeaseInv /\ [Next]_vars => LeaseInv'
  BY LeaseStep
<1> QED
  BY <1>1, LeaseInit, TypeInvHolds, PTL DEF Spec

\* claim_company keeps two polls of one company apart, for any number of
\* companies, polls and restarts, if no poll lasts as long as
\* radar_stale_claim_minutes.
THEOREM ClaimIsExclusive ==
  ASSUME PollDeadline < StaleAfter
  PROVE  Spec => []ExclusiveClaim
BY LeaseInvHolds, PTL DEF LeaseInv

(***************************************************************************)
(* Promoted postings lead to jobs                                          *)
(***************************************************************************)

LEMMA FinishPollPosting ==
  ASSUME TypeInv, NEW p \in Slots, poll[p].co \in Companies,
         NEW outcome, NEW scored \in SUBSET Ids,
         FinishPoll(p, outcome, scored)
  PROVE  \A c \in Companies, x \in Ids :
           posting'[c][x] = IF c = poll[p].co /\ x \in scored THEN "screened"
                                                            ELSE posting[c][x]
BY DEF FinishPoll, TypeInv, TypeOK

LEMMA StorePosting ==
  ASSUME TypeInv, NEW p \in Slots, poll[p].co \in Companies, StorePostings(p)
  PROVE  \A c \in Companies, x \in Ids :
           posting'[c][x] = IF c = poll[p].co /\ x \in Fresh(p) THEN "new"
                                                             ELSE posting[c][x]
BY DEF StorePostings, TypeInv, TypeOK

LEMMA PollsHaveCompanies ==
  ASSUME TypeInv, NEW p \in Slots, PollStep(p)
  PROVE  poll[p].co \in Companies /\ work[p].rows \in SUBSET Ids
BY DEF TypeInv, TypeOK, WorkRecord, SlotsConsistent, PollStep, FetchBoard,
       Triage, StorePostings, StoreFails, LoadUnscreened, FailPoll, Screen,
       Working, IdlePoll

\* A poll changes a row in two ways: it inserts it, or scores it.
LEMMA PollStepPosting ==
  ASSUME TypeInv, NEW p \in Slots, PollStep(p)
  PROVE  /\ UNCHANGED <<linked, jobs, req>>
         /\ \A c \in Companies, x \in Ids :
              \/ posting'[c][x] = posting[c][x]
              \/ /\ StorePostings(p) /\ c = poll[p].co /\ x \in Fresh(p)
                 /\ posting'[c][x] = "new"
              \/ /\ ~poll[p].orphan /\ c = poll[p].co
                 /\ x \in work[p].rows \ work[p].lost
                 /\ posting'[c][x] = "screened"
<1>1. UNCHANGED <<linked, jobs, req>>
  BY DEF PollStep, FetchBoard, Triage, StorePostings, StoreFails, FailPoll,
         LoadUnscreened, Screen, FinishPoll, FinishFails, jobVars, feedVars
<1>2. CASE StorePostings(p)
  BY <1>1, <1>2, StorePosting, PollsHaveCompanies
<1>3. ASSUME NEW outcome, NEW scored \in SUBSET work[p].rows,
             FinishPoll(p, outcome, scored)
      PROVE  \A c \in Companies, x \in Ids :
               \/ posting'[c][x] = posting[c][x]
               \/ /\ ~poll[p].orphan /\ c = poll[p].co
                  /\ x \in work[p].rows \ work[p].lost
                  /\ posting'[c][x] = "screened"
  <2>1. scored \in SUBSET Ids /\ poll[p].co \in Companies
    BY PollsHaveCompanies
  <2>2. ~poll[p].orphan /\ scored \cap work[p].lost = {}
    BY <1>3 DEF FinishPoll
  <2>3. \A c \in Companies, x \in Ids :
           posting'[c][x] = IF c = poll[p].co /\ x \in scored THEN "screened"
                                                            ELSE posting[c][x]
    BY <1>3, <2>1, FinishPollPosting
  <2> QED
    BY <2>2, <2>3
<1>4. CASE Screen(p)
  <2>1. CASE UNCHANGED posting
    BY <1>1, <2>1
  <2> QED
    BY <1>1, <1>3, <1>4, <2>1 DEF Screen, FinishFails, feedVars
<1>5. CASE FailPoll(p)
  <2>1. CASE UNCHANGED posting
    BY <1>1, <2>1
  <2> QED
    BY <1>1, <1>3, <1>5, <2>1 DEF FailPoll, FinishFails, feedVars
<1>6. CASE UNCHANGED posting
  BY <1>1, <1>6
<1> QED
  BY <1>2, <1>4, <1>5, <1>6
  DEF PollStep, FetchBoard, Triage, StoreFails, LoadUnscreened, feedVars

LEMMA SetRadarTargetPosting ==
  ASSUME TypeInv, SetRadarTarget, NEW c \in Companies, NEW x \in Ids
  PROVE  /\ posting'[c][x] = IF x \in Cleared(c) THEN "none" ELSE posting[c][x]
         /\ linked'[c][x] => linked[c][x] /\ x \notin Cleared(c)
         /\ linked[c][x] /\ x \notin Cleared(c) => linked'[c][x]
BY DEF SetRadarTarget, Retargeted

LEMMA RemoveCompanyPosting ==
  ASSUME TypeInv, NEW c \in Companies, RemoveCompany(c),
         NEW d \in Companies, NEW x \in Ids
  PROVE  /\ c = d => posting'[d][x] = "none" /\ linked'[d][x] = FALSE
         /\ c # d => posting'[d][x] = posting[d][x] /\ linked'[d][x] = linked[d][x]
BY DEF RemoveCompany, TypeInv, TypeOK

LEMMA PromotedLeadsToJobStep ==
  ASSUME TypeInv, PromotedLeadsToJob, [Next]_vars
  PROVE  PromotedLeadsToJob'
<1> SUFFICES ASSUME NEW c \in Companies, NEW x \in Ids
             PROVE  /\ posting'[c][x] = "promoted" => linked'[c][x]
                    /\ linked'[c][x] => jobs'[c][x] > 0
  BY DEF PromotedLeadsToJob
<1>0. /\ posting[c][x] = "promoted" => linked[c][x]
      /\ linked[c][x] => jobs[c][x] > 0
      /\ jobs[c][x] \in Nat
  BY DEF PromotedLeadsToJob, TypeInv, TypeOK
<1>1. ASSUME NEW p \in Slots, PollStep(p)
      PROVE  (posting'[c][x] = "promoted" => linked'[c][x])
             /\ (linked'[c][x] => jobs'[c][x] > 0)
  BY <1>0, <1>1, PollStepPosting
<1>2. CASE SetRadarTarget
  <2>1. UNCHANGED jobs
    BY <1>2 DEF SetRadarTarget, Retargeted
  <2> QED
    BY <1>0, <1>2, <2>1, SetRadarTargetPosting
<1>3. ASSUME NEW d \in Companies, RemoveCompany(d)
      PROVE  (posting'[c][x] = "promoted" => linked'[c][x])
             /\ (linked'[c][x] => jobs'[c][x] > 0)
  <2>1. UNCHANGED jobs
    BY <1>3 DEF RemoveCompany
  <2> QED
    BY <1>0, <1>3, <2>1, RemoveCompanyPosting
<1>4. ASSUME NEW d \in Companies, NEW y \in Ids, DismissPosting(d, y)
      PROVE  (posting'[c][x] = "promoted" => linked'[c][x])
             /\ (linked'[c][x] => jobs'[c][x] > 0)
  BY <1>0, <1>4 DEF DismissPosting, TypeInv, TypeOK, jobVars
<1>5. ASSUME NEW d \in Companies, NEW y \in Ids, LinkToExistingJob(d, y)
      PROVE  (posting'[c][x] = "promoted" => linked'[c][x])
             /\ (linked'[c][x] => jobs'[c][x] > 0)
  <2>1. UNCHANGED jobs /\ Promoted(d, y) /\ jobs[d][y] > 0
    BY <1>5 DEF LinkToExistingJob
  <2>2. IF c = d /\ x = y
        THEN posting'[c][x] = "promoted" /\ linked'[c][x] = TRUE
        ELSE posting'[c][x] = posting[c][x] /\ linked'[c][x] = linked[c][x]
    BY <2>1 DEF Promoted, TypeInv, TypeOK
  <2> QED
    BY <1>0, <2>1, <2>2
<1>6. ASSUME NEW r \in Requests, FinishPromotion(r)
      PROVE  (posting'[c][x] = "promoted" => linked'[c][x])
             /\ (linked'[c][x] => jobs'[c][x] > 0)
  <2> DEFINE d == req[r].co
             y == req[r].x
  <2>1. d \in Companies /\ y \in Ids /\ Promoted(d, y)
    BY <1>6 DEF FinishPromotion, TypeInv, RequestsConsistent
  <2>2. jobs' = [jobs EXCEPT ![d][y] = @ + 1]
    BY <1>6 DEF FinishPromotion
  <2>3. jobs[d][y] \in Nat /\ jobs \in [Companies -> [Ids -> Nat]]
    BY <2>1 DEF TypeInv, TypeOK
  <2>4. jobs'[c][x] = IF c = d /\ x = y THEN jobs[d][y] + 1 ELSE jobs[c][x]
    BY <2>1, <2>2, <2>3
  <2>5. IF c = d /\ x = y
        THEN posting'[c][x] = "promoted" /\ linked'[c][x] = TRUE
        ELSE posting'[c][x] = posting[c][x] /\ linked'[c][x] = linked[c][x]
    BY <2>1 DEF Promoted, TypeInv, TypeOK
  <2> QED
    BY <1>0, <2>3, <2>4, <2>5
<1>7. CASE UNCHANGED <<posting, linked, jobs>>
  BY <1>0, <1>7
<1>8. ASSUME NEW d \in Companies, NEW y \in Ids,
             CreateJob(d, y) \/ DeleteJob(d, y)
      PROVE  (posting'[c][x] = "promoted" => linked'[c][x])
             /\ (linked'[c][x] => jobs'[c][x] > 0)
  <2>1. UNCHANGED <<posting, linked>>
    BY <1>8 DEF CreateJob, DeleteJob, postingVars
  <2>2. jobs \in [Companies -> [Ids -> Nat]]
    BY DEF TypeInv, TypeOK
  <2>3. CASE CreateJob(d, y)
    BY <1>0, <2>1, <2>2, <2>3 DEF CreateJob
  <2>4. CASE DeleteJob(d, y)
    <3>1. jobs' = [jobs EXCEPT ![d][y] = @ - 1]
      BY <2>4 DEF DeleteJob
    <3>2. CASE c = d /\ x = y
      BY <1>0, <2>1, <2>2, <2>4, <3>1, <3>2 DEF DeleteJob
    <3>3. CASE ~(c = d /\ x = y)
      <4>1. jobs'[c][x] = jobs[c][x]
        BY <2>2, <3>1, <3>3
      <4> QED
        BY <1>0, <2>1, <4>1
    <3> QED
      BY <3>2, <3>3
  <2> QED
    BY <1>8, <2>3, <2>4
<1> QED
  BY <1>1, <1>2, <1>3, <1>4, <1>5, <1>6, <1>7, <1>8
  DEF Next, UserStep, QueueDuePoll, RefuseClaim, AddCompany, PollNow, SetStatus,
      StartPromotion, ClaimCompany, AbandonPromotion, Restart, Minute,
      feedVars, postingVars, jobVars, vars

\* What the feed shows as promoted leads to a job, in whatever order polls,
\* promotions, dismissals and changes of the target meet on a posting.
THEOREM PromotionsLeadToJobs == Spec => []PromotedLeadsToJob
<1>1. Init => PromotedLeadsToJob
  BY DEF Init, PromotedLeadsToJob
<1>2. TypeInv /\ PromotedLeadsToJob /\ [Next]_vars => PromotedLeadsToJob'
  BY PromotedLeadsToJobStep
<1> QED
  BY <1>1, <1>2, TypeInvHolds, PTL DEF Spec

(***************************************************************************)
(* A poll never inserts a posting twice                                    *)
(*                                                                         *)
(* What a poll is about to insert was absent when it read the rows.  It    *)
(* stays absent if nobody else inserts: users do not, since a session      *)
(* writes only to rows that still exist (HeldRows, RequestedRows), and     *)
(* another poll would have to serve the same company (ExclusiveClaim).     *)
(***************************************************************************)

LEMMA OnlyStoresInsert ==
  ASSUME TypeInv, RowsInv, [Next]_vars, NEW c \in Companies, NEW x \in Ids,
         posting[c][x] = "none", posting'[c][x] # "none"
  PROVE  \E p \in Slots : /\ StorePostings(p) /\ ~poll[p].orphan
                          /\ c = poll[p].co /\ x \in Fresh(p)
<1>1. ASSUME NEW p \in Slots, PollStep(p)
      PROVE  /\ StorePostings(p) /\ ~poll[p].orphan
             /\ c = poll[p].co /\ x \in Fresh(p)
  <2>1. CASE /\ ~poll[p].orphan /\ c = poll[p].co
             /\ x \in work[p].rows \ work[p].lost
    <3>1. Working(p)
      BY <1>1 DEF PollStep, FetchBoard, Triage, StorePostings, StoreFails,
                  LoadUnscreened, FailPoll, Screen, Working
    <3>2. x \in Present(c)
      BY <2>1, <3>1 DEF RowsInv, HeldRows
    <3> QED
      BY <3>2 DEF Present
  <2>2. CASE StorePostings(p) /\ c = poll[p].co /\ x \in Fresh(p)
    BY <2>2 DEF StorePostings, FlushFails
  <2> QED
    BY <1>1, <2>1, <2>2, PollStepPosting
<1>2. ASSUME NEW d \in Companies, RemoveCompany(d) PROVE FALSE
  BY <1>2, RemoveCompanyPosting
<1>3. CASE SetRadarTarget
  BY <1>3, SetRadarTargetPosting
<1>4. ASSUME NEW d \in Companies, NEW y \in Ids,
             DismissPosting(d, y) \/ LinkToExistingJob(d, y)
      PROVE  FALSE
  <2>1. \/ posting' = [posting EXCEPT ![d][y] = "dismissed"] /\ posting[d][y] # "none"
        \/ posting' = [posting EXCEPT ![d][y] = "promoted"] /\ posting[d][y] # "none"
    BY <1>4 DEF DismissPosting, LinkToExistingJob, Promoted
  <2>2. posting \in [Companies -> [Ids -> States]]
    BY DEF TypeInv, TypeOK
  <2> QED
    BY <1>4, <2>1, <2>2
<1>5. ASSUME NEW r \in Requests, FinishPromotion(r) PROVE FALSE
  <2>1. /\ req[r].co \in Companies /\ req[r].x \in Ids
        /\ posting[req[r].co][req[r].x] # "none"
    BY <1>5 DEF FinishPromotion, TypeInv, RequestsConsistent, RowsInv,
                RequestedRows
  <2> QED
    BY <1>5, <2>1 DEF FinishPromotion, Promoted, TypeInv, TypeOK
<1>6. CASE UNCHANGED posting
  BY <1>6
<1> QED
  BY <1>1, <1>2, <1>3, <1>4, <1>5, <1>6
  DEF Next, UserStep, QueueDuePoll, RefuseClaim, AddCompany, PollNow, SetStatus,
      StartPromotion, ClaimCompany, AbandonPromotion, Restart, Minute,
      CreateJob, DeleteJob, feedVars, postingVars, vars

LEMMA OnlyUsersRemove ==
  ASSUME TypeInv, [Next]_vars, NEW c \in Companies, NEW x \in Ids,
         posting[c][x] # "none", posting'[c][x] = "none"
  PROVE  RemoveCompany(c) \/ (SetRadarTarget /\ x \in Cleared(c))
<1>1. ASSUME NEW p \in Slots, PollStep(p) PROVE FALSE
  BY <1>1, PollStepPosting
<1>2. ASSUME NEW d \in Companies, RemoveCompany(d) PROVE d = c
  BY <1>2, RemoveCompanyPosting
<1>3. CASE SetRadarTarget
  BY <1>3, SetRadarTargetPosting
<1>4. ASSUME NEW d \in Companies, NEW y \in Ids,
             DismissPosting(d, y) \/ LinkToExistingJob(d, y)
      PROVE  FALSE
  <2>1. \/ posting' = [posting EXCEPT ![d][y] = "dismissed"] /\ posting[d][y] # "none"
        \/ posting' = [posting EXCEPT ![d][y] = "promoted"] /\ posting[d][y] # "none"
    BY <1>4 DEF DismissPosting, LinkToExistingJob, Promoted
  <2>2. posting \in [Companies -> [Ids -> States]]
    BY DEF TypeInv, TypeOK
  <2> QED
    BY <1>4, <2>1, <2>2
<1>5. ASSUME NEW r \in Requests, FinishPromotion(r) PROVE FALSE
  <2>1. req[r].co \in Companies /\ req[r].x \in Ids
    BY <1>5 DEF FinishPromotion, TypeInv, RequestsConsistent
  <2> QED
    BY <1>5, <2>1 DEF FinishPromotion, Promoted, TypeInv, TypeOK
<1>6. CASE UNCHANGED posting
  BY <1>6
<1> QED
  BY <1>1, <1>2, <1>3, <1>4, <1>5, <1>6
  DEF Next, UserStep, QueueDuePoll, RefuseClaim, AddCompany, PollNow, SetStatus,
      StartPromotion, ClaimCompany, AbandonPromotion, Restart, Minute,
      CreateJob, DeleteJob, feedVars, postingVars, vars

LEMMA OthersRemoveNothing ==
  ASSUME TypeInv, UNCHANGED target,
         \A c \in Companies : Live(c) => status'[c] # "deleted"
  PROVE  ~SetRadarTarget /\ \A c \in Companies : ~RemoveCompany(c)
<1>1. ~SetRadarTarget
  <2>1. SetRadarTarget => target' = target + 1
    BY DEF SetRadarTarget, Retargeted
  <2>2. target \in Int
    BY BoundAssumption DEF TypeInv, TypeOK
  <2> QED
    BY <2>1, <2>2
<1>2. \A c \in Companies : ~RemoveCompany(c)
  BY DEF RemoveCompany, TypeInv, TypeOK
<1> QED
  BY <1>1, <1>2

\* The rows a running poll holds after a step: none, rows it has just read, or
\* the ones it held - and then it knows of those that the step removed.
HeldOn(p) ==
  /\ Working(p) /\ ~poll[p].orphan /\ poll'[p].co = poll[p].co
  /\ work'[p].rows = work[p].rows
  /\ work[p].lost \subseteq work'[p].lost
  /\ ~RemoveCompany(poll[p].co)
  /\ SetRadarTarget => work[p].rows \cap Cleared(poll[p].co)
                         \subseteq work'[p].lost

LEMMA HeldStep ==
  ASSUME TypeInv, [Next]_vars, NEW p \in Slots, poll'[p].stage # "idle",
         ~poll'[p].orphan
  PROVE  \/ work'[p].rows = {}
         \/ /\ UNCHANGED posting /\ poll'[p].co = poll[p].co
            /\ work'[p].rows \subseteq Present(poll[p].co)
         \/ HeldOn(p)
<1>0. /\ poll \in [Slots -> PollRecord] /\ poll[p] \in PollRecord
      /\ work \in [Slots -> WorkRecord] /\ work[p] \in WorkRecord
  BY DEF TypeInv, TypeOK
<1> DEFINE Goal == \/ work'[p].rows = {}
                  \/ /\ UNCHANGED posting /\ poll'[p].co = poll[p].co
                     /\ work'[p].rows \subseteq Present(poll[p].co)
                  \/ HeldOn(p)
<1>1. ASSUME UNCHANGED <<poll[p], work[p]>>, ~SetRadarTarget,
             \A c \in Companies : ~RemoveCompany(c)
      PROVE  HeldOn(p)
  <2>1. poll[p].co \in Companies
    BY <1>1 DEF TypeInv, SlotsConsistent, Working
  <2> QED
    BY <1>1, <2>1 DEF HeldOn, Working
<1>2. ASSUME NEW c \in Companies, RemoveCompany(c) PROVE Goal
  <2>1. p \notin PollsOf(c)
    BY <1>0, <1>2 DEF RemoveCompany, PollRecord
  <2>2. UNCHANGED <<poll[p], work[p]>>
    BY <1>2, <2>1 DEF RemoveCompany, Bereaved
  <2>3. poll[p].co # c
    BY <2>1, <2>2 DEF PollsOf
  <2>4. ~RemoveCompany(poll[p].co) /\ ~SetRadarTarget
    BY <1>2, <2>3 DEF RemoveCompany, SetRadarTarget, Retargeted, Live, TypeInv, TypeOK
  <2> QED
    BY <2>2, <2>4 DEF HeldOn, Working
<1>3. CASE SetRadarTarget
  <2>1. UNCHANGED poll
    BY <1>3 DEF SetRadarTarget, Retargeted
  <2>2. Working(p) /\ ~poll[p].orphan /\ poll[p].co \in Companies
    BY <2>1 DEF Working, TypeInv, SlotsConsistent
  <2>3. work'[p] = [work[p] EXCEPT
                     !.lost = @ \cup (work[p].rows \cap Cleared(poll[p].co))]
    BY <1>3, <2>2 DEF SetRadarTarget, Retargeted
  <2>4. /\ work'[p].rows = work[p].rows
        /\ work'[p].lost =
             work[p].lost \cup (work[p].rows \cap Cleared(poll[p].co))
    BY <1>0, <2>3 DEF WorkRecord
  <2>5. ~RemoveCompany(poll[p].co)
    <3>1. UNCHANGED status
      BY <1>3 DEF SetRadarTarget, Retargeted
    <3> QED
      BY <2>2, <3>1 DEF RemoveCompany, Live, TypeInv, TypeOK
  <2> QED
    BY <2>1, <2>2, <2>4, <2>5 DEF HeldOn
<1>4. ASSUME NEW q \in Slots, PollStep(q) PROVE Goal
  <2>0. /\ UNCHANGED target
        /\ \A c \in Companies : Live(c) => status'[c] # "deleted"
    <3>0. poll[q].co \in Companies
      BY <1>4, PollsHaveCompanies
    <3>1. UNCHANGED target
      BY <1>4
      DEF PollStep, FetchBoard, Triage, StorePostings, StoreFails, FailPoll,
          LoadUnscreened, Screen, FinishPoll, FinishFails
    <3>2. CASE UNCHANGED status
      BY <3>1, <3>2 DEF Live
    <3>3. CASE \E outcome \in {"active", "unresolved", "error"} :
                 status' = [status EXCEPT ![poll[q].co] = outcome]
      BY <3>0, <3>1, <3>3 DEF Live, TypeInv, TypeOK
    <3>4. ASSUME NEW outcome \in {"active", "unresolved", "error"},
                 NEW scored, FinishPoll(q, outcome, scored)
          PROVE  \/ UNCHANGED status
                 \/ status' = [status EXCEPT ![poll[q].co] = outcome]
      BY <3>4 DEF FinishPoll, StatusAfter
    <3>5. CASE FailPoll(q) \/ Screen(q)
      BY <3>2, <3>3, <3>4, <3>5
      DEF FailPoll, Screen, FinishFails, companyVars
    <3> QED
      BY <1>4, <3>1, <3>2, <3>5
      DEF PollStep, FetchBoard, Triage, StorePostings, StoreFails,
          LoadUnscreened, companyVars
  <2>1. ~SetRadarTarget /\ \A c \in Companies : ~RemoveCompany(c)
    BY <2>0, OthersRemoveNothing
  <2>2. CASE q # p
    <3>1. UNCHANGED <<poll[p], work[p]>>
      BY <1>0, <1>4, <2>2
      DEF PollStep, FetchBoard, Triage, StorePostings, StoreFails, FailPoll,
          LoadUnscreened, Screen, FinishPoll, FinishFails, Freed, Moved
    <3> QED
      BY <1>1, <2>1, <3>1
  <2>3. CASE Freed(q) /\ q = p
    BY <1>0, <2>3 DEF Freed, IdlePoll
  <2>4. ASSUME NEW stage \in Stages, Moved(p, stage), Working(p), q = p
        PROVE  /\ poll'[p].co = poll[p].co /\ ~poll[p].orphan
               /\ Working(p)
    BY <1>0, <2>4 DEF Moved, PollRecord
  <2>5. CASE FetchBoard(p) /\ q = p
    <3>1. work'[p].rows = work[p].rows /\ work'[p].lost = work[p].lost
      BY <1>0, <2>5 DEF FetchBoard, WorkRecord
    <3>2. poll'[p].co = poll[p].co /\ ~poll[p].orphan /\ Working(p)
      BY <2>4, <2>5 DEF FetchBoard, Working
    <3>3. poll[p].co \in Companies
      BY <3>2 DEF TypeInv, SlotsConsistent
    <3> QED
      BY <2>1, <3>1, <3>2, <3>3 DEF HeldOn
  <2>6. CASE Triage(p) /\ q = p
    <3>1. work'[p].rows \subseteq Present(poll[p].co) /\ UNCHANGED posting
      BY <1>0, <2>6 DEF Triage, WorkRecord, feedVars
    <3>2. poll'[p].co = poll[p].co
      BY <2>4, <2>6 DEF Triage, Working
    <3> QED
      BY <3>1, <3>2
  <2>7. CASE StorePostings(p) /\ q = p
    BY <1>0, <2>7 DEF StorePostings, WorkRecord
  <2>8. CASE LoadUnscreened(p) /\ q = p
    <3>1. work'[p].rows \subseteq Present(poll[p].co) /\ UNCHANGED posting
      BY <1>0, <2>8 DEF LoadUnscreened, WorkRecord, feedVars, Present
    <3>2. poll'[p].co = poll[p].co
      BY <2>4, <2>8 DEF LoadUnscreened, Working
    <3> QED
      BY <3>1, <3>2
  <2> QED
    BY <1>4, <2>2, <2>3, <2>5, <2>6, <2>7, <2>8
    DEF PollStep, StoreFails, FailPoll, Screen, FinishPoll, FinishFails
<1>5. ASSUME NEW q \in Slots, NEW c \in Companies, NEW o \in Origins,
             ClaimCompany(q, c, o)
      PROVE  Goal
  <2>1. ~SetRadarTarget /\ \A d \in Companies : ~RemoveCompany(d)
    BY <1>5, OthersRemoveNothing DEF ClaimCompany, Live
  <2>2. CASE q = p
    BY <1>0, <1>5, <2>2 DEF ClaimCompany, NoWork
  <2>3. CASE q # p
    <3>1. UNCHANGED <<poll[p], work[p]>>
      BY <1>0, <1>5, <2>3 DEF ClaimCompany
    <3> QED
      BY <1>1, <2>1, <3>1
  <2> QED
    BY <2>2, <2>3
<1>6. CASE Minute
  <2>1. ~SetRadarTarget /\ \A d \in Companies : ~RemoveCompany(d)
    BY <1>6, OthersRemoveNothing DEF Minute, Live
  <2>2. /\ poll'[p].co = poll[p].co /\ poll'[p].orphan = poll[p].orphan
        /\ poll'[p].stage = poll[p].stage /\ UNCHANGED work
    BY <1>0, <1>6 DEF Minute, PollRecord
  <2>3. poll[p].co \in Companies
    BY <2>2 DEF TypeInv, SlotsConsistent, Working
  <2> QED
    BY <2>1, <2>2, <2>3 DEF HeldOn, Working
<1>7. CASE Restart
  BY <1>7 DEF Restart, NoWork
<1>8. CASE /\ UNCHANGED <<poll, work, target>>
           /\ \A c \in Companies : Live(c) => status'[c] # "deleted"
  BY <1>1, <1>8, OthersRemoveNothing
<1>9. ASSUME NEW c \in Companies,
             AddCompany(c) \/ \E s \in {"active", "paused"} : SetStatus(c, s)
      PROVE  Goal
  <2>1. /\ UNCHANGED <<poll, work, target>>
        /\ \A d \in Companies : Live(d) => status'[d] # "deleted"
    BY <1>9 DEF AddCompany, SetStatus, Live, TypeInv, TypeOK, memoryVars
  <2> QED
    BY <1>8, <2>1
<1>10. CASE UNCHANGED <<poll, work, target, status>>
  BY <1>8, <1>10 DEF Live
<1> QED
  BY <1>2, <1>3, <1>4, <1>5, <1>6, <1>7, <1>9, <1>10
  DEF Next, UserStep, QueueDuePoll, RefuseClaim, PollNow, StartPromotion,
      DismissPosting, LinkToExistingJob, FinishPromotion, AbandonPromotion,
      CreateJob, DeleteJob,
      memoryVars, companyVars, vars

LEMMA HeldRowsStep ==
  ASSUME TypeInv, RowsInv, [Next]_vars
  PROVE  HeldRows'
<1> SUFFICES ASSUME NEW p \in Slots, poll'[p].stage # "idle", ~poll'[p].orphan,
                    NEW x \in work'[p].rows, x \notin work'[p].lost
             PROVE  x \in Ids /\ posting'[poll'[p].co][x] # "none"
  BY DEF HeldRows, Working, Present
<1>1. work' \in [Slots -> WorkRecord] /\ x \in Ids
  <2>1. TypeOK'
    BY TypeInvStep DEF TypeInv
  <2> QED
    BY <2>1 DEF TypeOK, WorkRecord
<1>2. CASE /\ UNCHANGED posting /\ poll'[p].co = poll[p].co
           /\ work'[p].rows \subseteq Present(poll[p].co)
  BY <1>1, <1>2 DEF Present
<1>3. CASE HeldOn(p)
  <2> DEFINE c == poll[p].co
  <2>1. c \in Companies /\ poll'[p].co = c
    BY <1>3 DEF HeldOn, TypeInv, SlotsConsistent
  <2>2. posting[c][x] # "none"
    BY <1>3 DEF HeldOn, RowsInv, HeldRows, Present
  <2>3. ~RemoveCompany(c) /\ ~(SetRadarTarget /\ x \in Cleared(c))
    BY <1>3 DEF HeldOn
  <2>4. posting'[c][x] # "none"
    BY <1>1, <2>1, <2>2, <2>3, OnlyUsersRemove
  <2> QED
    BY <1>1, <2>1, <2>4
<1> QED
  BY <1>2, <1>3, HeldStep

LEMMA RequestedRowsStep ==
  ASSUME TypeInv, RowsInv, [Next]_vars
  PROVE  RequestedRows'
<1> SUFFICES ASSUME NEW r \in Requests, req'[r].stage = "structuring",
                    ~req'[r].lost
             PROVE  posting'[req'[r].co][req'[r].x] # "none"
  BY DEF RequestedRows
<1>0. req \in [Requests -> RequestRecord] /\ req[r] \in RequestRecord
  BY DEF TypeInv, TypeOK
<1> DEFINE c == req[r].co
           x == req[r].x
<1>1. ASSUME req'[r] = req[r], \A d \in Companies : d = c => ~RemoveCompany(d),
             ~(SetRadarTarget /\ x \in Cleared(c))
      PROVE  posting'[req'[r].co][req'[r].x] # "none"
  <2>1. c \in Companies /\ x \in Ids /\ posting[c][x] # "none"
    BY <1>1 DEF TypeInv, RequestsConsistent, RowsInv, RequestedRows
  <2>2. PICK d \in Companies : d = c
    BY <2>1
  <2>3. posting'[d][x] # "none"
    BY <1>1, <2>1, <2>2, OnlyUsersRemove
  <2> QED
    BY <1>1, <2>2, <2>3
<1>2. ASSUME NEW d \in Companies, RemoveCompany(d)
      PROVE  posting'[req'[r].co][req'[r].x] # "none"
  <2>1. req'[r] = IF req[r].stage # "idle"
                     /\ req[r].x \in (IF req[r].co = d THEN Ids ELSE {})
                  THEN [req[r] EXCEPT !.lost = TRUE] ELSE req[r]
    BY <1>2 DEF RemoveCompany, ReqBereaved
  <2>2. req'[r] = req[r]
    BY <1>0, <2>1 DEF RequestRecord
  <2>3. c # d
    BY <2>1, <2>2, <1>0 DEF RequestRecord, TypeInv, RequestsConsistent
  <2>4. ASSUME NEW e \in Companies, RemoveCompany(e), e # d PROVE FALSE
    <3>1. d \in Companies /\ status[d] \in Watched /\ status'[d] = "deleted"
      BY <1>2 DEF RemoveCompany, Live, TypeInv, TypeOK
    <3>2. status' = [status EXCEPT ![e] = "deleted"]
      BY <2>4 DEF RemoveCompany
    <3>3. status'[d] = status[d]
      BY <2>4, <3>1, <3>2 DEF TypeInv, TypeOK
    <3> QED
      BY <3>1, <3>3
  <2>5. ~SetRadarTarget
    <3>1. d \in Companies /\ status[d] \in Watched /\ status'[d] = "deleted"
      BY <1>2 DEF RemoveCompany, Live, TypeInv, TypeOK
    <3>2. SetRadarTarget => UNCHANGED status
      BY DEF SetRadarTarget, Retargeted
    <3> QED
      BY <3>1, <3>2
  <2> QED
    BY <1>1, <2>2, <2>3, <2>4, <2>5
<1>3. CASE SetRadarTarget
  <2>1. req'[r] = IF req[r].stage # "idle" /\ x \in Cleared(c)
                  THEN [req[r] EXCEPT !.lost = TRUE] ELSE req[r]
    BY <1>3 DEF SetRadarTarget, Retargeted, ReqBereaved
  <2>2. req'[r] = req[r] /\ x \notin Cleared(c)
    BY <1>0, <2>1 DEF RequestRecord
  <2>3. c \in Companies
    BY <2>2 DEF TypeInv, RequestsConsistent
  <2>4. \A d \in Companies : ~RemoveCompany(d)
    <3>1. UNCHANGED status
      BY <1>3 DEF SetRadarTarget, Retargeted
    <3> QED
      BY <3>1 DEF RemoveCompany, Live, TypeInv, TypeOK
  <2> QED
    BY <1>1, <2>2, <2>4
<1>4. ASSUME NEW s \in Requests, NEW d \in Companies, NEW y \in Ids,
             StartPromotion(s, d, y)
      PROVE  posting'[req'[r].co][req'[r].x] # "none"
  <2>1. UNCHANGED <<target, posting, status>>
    BY <1>4 DEF StartPromotion, companyVars, feedVars
  <2>2. CASE s = r
    BY <1>0, <1>4, <2>1, <2>2 DEF StartPromotion
  <2>3. CASE s # r
    <3>1. req'[r] = req[r]
      BY <1>4, <2>3 DEF StartPromotion
    <3> QED
      BY <1>1, <2>1, <3>1 DEF RowsInv, RequestedRows
  <2> QED
    BY <2>2, <2>3
<1>5. ASSUME NEW s \in Requests, FinishPromotion(s) \/ AbandonPromotion(s)
      PROVE  posting'[req'[r].co][req'[r].x] # "none"
  <2>1. req' = [req EXCEPT ![s] = IdleReq]
    BY <1>5 DEF FinishPromotion, AbandonPromotion
  <2>2. req'[r] = req[r]
    BY <1>0, <2>1 DEF IdleReq
  <2>3. UNCHANGED <<target, status>>
    BY <1>5 DEF FinishPromotion, AbandonPromotion, companyVars
  <2>4. c \in Companies
    BY <2>2 DEF TypeInv, RequestsConsistent
  <2>5. ~SetRadarTarget /\ \A d \in Companies : ~RemoveCompany(d)
    BY <2>3, OthersRemoveNothing DEF Live
  <2> QED
    BY <1>1, <2>2, <2>4, <2>5
<1>6. CASE Restart
  BY <1>6 DEF Restart, IdleReq
<1>7. ASSUME UNCHANGED <<req, target>>,
             \A d \in Companies : Live(d) => status'[d] # "deleted"
      PROVE  posting'[req'[r].co][req'[r].x] # "none"
  <2>1. c \in Companies
    BY <1>7 DEF TypeInv, RequestsConsistent
  <2> QED
    BY <1>1, <1>7, <2>1, OthersRemoveNothing
<1>8. ASSUME NEW q \in Slots, PollStep(q)
      PROVE  posting'[req'[r].co][req'[r].x] # "none"
  <2>1. UNCHANGED req
    BY <1>8, PollStepPosting
  <2>2. c \in Companies /\ x \in Ids /\ posting[c][x] # "none"
    BY <2>1 DEF TypeInv, RequestsConsistent, RowsInv, RequestedRows
  <2> QED
    BY <1>8, <2>1, <2>2, PollStepPosting
<1>9. ASSUME NEW d \in Companies,
             AddCompany(d) \/ \E s \in {"active", "paused"} : SetStatus(d, s)
      PROVE  posting'[req'[r].co][req'[r].x] # "none"
  <2>1. /\ UNCHANGED <<req, target>>
        /\ \A e \in Companies : Live(e) => status'[e] # "deleted"
    BY <1>9 DEF AddCompany, SetStatus, Live, TypeInv, TypeOK, memoryVars
  <2> QED
    BY <1>7, <2>1
<1>10. CASE UNCHANGED <<req, target, status>>
  BY <1>7, <1>10 DEF Live
<1> QED
  BY <1>2, <1>3, <1>4, <1>5, <1>6, <1>8, <1>9, <1>10
  DEF Next, UserStep, QueueDuePoll, RefuseClaim, ClaimCompany, PollNow, Minute,
      DismissPosting, LinkToExistingJob, CreateJob, DeleteJob, memoryVars,
      companyVars, vars

LEMMA RowsInvHolds == Spec => []RowsInv
<1>1. Init => RowsInv
  BY DEF Init, RowsInv, HeldRows, RequestedRows, Working, IdlePoll, IdleReq
<1>2. TypeInv /\ RowsInv /\ [Next]_vars => RowsInv'
  BY HeldRowsStep, RequestedRowsStep DEF RowsInv
<1> QED
  BY <1>1, <1>2, TypeInvHolds, PTL DEF Spec

LEMMA StoreStep ==
  ASSUME TypeInv, RowsInv, ExclusiveClaim, StoreNeverCollides, [Next]_vars
  PROVE  StoreNeverCollides'
<1> SUFFICES ASSUME NEW p \in Slots, poll'[p].stage = "storing",
                    ~poll'[p].orphan, NEW x \in Ids,
                    x \in work'[p].items \ work'[p].rows,
                    posting'[poll'[p].co][x] # "none"
             PROVE  FALSE
  <2>1. work' \in [Slots -> WorkRecord]
    BY TypeInvStep DEF TypeInv, TypeOK
  <2> QED
    BY <2>1 DEF StoreNeverCollides, Fresh, Present, WorkRecord
<1>0. /\ poll \in [Slots -> PollRecord] /\ poll[p] \in PollRecord
      /\ work \in [Slots -> WorkRecord] /\ work[p] \in WorkRecord
  BY DEF TypeInv, TypeOK
\* p was about to store before the step, with the same postings in hand.
<1>1. ASSUME poll[p].stage = "storing", ~poll[p].orphan,
             poll'[p].co = poll[p].co, work'[p].items = work[p].items,
             work'[p].rows = work[p].rows, ~StorePostings(p)
      PROVE  FALSE
  <2> DEFINE c == poll[p].co
  <2>1. c \in Companies
    BY <1>1 DEF TypeInv, SlotsConsistent, Working
  <2>2. posting[c][x] = "none"
    BY <1>1 DEF StoreNeverCollides, Fresh, Present
  <2>3. PICK q \in Slots : StorePostings(q) /\ ~poll[q].orphan /\ c = poll[q].co
    BY <1>1, <2>1, <2>2, OnlyStoresInsert
  <2>4. p \in PollsOf(c) /\ q \in PollsOf(c)
    BY <1>1, <2>3 DEF PollsOf
  <2> QED
    BY <1>1, <2>1, <2>3, <2>4 DEF ExclusiveClaim
<1>2. ASSUME UNCHANGED <<poll[p], work[p]>>, ~StorePostings(p) PROVE FALSE
  BY <1>1, <1>2
<1>3. ASSUME NEW q \in Slots, PollStep(q) PROVE FALSE
  <2>1. CASE q # p
    <3>1. UNCHANGED <<poll[p], work[p]>>
      BY <1>0, <1>3, <2>1
      DEF PollStep, FetchBoard, Triage, StorePostings, StoreFails, FailPoll,
          LoadUnscreened, Screen, FinishPoll, FinishFails, Freed, Moved
    <3>2. poll[q].stage # "idle"
      BY <1>3 DEF PollStep, FetchBoard, Triage, StorePostings, StoreFails,
                  LoadUnscreened, FailPoll, Screen
    <3>3. CASE StorePostings(p)
      <4>1. poll'[p].stage = "loading"
        BY <1>0, <3>3 DEF StorePostings, Moved
      <4> QED
        BY <4>1
    <3> QED
      BY <1>2, <3>1, <3>3
  <2>2. CASE Freed(p)
    BY <1>0, <2>2 DEF Freed, IdlePoll
  <2>3. CASE Moved(p, "triaging") \/ Moved(p, "loading") \/ Moved(p, "screening")
    <3>1. PICK stage \in {"triaging", "loading", "screening"} :
            poll' = [poll EXCEPT ![p] = [@ EXCEPT !.stage = stage]]
      BY <2>3 DEF Moved
    <3>2. poll'[p].stage = stage
      BY <1>0, <3>1 DEF PollRecord
    <3> QED
      BY <3>2
  <2>4. CASE Triage(p)
    <3>1. work'[p].rows = work'[p].items \cap Present(poll[p].co)
      BY <1>0, <2>4 DEF Triage, WorkRecord
    <3>2. UNCHANGED posting /\ poll'[p].co = poll[p].co
      BY <1>0, <2>4 DEF Triage, Moved, feedVars, PollRecord
    <3> QED
      BY <3>1, <3>2 DEF Present
  <2> QED
    BY <1>3, <2>1, <2>2, <2>3, <2>4
    DEF PollStep, FetchBoard, StorePostings, StoreFails, FailPoll,
        LoadUnscreened, Screen, FinishPoll, FinishFails
<1>4. ASSUME NEW q \in Slots, NEW c \in Companies, NEW o \in Origins,
             ClaimCompany(q, c, o)
      PROVE  FALSE
  <2>1. UNCHANGED <<poll[p], work[p], posting>>
    BY <1>0, <1>4 DEF ClaimCompany, feedVars
  <2> QED
    BY <2>1 DEF StoreNeverCollides, Fresh, Present
<1>5. ASSUME UNCHANGED posting, poll[p].stage = "storing", ~poll[p].orphan,
             poll'[p].co = poll[p].co, work'[p].items = work[p].items,
             work'[p].rows = work[p].rows
      PROVE  FALSE
  BY <1>5 DEF StoreNeverCollides, Fresh, Present
<1>6. CASE Minute
  <2>1. /\ UNCHANGED <<posting, work>>
        /\ poll'[p].stage = poll[p].stage /\ poll'[p].co = poll[p].co
        /\ poll'[p].orphan = poll[p].orphan
    BY <1>0, <1>6 DEF Minute, PollRecord, postingVars
  <2> QED
    BY <1>5, <2>1
<1>7. ASSUME NEW c \in Companies, RemoveCompany(c) PROVE FALSE
  <2>1. p \notin PollsOf(c)
    BY <1>0, <1>7 DEF RemoveCompany, PollRecord
  <2>2. UNCHANGED <<poll[p], work[p]>>
    BY <1>7, <2>1 DEF RemoveCompany, Bereaved
  <2>3. poll[p].co # c /\ poll[p].co \in Companies
    BY <2>1, <2>2 DEF PollsOf, TypeInv, SlotsConsistent, Working
  <2>4. posting'[poll[p].co][x] = posting[poll[p].co][x]
    BY <1>7, <2>3, RemoveCompanyPosting
  <2> QED
    BY <2>2, <2>4 DEF StoreNeverCollides, Fresh, Present
<1>8. CASE SetRadarTarget
  <2>1. UNCHANGED poll
    BY <1>8 DEF SetRadarTarget, Retargeted
  <2>2. poll[p].co \in Companies
    BY <2>1 DEF TypeInv, SlotsConsistent, Working
  <2>3. work'[p].items = work[p].items /\ work'[p].rows = work[p].rows
    BY <1>0, <1>8 DEF SetRadarTarget, Retargeted, WorkRecord
  <2>4. posting[poll[p].co][x] # "none"
    BY <1>8, <2>1, <2>2, SetRadarTargetPosting
  <2> QED
    BY <2>1, <2>3, <2>4 DEF StoreNeverCollides, Fresh, Present
<1>9. CASE Restart
  BY <1>9 DEF Restart, IdlePoll
<1>10. ASSUME UNCHANGED <<poll, work>>,
              \A c \in Companies, y \in Ids :
                posting[c][y] = "none" => posting'[c][y] = "none"
       PROVE  FALSE
  <2>1. poll[p].co \in Companies
    BY <1>10 DEF TypeInv, SlotsConsistent, Working
  <2> QED
    BY <1>10, <2>1 DEF StoreNeverCollides, Fresh, Present
<1>11. ASSUME NEW c \in Companies, NEW y \in Ids,
              DismissPosting(c, y) \/ LinkToExistingJob(c, y)
       PROVE  FALSE
  <2>1. \/ posting' = [posting EXCEPT ![c][y] = "dismissed"] /\ posting[c][y] # "none"
        \/ posting' = [posting EXCEPT ![c][y] = "promoted"] /\ posting[c][y] # "none"
    BY <1>11 DEF DismissPosting, LinkToExistingJob, Promoted
  <2>2. posting \in [Companies -> [Ids -> States]]
    BY DEF TypeInv, TypeOK
  <2>3. UNCHANGED <<poll, work>>
    BY <1>11 DEF DismissPosting, LinkToExistingJob, memoryVars
  <2> QED
    BY <1>10, <2>1, <2>2, <2>3
<1>12. ASSUME NEW r \in Requests, FinishPromotion(r) PROVE FALSE
  <2>1. /\ req[r].co \in Companies /\ req[r].x \in Ids
        /\ posting[req[r].co][req[r].x] # "none"
        /\ posting' = [posting EXCEPT ![req[r].co][req[r].x] = "promoted"]
        /\ UNCHANGED <<poll, work>>
    BY <1>12 DEF FinishPromotion, Promoted, TypeInv, RequestsConsistent,
                 RowsInv, RequestedRows
  <2>2. posting \in [Companies -> [Ids -> States]]
    BY DEF TypeInv, TypeOK
  <2> QED
    BY <1>10, <2>1, <2>2
<1>13. CASE UNCHANGED <<poll, work, posting>>
  BY <1>10, <1>13
<1> QED
  BY <1>3, <1>4, <1>6, <1>7, <1>8, <1>9, <1>11, <1>12, <1>13
  DEF Next, UserStep, QueueDuePoll, RefuseClaim, AddCompany, PollNow, SetStatus,
      StartPromotion, AbandonPromotion, CreateJob, DeleteJob, memoryVars,
      postingVars, feedVars, vars

\* The insert of a poll never meets a row with its key - however long triage
\* took, and whatever users did to the postings meanwhile - as long as no poll
\* outlasts its claim.
THEOREM StoresNeverCollide ==
  ASSUME PollDeadline < StaleAfter
  PROVE  Spec => []StoreNeverCollides
<1>1. Init => StoreNeverCollides
  BY DEF Init, StoreNeverCollides, IdlePoll
<1>2. /\ TypeInv /\ RowsInv /\ ExclusiveClaim /\ StoreNeverCollides
      /\ [Next]_vars
      => StoreNeverCollides'
  BY StoreStep
<1> QED
  BY <1>1, <1>2, TypeInvHolds, RowsInvHolds, ClaimIsExclusive, PTL DEF Spec

\* Everything a running poll or a promotion believes of the database is true, in
\* every reachable state, as long as no poll outlasts its claim.
THEOREM BeliefsAreTrue ==
  ASSUME PollDeadline < StaleAfter
  PROVE  Spec => []BeliefsHold
BY TypeInvHolds, LeaseInvHolds, RowsInvHolds, PTL DEF BeliefsHold

(***************************************************************************)
(* Polls implement the abstract lease                                      *)
(*                                                                         *)
(* With ExclusiveClaim the CHOOSE in holder has nothing to choose: a       *)
(* company's holder is the one poll that serves it.  A claim is Acquire,   *)
(* the end of a poll or the removal of its company is Release, and every   *)
(* other step leaves holder alone.                                         *)
(***************************************************************************)

LEMMA HolderIsThePoll ==
  ASSUME TypeInv, ExclusiveClaim, NEW c \in Companies, NEW p \in Slots
  PROVE  holder[c] = p <=> p \in PollsOf(c)
<1>1. PollsOf(c) = {} => holder[c] = None
  BY DEF holder, OneOf
<1>2. PollsOf(c) # {} => holder[c] \in PollsOf(c)
  BY DEF holder, OneOf
<1> QED
  BY <1>1, <1>2, CompanyAssumption DEF ExclusiveClaim

LEMMA HolderUnchanged ==
  ASSUME \A c \in Companies : PollsOf(c)' = PollsOf(c)
  PROVE  holder' = holder
BY DEF holder

\* One company's polls change, the others' do not.
LEMMA HolderUpdate ==
  ASSUME NEW c \in Companies, NEW S, PollsOf(c)' = S,
         \A d \in Companies \ {c} : PollsOf(d)' = PollsOf(d)
  PROVE  holder' = [holder EXCEPT ![c] = OneOf(S)]
BY DEF holder

LEMMA LeaseStepRefines ==
  ASSUME TypeInv, LeaseInv, TypeInv', [Next]_vars, PollDeadline < StaleAfter
  PROVE  [Lease!Next]_holder
<1> USE DEF TypeInv, LeaseInv
<1>0. \A p \in Slots : poll[p] \in PollRecord
  BY DEF TypeOK
<1>1. ASSUME NEW p \in Slots, NEW c \in Companies, NEW o \in Origins,
             ClaimCompany(p, c, o)
      PROVE  Lease!Acquire(c, p)
  <2>1. PollsOf(c) = {}
    BY <1>1, ClaimedOnlyIfFree DEF ClaimCompany
  <2>2. holder[c] = None
    BY <2>1 DEF holder, OneOf
  <2>3. poll[p] = IdlePoll
    BY <1>1 DEF ClaimCompany, SlotsConsistent
  <2>4. \A d \in Companies : p \notin PollsOf(d)
    BY <2>3, CompanyAssumption DEF PollsOf, IdlePoll
  <2>5. \A d \in Companies : holder[d] # p
    BY <2>4, HolderIsThePoll
  <2>6. /\ poll'[p].co = c /\ ~poll'[p].orphan
        /\ \A q \in Slots \ {p} : poll'[q] = poll[q]
    BY <1>1 DEF ClaimCompany, TypeOK
  <2>7. PollsOf(c)' = {p}
    BY <2>1, <2>6 DEF PollsOf
  <2>8. \A d \in Companies \ {c} : PollsOf(d)' = PollsOf(d)
    BY <2>4, <2>6 DEF PollsOf
  <2>9. holder' = [holder EXCEPT ![c] = p]
    <3>1. OneOf({p}) = p
      BY DEF OneOf
    <3> QED
      BY <2>7, <2>8, <3>1, HolderUpdate
  <2> QED
    BY <2>2, <2>5, <2>9 DEF Lease!Acquire
\* The polls of one company are gone after the step, the others' stay.
<1>2. ASSUME NEW c \in Companies, PollsOf(c)' = {}, PollsOf(c) # {},
             \A d \in Companies \ {c} : PollsOf(d)' = PollsOf(d)
      PROVE  Lease!Release(c)
  <2>1. holder[c] \in PollsOf(c)
    BY <1>2 DEF holder, OneOf
  <2>2. holder[c] # None
    BY <2>1, CompanyAssumption DEF PollsOf
  <2>3. holder' = [holder EXCEPT ![c] = None]
    BY <1>2, HolderUpdate DEF OneOf
  <2> QED
    BY <2>2, <2>3 DEF Lease!Release
<1>3. ASSUME NEW p \in Slots, PollStep(p)
      PROVE  [Lease!Next]_holder
  <2>0. poll[p].co \in Companies
    BY <1>3, PollsHaveCompanies
  <2>1. ASSUME NEW stage \in Stages, Moved(p, stage)
        PROVE  [Lease!Next]_holder
    <3>1. \A q \in Slots : poll'[q].co = poll[q].co
                           /\ poll'[q].orphan = poll[q].orphan
      BY <1>0, <2>1 DEF Moved, PollRecord, TypeOK
    <3> QED
      BY <3>1, HolderUnchanged DEF PollsOf
  <2>2. ASSUME Freed(p) PROVE [Lease!Next]_holder
    <3> DEFINE c == poll[p].co
    <3>1. /\ poll'[p].co = None
          /\ \A q \in Slots \ {p} : poll'[q] = poll[q]
      BY <2>2 DEF Freed, TypeOK, IdlePoll
    <3>2. \A d \in Companies : PollsOf(d)' = PollsOf(d) \ {p}
      BY <3>1, CompanyAssumption DEF PollsOf
    <3>3. CASE poll[p].orphan
      <4>1. \A d \in Companies : p \notin PollsOf(d)
        BY <3>3 DEF PollsOf
      <4> QED
        BY <3>2, <4>1, HolderUnchanged
    <3>4. CASE ~poll[p].orphan
      <4>1. PollsOf(c) = {p}
        BY <2>0, <3>4 DEF ExclusiveClaim, PollsOf
      <4>2. \A d \in Companies \ {c} : p \notin PollsOf(d)
        BY DEF PollsOf
      <4> HIDE DEF c
      <4>3. Lease!Release(c)
        BY <1>2, <2>0, <3>2, <4>1, <4>2 DEF c
      <4> QED
        BY <2>0, <4>3 DEF Lease!Next, c
    <3> QED
      BY <3>3, <3>4
  <2> QED
    BY <1>3, <2>1, <2>2
    DEF PollStep, FetchBoard, Triage, StorePostings, StoreFails,
        LoadUnscreened, FailPoll, Screen, FinishPoll, FinishFails
<1>4. ASSUME NEW c \in Companies, RemoveCompany(c)
      PROVE  [Lease!Next]_holder
  <2>1. \A q \in Slots :
          /\ poll'[q].co = poll[q].co
          /\ poll'[q].orphan = (poll[q].orphan \/ q \in PollsOf(c))
    BY <1>0, <1>4 DEF RemoveCompany, PollRecord
  <2>2. PollsOf(c)' = {}
    BY <2>1 DEF PollsOf
  <2>3. \A d \in Companies \ {c} : PollsOf(d)' = PollsOf(d)
    BY <2>1 DEF PollsOf
  <2>4. CASE PollsOf(c) = {}
    <3>1. \A d \in Companies : PollsOf(d)' = PollsOf(d)
      BY <2>2, <2>3, <2>4
    <3> QED
      BY <3>1, HolderUnchanged
  <2>5. CASE PollsOf(c) # {}
    BY <1>2, <2>2, <2>3, <2>5 DEF Lease!Next
  <2> QED
    BY <2>4, <2>5
<1>5. CASE Restart
  <2>1. \A c \in Companies : PollsOf(c)' = {}
    BY <1>5, CompanyAssumption DEF Restart, PollsOf, IdlePoll
  <2>2. holder' = [c \in Companies |-> None]
    BY <2>1 DEF holder, OneOf
  <2> QED
    BY <2>2 DEF Lease!Next, Lease!Restart
<1>6. CASE Minute
  <2>1. \A q \in Slots : poll'[q].co = poll[q].co
                         /\ poll'[q].orphan = poll[q].orphan
    BY <1>0, <1>6 DEF Minute, PollRecord
  <2> QED
    BY <2>1, HolderUnchanged DEF PollsOf
<1>7. CASE UNCHANGED poll
  BY <1>7, HolderUnchanged DEF PollsOf
<1> QED
  BY <1>1, <1>3, <1>4, <1>5, <1>6, <1>7
  DEF Next, Lease!Next, UserStep, QueueDuePoll, RefuseClaim, AddCompany,
      PollNow, SetStatus, DismissPosting, LinkToExistingJob, StartPromotion,
      SetRadarTarget, Retargeted, CreateJob, DeleteJob, FinishPromotion, AbandonPromotion,
      memoryVars, vars

\* Polls take and leave companies the way the abstract lease says, for any
\* number of companies and polls, as long as no poll outlasts its claim.
THEOREM PollsImplementLease ==
  ASSUME PollDeadline < StaleAfter
  PROVE  Spec => ImplementsLease
<1>1. Init => Lease!Init
  BY CompanyAssumption DEF Init, Lease!Init, holder, OneOf, PollsOf, IdlePoll
<1>2. TypeInv /\ LeaseInv /\ TypeInv' /\ [Next]_vars => [Lease!Next]_holder
  BY LeaseStepRefines
<1> QED
  BY <1>1, <1>2, TypeInvHolds, LeaseInvHolds, PTL
  DEF Spec, ImplementsLease, Lease!Spec
(***************************************************************************)
(* A poll leaves a pause alone: its last commit writes the status only if  *)
(* it differs from the one it loaded.                                      *)
(***************************************************************************)

\* A poll that ends turns no paused company into an active one, if each poll of it
\* had loaded an active one.
LEMMA FinishLeavesPauses ==
  ASSUME TypeInv, NEW p \in Slots, NEW outcome, NEW scored,
         FinishPoll(p, outcome, scored),
         NEW c \in Companies, status[c] = "paused",
         \A q \in PollsOf(c) : poll[q].loaded = "active"
  PROVE  status'[c] # "active"
<1> USE DEF FinishPoll, StatusAfter
<1>1. CASE outcome = poll[p].loaded \/ poll[p].co # c
  BY <1>1 DEF TypeInv, TypeOK
<1>2. CASE outcome # poll[p].loaded /\ poll[p].co = c
  <2>1. p \in PollsOf(c)
    BY <1>2 DEF PollsOf
  <2>2. outcome # "active"
    BY <1>2, <2>1
  <2> QED
    BY <1>2, <2>2 DEF TypeInv, TypeOK
<1> QED
  BY <1>1, <1>2

\* No step but the user's resumes a paused company its polls have loaded as active.
LEMMA PausesStay ==
  ASSUME TypeInv, [Next]_vars,
         NEW c \in Companies, status[c] = "paused", status'[c] = "active",
         \A q \in PollsOf(c) : poll[q].loaded = "active"
  PROVE  UNCHANGED poll
<1>1. ASSUME NEW p \in Slots, PollStep(p) PROVE FALSE
  <2>1. CASE UNCHANGED status
    BY <2>1
  <2>2. ASSUME NEW outcome, NEW scored, FinishPoll(p, outcome, scored) PROVE FALSE
    BY <2>2, FinishLeavesPauses
  <2> QED
    BY <1>1, <2>1, <2>2
    DEF PollStep, FetchBoard, Triage, StorePostings, StoreFails, LoadUnscreened,
        FailPoll, Screen, FinishFails, companyVars
<1>2. ASSUME NEW d \in Companies, RemoveCompany(d) PROVE FALSE
  BY <1>2 DEF RemoveCompany, TypeInv, TypeOK
<1>3. CASE UNCHANGED status
  BY <1>3
<1>4. CASE UNCHANGED poll
  BY <1>4
<1> QED
  BY <1>1, <1>2, <1>3, <1>4
  DEF Next, UserStep, Minute, QueueDuePoll, RefuseClaim, ClaimCompany, AddCompany,
      PollNow, SetStatus, DismissPosting, LinkToExistingJob, StartPromotion,
      SetRadarTarget, Retargeted, CreateJob, DeleteJob, FinishPromotion, AbandonPromotion,
      Restart, companyVars, memoryVars, vars

\* A pause stays until the user lifts it, for any number of companies and polls,
\* if the company was active when its polls claimed it.
THEOREM PausesAreRespected == Spec => PauseRespected
<1>1. TypeInv /\ [Next]_vars =>
        [\A c \in Companies :
           /\ status[c] = "paused" /\ status'[c] = "active"
           /\ \A p \in PollsOf(c) : poll[p].loaded = "active"
           => UNCHANGED poll]_vars
  BY PausesStay
<1> QED
  BY <1>1, TypeInvHolds, PTL DEF Spec, PauseRespected
=============================================================================
