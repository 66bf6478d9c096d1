---------------------------- MODULE IntakeProofs ----------------------------
(***************************************************************************)
(* Only requests that overlap put a URL into the pipeline twice, and a     *)
(* review gets its hand-off exactly as long as it is promised, for any     *)
(* number of flows, URLs and restarts.  And a page is judged on the        *)
(* posting that is on it and on all of its text, of whatever length: what  *)
(* is prepared is the posting, its chunks cover it, and their vote is      *)
(* sound.                                                                  *)
(***************************************************************************)
EXTENDS Intake, PageClassifier, OperatorProofs, FiniteSetTheorems

Stages  == InBrowser \cup InServer \cup Done
Records == [stage : Stages, url : Urls \cup {NoUrl}, beaten : BOOLEAN]

\* Whoever has looked for a URL, and has not been beaten to it, still finds none.
LooksHold ==
  \A f \in Flows :
    flow[f].stage \in {"inserting", "structuring", "promoting"} /\ ~flow[f].beaten =>
      LET u == normalize_job_url(flow[f].url)
      IN  u # NoUrl /\ Stable(u) /\ u \notin patched => jobs[u] = 0

\* What is stored is as old as the history says, and gone only after its time.
AgesAgree ==
  \A f \in Flows :
    IF since[f] = TTL + 1 THEN store[f] \in {TTL + 1, NoEntry} ELSE store[f] = since[f]

IntakeInv == TypeOK /\ OnlyOverlapsDuplicate /\ LooksHold /\ AgesAgree

USE IntakeAssumption

\* Normalising a URL makes a URL, and None of None.
LEMMA NormalizedIsUrl ==
  ASSUME NEW u \in Urls \cup {NoUrl}
  PROVE  /\ normalize_job_url(u) \in Urls \cup {NoUrl}
         /\ u \in Urls => normalize_job_url(u) \in Urls
         /\ u = NoUrl => normalize_job_url(u) = NoUrl
<1>1. normalize_job_url(NoUrl) = NoUrl
  BY DEF normalize_job_url
<1>2. \A v \in Urls : normalize_job_url(v) \in Urls
  BY IntakeAssumption
<1> QED BY <1>1, <1>2

\* A URL that is not found is not in the pipeline, if normalising it changes nothing.
LEMMA NotFoundIsNew ==
  ASSUME TypeOK, NEW u \in Urls, Stable(u), ~Found(u)
  PROVE  jobs[u] = 0
BY DEF Found, Stable, TypeOK

\* A flow that changes leaves the others alone.
LEMMA OneFlowChanges ==
  ASSUME TypeOK, NEW f \in Flows, NEW r \in Records, flow' = [flow EXCEPT ![f] = r]
  PROVE  /\ flow' \in [Flows -> Records] /\ flow'[f] = r
         /\ \A g \in Flows \ {f} : flow'[g] = flow[g]
BY DEF TypeOK, Records, Stages

\* A flow that turns keeps everything else as it was.
LEMMA TurnsKeepType ==
  ASSUME TypeOK, NEW f \in Flows, NEW s \in Stages, Turns(f, s)
  PROVE  /\ flow' \in [Flows -> [stage : Stages, url : Urls \cup {NoUrl}, beaten : BOOLEAN]]
         /\ flow'[f].stage = s /\ flow'[f].url = flow[f].url
         /\ flow'[f].beaten = flow[f].beaten
         /\ \A g \in Flows \ {f} : flow'[g] = flow[g]
BY DEF TypeOK, Turns, Stages

\* Purging drops what is over its time, and nothing else.
LEMMA PurgedIsInTime ==
  ASSUME TypeOK, AgesAgree
  PROVE  /\ Purged \in [Flows -> Ages \cup {NoEntry}]
         /\ \A f \in Flows : Purged[f] = IF since[f] <= TTL THEN since[f] ELSE NoEntry
<1>1. Purged \in [Flows -> Ages \cup {NoEntry}]
  BY DEF TypeOK, Purged
<1>2. ASSUME NEW f \in Flows
      PROVE  Purged[f] = IF since[f] <= TTL THEN since[f] ELSE NoEntry
  <2>1. since[f] \in 0..(TTL + 2) /\ store[f] \in 0..(TTL + 2)
    BY DEF TypeOK, Ages, NoEntry
  <2>2. Purged[f] = IF store[f] # NoEntry /\ store[f] > TTL THEN NoEntry ELSE store[f]
    BY DEF Purged, Expired
  <2>3. IF since[f] = TTL + 1 THEN store[f] \in {TTL + 1, NoEntry} ELSE store[f] = since[f]
    BY DEF AgesAgree
  <2> QED BY <2>1, <2>2, <2>3 DEF NoEntry
<1> QED BY <1>1, <1>2

(***************************************************************************)
(* Each step keeps the invariant                                           *)
(***************************************************************************)

\* Nothing is in the pipeline, and nothing handed over.
LEMMA InitIntake == Init => IntakeInv
<1> SUFFICES ASSUME Init PROVE IntakeInv
  OBVIOUS
<1>1. TypeOK
  BY DEF Init, TypeOK, NewFlow, Ages, NoEntry, InBrowser, InServer, Done
<1>2. OnlyOverlapsDuplicate
  BY DEF Init, OnlyOverlapsDuplicate
<1>3. LooksHold
  BY DEF Init, LooksHold, NewFlow
<1>4. AgesAgree
  BY DEF Init, AgesAgree, NoEntry
<1> QED BY <1>1, <1>2, <1>3, <1>4 DEF IntakeInv

\* A flow that only turns, from no stage that has saved twice to one that has not
\* looked, or has and had before.
LEMMA QuietTurn ==
  ASSUME IntakeInv, NEW f \in Flows, NEW s \in Stages, Turns(f, s),
         flow[f].stage # "saved_twice",
         UNCHANGED <<jobs, restarts, patched>>,
         s \in {"inserting", "structuring", "promoting"} =>
           flow[f].stage \in {"inserting", "structuring", "promoting"},
         TypeOK' => AgesAgree',
         store' \in [Flows -> Ages \cup {NoEntry}], since' \in [Flows -> Ages \cup {NoEntry}]
  PROVE  IntakeInv'
<1>0. TypeOK
  BY DEF IntakeInv
<1>1. /\ flow' \in [Flows -> [stage : Stages, url : Urls \cup {NoUrl}, beaten : BOOLEAN]]
      /\ flow'[f].stage = s /\ flow'[f].url = flow[f].url /\ flow'[f].beaten = flow[f].beaten
      /\ \A g \in Flows \ {f} : flow'[g] = flow[g]
  BY <1>0, TurnsKeepType
<1>2. TypeOK'
  BY <1>0, <1>1 DEF TypeOK, Stages
<1>3. OnlyOverlapsDuplicate'
  BY <1>1 DEF IntakeInv, OnlyOverlapsDuplicate
<1>4. LooksHold'
  <2> SUFFICES ASSUME NEW g \in Flows,
                      flow'[g].stage \in {"inserting", "structuring", "promoting"},
                      ~flow'[g].beaten
               PROVE  LET u == normalize_job_url(flow'[g].url)
                      IN  u # NoUrl /\ Stable(u) /\ u \notin patched' => jobs'[u] = 0
    BY DEF LooksHold
  <2>1. /\ flow[g].stage \in {"inserting", "structuring", "promoting"}
        /\ ~flow[g].beaten /\ flow'[g].url = flow[g].url
    BY <1>1
  <2> QED BY <2>1 DEF IntakeInv, LooksHold
<1> QED BY <1>2, <1>3, <1>4 DEF IntakeInv

\* Every step of the browser, of the server and of time keeps it.
LEMMA NextKeepsIntake ==
  ASSUME IntakeInv, [Next]_vars PROVE IntakeInv'
<1>0. TypeOK /\ OnlyOverlapsDuplicate /\ LooksHold /\ AgesAgree
  BY DEF IntakeInv
<1>ages. UNCHANGED <<store, since>> =>
           /\ AgesAgree'
           /\ store' \in [Flows -> Ages \cup {NoEntry}]
           /\ since' \in [Flows -> Ages \cup {NoEntry}]
  BY <1>0 DEF AgesAgree, TypeOK
<1>1. ASSUME NEW f \in Flows, Capture(f) PROVE IntakeInv'
  <2>1. PICK u \in Urls \cup {NoUrl} :
          flow' = [flow EXCEPT ![f].url = u,
                               ![f].stage = IF u = NoUrl THEN "judging" ELSE "looking"]
    BY <1>1 DEF Capture
  <2>2. /\ flow[f].stage = "new" /\ UNCHANGED <<jobs, store, restarts, since, patched>>
        /\ flow'[f].stage \in {"judging", "looking"}
        /\ \A g \in Flows \ {f} : flow'[g] = flow[g]
        /\ flow' \in [Flows -> [stage : Stages, url : Urls \cup {NoUrl}, beaten : BOOLEAN]]
    BY <1>0, <1>1, <2>1 DEF Capture, TypeOK, Stages, InBrowser, InServer, Done
  <2>3. TypeOK' /\ OnlyOverlapsDuplicate' /\ LooksHold'
    BY <1>0, <2>2 DEF TypeOK, Stages, OnlyOverlapsDuplicate, LooksHold
  <2> QED BY <2>2, <2>3, <1>ages DEF IntakeInv
<1>2. ASSUME NEW f \in Flows, LookUp(f) \/ Judge(f) \/ Parse(f) PROVE IntakeInv'
  <2>1. PICK s \in {"duplicate", "judging", "parsing", "refused", "handing", "failed"} :
          Turns(f, s)
    BY <1>2 DEF LookUp, Judge, Parse
  <2>2. /\ s \in Stages /\ flow[f].stage # "saved_twice"
        /\ UNCHANGED <<jobs, store, restarts, since, patched>>
    BY <1>2, <2>1 DEF LookUp, Judge, Parse, Stages, InBrowser, InServer, Done
  <2> QED BY <2>1, <2>2, <1>ages, QuietTurn
<1>3. ASSUME NEW f \in Flows, Reload(f) \/ NoProfile(f) PROVE IntakeInv'
  <2>1. PICK s \in {"opening", "reviewing"} : Turns(f, s)
    BY <1>3 DEF Reload, NoProfile
  <2>2. /\ s \in Stages /\ flow[f].stage # "saved_twice"
        /\ UNCHANGED <<jobs, store, restarts, since, patched>>
    BY <1>3, <2>1 DEF Reload, NoProfile, Stages, InBrowser, InServer, Done
  <2> QED BY <2>1, <2>2, <1>ages, QuietTurn
<1>4. ASSUME NEW f \in Flows, HandOff(f) PROVE IntakeInv'
  <2>1. /\ Turns(f, "opening") /\ "opening" \in Stages
        /\ flow[f].stage # "saved_twice" /\ UNCHANGED <<jobs, restarts, patched>>
    BY <1>4 DEF HandOff, Stages, InBrowser
  <2>2. /\ store' \in [Flows -> Ages \cup {NoEntry}]
        /\ since' \in [Flows -> Ages \cup {NoEntry}]
    BY <1>0, <1>4 DEF HandOff, Purged, TypeOK, Ages
  <2>3. AgesAgree'
    <3> SUFFICES ASSUME NEW g \in Flows
                 PROVE  IF since'[g] = TTL + 1 THEN store'[g] \in {TTL + 1, NoEntry}
                        ELSE store'[g] = since'[g]
      BY DEF AgesAgree, NoEntry
    <3>1. /\ since[g] \in 0..(TTL + 2)
          /\ Purged[g] = IF since[g] <= TTL THEN since[g] ELSE NoEntry
      BY <1>0, PurgedIsInTime DEF TypeOK, Ages, NoEntry
    <3>2. store' = [Purged EXCEPT ![f] = 0] /\ since' = [since EXCEPT ![f] = 0]
      BY <1>4 DEF HandOff
    <3>3. IF g = f THEN store'[g] = 0 /\ since'[g] = 0
          ELSE store'[g] = Purged[g] /\ since'[g] = since[g]
      BY <1>0, <3>2, PurgedIsInTime DEF TypeOK
    <3> QED BY <3>1, <3>3 DEF NoEntry
  <2> QED BY <2>1, <2>2, <2>3, QuietTurn
<1>5. ASSUME NEW f \in Flows, OpenReview(f) PROVE IntakeInv'
  <2>1. PICK s \in {"reviewing", "lost"} : Turns(f, s)
    BY <1>5 DEF OpenReview
  <2>2. /\ s \in Stages /\ flow[f].stage # "saved_twice"
        /\ UNCHANGED <<jobs, restarts, since, patched>>
    BY <1>5, <2>1 DEF OpenReview, Stages, InBrowser, Done
  <2>3. /\ store' \in [Flows -> Ages \cup {NoEntry}]
        /\ since' \in [Flows -> Ages \cup {NoEntry}]
    BY <1>0, <1>5 DEF OpenReview, Purged, TypeOK
  <2>4. AgesAgree'
    <3> SUFFICES ASSUME NEW g \in Flows
                 PROVE  IF since'[g] = TTL + 1 THEN store'[g] \in {TTL + 1, NoEntry}
                        ELSE store'[g] = since'[g]
      BY DEF AgesAgree, NoEntry
    <3>1. /\ since[g] \in 0..(TTL + 2)
          /\ Purged[g] = IF since[g] <= TTL THEN since[g] ELSE NoEntry
      BY <1>0, PurgedIsInTime DEF TypeOK, Ages, NoEntry
    <3>2. store' = Purged /\ since' = since
      BY <1>5 DEF OpenReview
    <3> QED BY <3>1, <3>2 DEF NoEntry
  <2> QED BY <2>1, <2>2, <2>3, <2>4, QuietTurn
<1>6. ASSUME NEW f \in Flows, Paste(f) PROVE IntakeInv'
  <2>1. /\ flow[f].stage = "new" /\ UNCHANGED <<jobs, store, restarts, since, patched>>
        /\ flow'[f].stage = "reviewing"
        /\ \A g \in Flows \ {f} : flow'[g] = flow[g]
        /\ flow' \in [Flows -> [stage : Stages, url : Urls \cup {NoUrl}, beaten : BOOLEAN]]
    BY <1>0, <1>6 DEF Paste, TypeOK, Stages, InBrowser
  <2>2. TypeOK' /\ OnlyOverlapsDuplicate' /\ LooksHold'
    BY <1>0, <2>1 DEF TypeOK, Stages, OnlyOverlapsDuplicate, LooksHold
  <2> QED BY <2>1, <2>2, <1>ages DEF IntakeInv
<1>7. ASSUME NEW f \in Flows, Save(f) PROVE IntakeInv'
  <2> DEFINE u == normalize_job_url(flow[f].url)
  <2>1. PICK s \in {"duplicate", "inserting"} :
          /\ flow' = [flow EXCEPT ![f] = [flow[f] EXCEPT !.stage = s, !.beaten = FALSE]]
          /\ s = "inserting" => ~Found(u)
    BY <1>7 DEF Save
  <2>2. /\ flow[f].stage = "reviewing"
        /\ UNCHANGED <<jobs, store, restarts, since, patched>>
    BY <1>7 DEF Save
  <2> DEFINE r == [flow[f] EXCEPT !.stage = s, !.beaten = FALSE]
  <2>3. r \in Records /\ r.stage = s /\ r.url = flow[f].url
    BY <1>0 DEF TypeOK, Records, Stages, InServer, Done
  <2> HIDE DEF r
  <2>4. /\ flow' \in [Flows -> Records] /\ flow'[f] = r
        /\ \A g \in Flows \ {f} : flow'[g] = flow[g]
    BY <1>0, <2>1, <2>3, OneFlowChanges DEF r
  <2>5. TypeOK' /\ OnlyOverlapsDuplicate'
    BY <1>0, <2>2, <2>4 DEF TypeOK, Records, Stages, OnlyOverlapsDuplicate
  <2>6. u \in Urls \cup {NoUrl}
    BY <1>0, NormalizedIsUrl DEF TypeOK
  <2>7. s = "inserting" /\ u # NoUrl /\ Stable(u) => jobs[u] = 0
    BY <1>0, <2>1, <2>6, NotFoundIsNew
  <2>8. LooksHold'
    BY <1>0, <2>2, <2>3, <2>4, <2>7 DEF LooksHold
  <2> QED BY <2>2, <2>5, <2>8, <1>ages DEF IntakeInv
<1>8. ASSUME NEW f \in Flows, Promote(f) PROVE IntakeInv'
  <2>0. PICK v \in Urls \cup {NoUrl} :
          flow' = [flow EXCEPT ![f].stage = IF Found(v) THEN "duplicate" ELSE "structuring",
                               ![f].url = v, ![f].beaten = FALSE]
    BY <1>8 DEF Promote
  <2> DEFINE s == IF Found(v) THEN "duplicate" ELSE "structuring"
  <2>1. /\ flow' = [flow EXCEPT ![f] = [flow[f] EXCEPT !.stage = s, !.url = v,
                                                      !.beaten = FALSE]]
        /\ s \in {"duplicate", "structuring"} /\ (s = "structuring" => ~Found(v))
    BY <2>0
  <2> HIDE DEF s
  <2>2. flow[f].stage = "new" /\ UNCHANGED <<jobs, store, restarts, since, patched>>
    BY <1>8 DEF Promote
  <2> DEFINE u == normalize_job_url(v)
             r == [flow[f] EXCEPT !.stage = s, !.url = v, !.beaten = FALSE]
  <2>3. r \in Records /\ r.stage = s /\ r.url = v
    BY <1>0, <2>1 DEF TypeOK, Records, Stages, InServer, Done
  <2> HIDE DEF r
  <2>4. /\ flow' \in [Flows -> Records] /\ flow'[f] = r
        /\ \A g \in Flows \ {f} : flow'[g] = flow[g]
    BY <1>0, <2>1, <2>3, OneFlowChanges DEF r
  <2>5. TypeOK' /\ OnlyOverlapsDuplicate'
    BY <1>0, <2>2, <2>4 DEF TypeOK, Records, Stages, OnlyOverlapsDuplicate
  <2>6. u \in Urls \cup {NoUrl}
    BY NormalizedIsUrl
  <2>7. s = "structuring" /\ u # NoUrl => jobs[u] = 0
    BY <1>0, <2>1, <2>6 DEF Found, TypeOK
  <2>8. LooksHold'
    <3>1. s = "duplicate" \/ s = "structuring"
      BY <2>1
    <3> QED BY <1>0, <2>2, <2>3, <2>4, <2>7, <3>1 DEF LooksHold
  <2> QED BY <2>2, <2>5, <2>8, <1>ages DEF IntakeInv
<1>9. ASSUME NEW f \in Flows, Structure(f) PROVE IntakeInv'
  <2>1. PICK s \in {"promoting", "failed"} : Turns(f, s)
    BY <1>9 DEF Structure
  <2>2. /\ s \in Stages /\ flow[f].stage = "structuring"
        /\ UNCHANGED <<jobs, store, restarts, since, patched>>
    BY <1>9, <2>1 DEF Structure, Stages, InServer, Done
  <2> QED BY <2>1, <2>2, <1>ages, QuietTurn
<1>10. ASSUME NEW f \in Flows, Insert(f) PROVE IntakeInv'
  <2> DEFINE u == normalize_job_url(flow[f].url)
  <2>0. /\ flow[f].stage \in {"inserting", "promoting"}
        /\ UNCHANGED <<store, restarts, since, patched>>
        /\ u \in Urls \cup {NoUrl}
    BY <1>0, <1>10, NormalizedIsUrl DEF Insert, TypeOK
  <2>1. CASE u = NoUrl
    <3>1. Turns(f, "saved") /\ UNCHANGED jobs
      BY <1>10, <2>1 DEF Insert
    <3> QED BY <2>0, <3>1, <1>ages, QuietTurn DEF Stages, Done
  <2>2. CASE u # NoUrl
    <3>1. /\ jobs' = [jobs EXCEPT ![u] = @ + 1]
          /\ flow' = [g \in Flows |->
               IF g = f THEN [flow[f] EXCEPT
                 !.stage = IF flow[f].beaten THEN "saved_twice" ELSE "saved"]
               ELSE [flow[g] EXCEPT !.beaten = @ \/ g \in Looked(u)]]
      BY <1>10, <2>2 DEF Insert
    <3>2. u \in Urls
      BY <2>0, <2>2
    <3>3. /\ flow' \in [Flows -> [stage : Stages, url : Urls \cup {NoUrl}, beaten : BOOLEAN]]
          /\ \A g \in Flows \ {f} :
               /\ flow'[g].stage = flow[g].stage /\ flow'[g].url = flow[g].url
               /\ ~flow'[g].beaten => ~flow[g].beaten /\ g \notin Looked(u)
          /\ flow'[f].stage = IF flow[f].beaten THEN "saved_twice" ELSE "saved"
          /\ flow'[f].url = flow[f].url
      BY <1>0, <3>1 DEF TypeOK, Stages, Done
    <3>4. TypeOK'
      <4>2. jobs \in [Urls -> Nat] /\ jobs' = [jobs EXCEPT ![u] = jobs[u] + 1]
        BY <1>0, <3>1 DEF TypeOK
      <4> HIDE DEF u
      <4>1. jobs' \in [Urls -> Nat]
        BY <3>2, <4>2
      <4> QED BY <1>0, <2>0, <3>3, <4>1 DEF TypeOK, Stages
    <3>5. LooksHold'
      <4> SUFFICES ASSUME NEW g \in Flows,
                          flow'[g].stage \in {"inserting", "structuring", "promoting"},
                          ~flow'[g].beaten,
                          normalize_job_url(flow'[g].url) # NoUrl,
                          Stable(normalize_job_url(flow'[g].url)),
                          normalize_job_url(flow'[g].url) \notin patched
                   PROVE  jobs'[normalize_job_url(flow'[g].url)] = 0
        BY <2>0 DEF LooksHold
      <4>1. g # f
        BY <3>3
      <4>2. /\ flow[g].stage \in {"inserting", "structuring", "promoting"}
            /\ flow'[g].url = flow[g].url /\ ~flow[g].beaten /\ g \notin Looked(u)
        BY <3>3, <4>1
      <4>3. normalize_job_url(flow[g].url) # u
        BY <4>2 DEF Looked
      <4>4. jobs[normalize_job_url(flow[g].url)] = 0
        BY <1>0, <4>2 DEF LooksHold
      <4>5. normalize_job_url(flow[g].url) \in Urls
        BY <1>0, <4>2, NormalizedIsUrl DEF TypeOK
      <4> QED BY <1>0, <3>1, <4>2, <4>3, <4>4, <4>5 DEF TypeOK
    <3>6. ~flow[f].beaten /\ Stable(u) /\ u \notin patched => jobs[u] = 0
      BY <1>0, <2>0, <2>2 DEF LooksHold
    <3>7. OnlyOverlapsDuplicate'
      <4> SUFFICES ASSUME NEW v \in Urls, jobs'[v] > 1, v \notin patched, Stable(v)
                   PROVE  \E g \in Flows : /\ flow'[g].stage = "saved_twice"
                                           /\ normalize_job_url(flow'[g].url) = v
        BY <2>0 DEF OnlyOverlapsDuplicate
      <4>1. CASE v = u
        <5>1. flow[f].beaten
          BY <1>0, <3>1, <3>2, <3>6, <4>1 DEF TypeOK
        <5> QED BY <3>3, <4>1, <5>1
      <4>2. CASE v # u
        <5>1. jobs[v] > 1
          BY <1>0, <3>1, <3>2, <4>2 DEF TypeOK
        <5>2. PICK g \in Flows : /\ flow[g].stage = "saved_twice"
                                 /\ normalize_job_url(flow[g].url) = v
          BY <1>0, <5>1 DEF OnlyOverlapsDuplicate
        <5> QED BY <2>0, <3>3, <5>2
      <4> QED BY <4>1, <4>2
    <3> QED BY <2>0, <3>4, <3>5, <3>7, <1>ages DEF IntakeInv
  <2> QED BY <2>1, <2>2
<1>11. ASSUME NEW u \in Urls, DeleteJob(u) PROVE IntakeInv'
  <2>1. /\ jobs' \in [Urls -> Nat] /\ \A v \in Urls : jobs'[v] <= jobs[v]
        /\ UNCHANGED <<store, flow, restarts, since, patched>>
    BY <1>0, <1>11 DEF DeleteJob, TypeOK
  <2>2. TypeOK' /\ OnlyOverlapsDuplicate'
    BY <1>0, <2>1 DEF TypeOK, OnlyOverlapsDuplicate
  <2>3. LooksHold'
    BY <1>0, <2>1, NormalizedIsUrl DEF TypeOK, LooksHold
  <2> QED BY <2>1, <2>2, <2>3, <1>ages DEF IntakeInv
<1>12. ASSUME NEW u \in Urls, NEW v \in Urls, UpdateJob(u, v) PROVE IntakeInv'
  <2>1. /\ jobs' \in [Urls -> Nat] /\ \A w \in Urls \ {v} : jobs'[w] <= jobs[w]
        /\ patched' = patched \cup {v} /\ UNCHANGED <<store, flow, restarts, since>>
    BY <1>0, <1>12 DEF UpdateJob, TypeOK
  <2>2. TypeOK' /\ OnlyOverlapsDuplicate'
    BY <1>0, <2>1 DEF TypeOK, OnlyOverlapsDuplicate
  <2>3. LooksHold'
    BY <1>0, <2>1, NormalizedIsUrl DEF TypeOK, LooksHold
  <2> QED BY <2>1, <2>2, <2>3, <1>ages DEF IntakeInv
<1>13. CASE Tick
  <2>1. /\ store' \in [Flows -> Ages \cup {NoEntry}]
        /\ since' \in [Flows -> Ages \cup {NoEntry}]
    BY <1>0, <1>13 DEF Tick, Older, Ages, NoEntry, TypeOK
  <2>2. AgesAgree'
    BY <1>0, <1>13 DEF Tick, Older, AgesAgree, Ages, NoEntry, TypeOK
  <2>3. TypeOK' /\ OnlyOverlapsDuplicate' /\ LooksHold'
    BY <1>0, <1>13, <2>1 DEF Tick, TypeOK, OnlyOverlapsDuplicate, LooksHold
  <2> QED BY <2>2, <2>3 DEF IntakeInv
<1>14. CASE Restart
  <2>1. /\ flow' \in [Flows -> [stage : Stages, url : Urls \cup {NoUrl}, beaten : BOOLEAN]]
        /\ \A f \in Flows :
             /\ flow'[f].stage \notin InServer /\ flow'[f].url = flow[f].url
             /\ flow[f].stage = "saved_twice" => flow'[f].stage = "saved_twice"
    BY <1>0, <1>14 DEF Restart, TypeOK, Stages, InBrowser, InServer, Done
  <2>2. /\ restarts' \in 0..MaxRestarts /\ UNCHANGED <<jobs, patched>>
        /\ store' = [f \in Flows |-> NoEntry] /\ since' = [f \in Flows |-> NoEntry]
    BY <1>0, <1>14 DEF Restart, TypeOK
  <2>3. TypeOK' /\ OnlyOverlapsDuplicate'
    BY <1>0, <2>1, <2>2 DEF TypeOK, Stages, OnlyOverlapsDuplicate
  <2>4. LooksHold' /\ AgesAgree'
    BY <2>1, <2>2 DEF LooksHold, AgesAgree, NoEntry, InServer
  <2> QED BY <2>3, <2>4 DEF IntakeInv
<1>15. CASE UNCHANGED vars
  BY <1>0, <1>15 DEF vars, IntakeInv, TypeOK, OnlyOverlapsDuplicate, LooksHold, AgesAgree
<1> QED
  <2>1. \A f \in Flows : FlowStep(f) => IntakeInv'
    BY <1>1, <1>2, <1>3, <1>4, <1>5, <1>6, <1>7, <1>8, <1>9, <1>10 DEF FlowStep
  <2> QED BY <2>1, <1>11, <1>12, <1>13, <1>14, <1>15 DEF Next

(***************************************************************************)
(* Theorems                                                                *)
(***************************************************************************)

\* The invariant the properties follow from.
THEOREM IntakeIsConsistent == Spec => []IntakeInv
BY InitIntake, NextKeepsIntake, PTL DEF Spec

\* Flows, the store and the rows keep their shape, for any flows, URLs and restarts.
THEOREM IntakeTypeCorrect == Spec => []TypeOK
BY IntakeIsConsistent, PTL DEF IntakeInv

\* create_job and promote_posting put a URL into the pipeline twice only if they
\* overlap, for any number of them.
THEOREM DuplicatesNeedAnOverlap == Spec => []OnlyOverlapsDuplicate
BY IntakeIsConsistent, PTL DEF IntakeInv

\* A review gets its hand-off exactly within HANDOFF_TTL, for any TTL and any number
\* of other hand-offs.
THEOREM HandoffsStay == Spec => HandoffsAreKept
<1>1. ASSUME IntakeInv, [Next]_vars
      PROVE  [\A f \in Flows :
                OpenReview(f) => (flow'[f].stage = "reviewing" <=> since[f] <= TTL)]_vars
  <2> SUFFICES ASSUME NEW f \in Flows, OpenReview(f)
               PROVE  flow'[f].stage = "reviewing" <=> since[f] <= TTL
    OBVIOUS
  <2>0. TypeOK /\ AgesAgree
    BY <1>1 DEF IntakeInv
  <2>1. store'[f] # NoEntry <=> since[f] <= TTL
    BY <2>0 DEF OpenReview, Purged, Expired, AgesAgree, TypeOK, Ages, NoEntry
  <2>2. flow'[f].stage = IF store'[f] # NoEntry THEN "reviewing" ELSE "lost"
    BY <2>0 DEF OpenReview, Turns, TypeOK
  <2> QED BY <2>1, <2>2
<1> QED BY <1>1, IntakeIsConsistent, PTL DEF Spec, HandoffsAreKept

(***************************************************************************)
(* The preparation of a text.  That no token is made up is said of every   *)
(* operator in one form: from lines over T it makes lines over T.          *)
(***************************************************************************)

\* What is kept of a text, one line after another.
LEMMA KeptUnrolls ==
  ASSUME NEW X, NEW s \in Seq(X), NEW S
  PROVE  \E acc :
           /\ acc[0] = <<>>
           /\ \A k \in 1..Len(s) :
                acc[k] = IF s[k] \in S THEN Append(acc[k - 1], s[k]) ELSE acc[k - 1]
           /\ Kept(s, S) = acc[Len(s)]
<1> DEFINE n == Len(s)
           Y == Seq(X)
           step == [p \in (1..n) \X Y |->
                      IF s[p[1]] \in S THEN Append(p[2], s[p[1]]) ELSE p[2]]
           Is(it) == it = [ss \in SUBSET DOMAIN s |->
                             IF ss = {} THEN <<>>
                             ELSE IF s[Max(ss)] \in S
                                  THEN Append(it[ss \ {Max(ss)}], s[Max(ss)])
                                  ELSE it[ss \ {Max(ss)}]]
<1>1. n \in Nat /\ DOMAIN s = 1..n /\ <<>> \in Y
  OBVIOUS
<1>2. IsStep(n, Y, step)
  BY DEF IsStep
<1>3. PICK it : IsFold(n, Y, <<>>, step, it)
  <2> HIDE DEF step, Y, n
  <2> QED
    BY <1>1, <1>2, FoldExists
<1>4. /\ it \in [SUBSET (1..n) -> Y]
      /\ \A ss \in SUBSET (1..n) :
           it[ss] = IF ss = {} THEN <<>> ELSE step[<<Max(ss), it[ss \ {Max(ss)}]>>]
  <2> HIDE DEF step, Y, n
  <2> QED
    BY <1>3 DEF IsFold
<1>5. ASSUME NEW ss \in SUBSET (1..n), ss # {}
      PROVE  it[ss] = IF s[Max(ss)] \in S
                      THEN Append(it[ss \ {Max(ss)}], s[Max(ss)])
                      ELSE it[ss \ {Max(ss)}]
  <2>1. Max(ss) \in 1..n
    BY <1>1, <1>5, MaxIsGreatest
  <2>2. it[ss \ {Max(ss)}] \in Y
    BY <1>4
  <2> QED
    BY <1>4, <1>5, <2>1, <2>2
<1>6. Is(it)
  BY <1>1, <1>4, <1>5
<1>7. PICK got : Is(got) /\ Kept(s, S) = got[DOMAIN s]
  <2>1. \E got : Is(got)
    BY <1>6
  <2> QED
    BY <2>1 DEF Kept, FoldLeft, MapThenFoldSet
<1> DEFINE acc == [k \in 0..n |-> got[1..k]]
<1>8. acc[0] = <<>>
  <2>1. 1..0 = {} /\ 0 \in 0..n
    BY <1>1
  <2> QED
    BY <1>7, <2>1
<1>9. ASSUME NEW k \in 1..n
      PROVE  acc[k] = IF s[k] \in S THEN Append(acc[k - 1], s[k]) ELSE acc[k - 1]
  <2>1. /\ 1..k \in SUBSET (1..n) /\ 1..k # {}
        /\ Max(1..k) = k /\ (1..k) \ {k} = 1..(k - 1)
    <3> HIDE DEF n
    <3> QED
      BY <1>1, UpToIsPrefix
  <2>2. acc[k] = got[1..k] /\ acc[k - 1] = got[1..(k - 1)]
    BY <1>1
  <2>3. got[1..k] = IF s[k] \in S THEN Append(got[1..(k - 1)], s[k]) ELSE got[1..(k - 1)]
    <3>1. PICK T, R : T = 1..k /\ R = 1..(k - 1)
      OBVIOUS
    <3>2. T \in SUBSET DOMAIN s /\ T # {} /\ Max(T) = k /\ T \ {k} = R
      BY <1>1, <2>1, <3>1
    <3>3. got[T] = IF s[Max(T)] \in S THEN Append(got[T \ {Max(T)}], s[Max(T)])
                   ELSE got[T \ {Max(T)}]
      BY <1>7, <3>2
    <3>4. got[T] = IF s[k] \in S THEN Append(got[R], s[k]) ELSE got[R]
      BY <3>2, <3>3
    <3> QED
      BY <3>1, <3>4
  <2> HIDE DEF acc
  <2> QED
    BY <2>2, <2>3
<1>10. Kept(s, S) = acc[n]
  <2>1. Kept(s, S) = got[1..n] /\ n \in 0..n
    BY <1>1, <1>7
  <2> QED
    BY <2>1
<1> QED
  BY <1>8, <1>9, <1>10

\* A sequence, and what is in it.
LEMMA ToSetOfAppend ==
  ASSUME NEW X, NEW s \in Seq(X), NEW x \in X
  PROVE  Append(s, x) \in Seq(X) /\ ToSet(Append(s, x)) = ToSet(s) \cup {x}
<1>1. PICK r : r = Append(s, x)
  OBVIOUS
<1>2. /\ r \in Seq(X) /\ Len(s) \in Nat /\ DOMAIN r = 1..(Len(s) + 1) /\ DOMAIN s = 1..Len(s)
      /\ r[Len(s) + 1] = x /\ \A i \in 1..Len(s) : r[i] = s[i]
  BY <1>1
<1>3. ASSUME NEW y \in ToSet(r) PROVE y \in ToSet(s) \cup {x}
  <2>1. PICK i \in 1..(Len(s) + 1) : r[i] = y
    BY <1>2 DEF ToSet
  <2>2. CASE i = Len(s) + 1
    BY <1>2, <2>1, <2>2
  <2>3. CASE i # Len(s) + 1
    <3>1. i \in 1..Len(s)
      BY <1>2, <2>3
    <3> QED
      BY <1>2, <2>1, <3>1 DEF ToSet
  <2> QED
    BY <2>2, <2>3
<1>4. ASSUME NEW y \in ToSet(s) \cup {x} PROVE y \in ToSet(r)
  <2>1. CASE y = x
    <3>1. Len(s) + 1 \in DOMAIN r
      BY <1>2
    <3> QED
      BY <1>2, <2>1, <3>1 DEF ToSet
  <2>2. CASE y \in ToSet(s)
    <3>1. PICK i \in 1..Len(s) : s[i] = y
      BY <1>2, <2>2 DEF ToSet
    <3>2. i \in DOMAIN r /\ r[i] = y
      BY <1>2, <3>1
    <3> QED
      BY <3>2 DEF ToSet
  <2> QED
    BY <2>1, <2>2
<1>5. ToSet(r) = ToSet(s) \cup {x}
  BY <1>3, <1>4
<1> QED
  BY <1>1, <1>2, <1>5

\* What is kept is what is in both.
LEMMA KeptIs ==
  ASSUME NEW X, NEW s \in Seq(X), NEW S
  PROVE  Kept(s, S) \in Seq(X) /\ ToSet(Kept(s, S)) = ToSet(s) \cap S
<1>1. PICK acc :
        /\ acc[0] = <<>>
        /\ \A k \in 1..Len(s) :
             acc[k] = IF s[k] \in S THEN Append(acc[k - 1], s[k]) ELSE acc[k - 1]
        /\ Kept(s, S) = acc[Len(s)]
  BY KeptUnrolls
<1>2. PICK n \in Nat : n = Len(s) /\ DOMAIN s = 1..n
  OBVIOUS
<1> DEFINE T == {k \in 0..n : /\ acc[k] \in Seq(X)
                              /\ ToSet(acc[k]) = {s[i] : i \in 1..k} \cap S}
<1>3. 0 \in T
  <2>1. 1..0 = {} /\ 0 \in 0..n /\ ToSet(<<>>) = {}
    BY DEF ToSet
  <2>2. acc[0] \in Seq(X) /\ ToSet(acc[0]) = {}
    BY <1>1, <2>1
  <2> QED
    BY <2>1, <2>2
<1>4. ASSUME NEW k \in 0..(n - 1), k \in T
      PROVE  k + 1 \in T
  <2>1. PICK m : m = k + 1
    OBVIOUS
  <2>2. m \in 1..n /\ m \in 0..n /\ m - 1 = k /\ 1..m = (1..k) \cup {m} /\ s[m] \in X
    BY <1>2, <2>1
  <2>3. acc[m] = IF s[m] \in S THEN Append(acc[k], s[m]) ELSE acc[k]
    BY <1>1, <1>2, <2>2
  <2>4. acc[k] \in Seq(X) /\ ToSet(acc[k]) = {s[i] : i \in 1..k} \cap S
    BY <1>4
  <2>5. {s[i] : i \in 1..m} = {s[i] : i \in 1..k} \cup {s[m]}
    BY <2>2
  <2>6. acc[m] \in Seq(X) /\ ToSet(acc[m]) = {s[i] : i \in 1..m} \cap S
    <3>1. CASE s[m] \in S
      <4>1. /\ Append(acc[k], s[m]) \in Seq(X)
            /\ ToSet(Append(acc[k], s[m])) = ToSet(acc[k]) \cup {s[m]}
        BY <2>2, <2>4, ToSetOfAppend
      <4> QED
        BY <2>3, <2>4, <2>5, <3>1, <4>1
    <3>2. CASE s[m] \notin S
      BY <2>3, <2>4, <2>5, <3>2
    <3> QED
      BY <3>1, <3>2
  <2> QED
    BY <2>1, <2>2, <2>6
<1>5. n \in T
  <2> HIDE DEF T
  <2>1. \A k \in 0..n : k \in T
    BY <1>3, <1>4, UpTo
  <2> QED
    BY <2>1
<1>6. acc[n] \in Seq(X) /\ ToSet(acc[n]) = {s[i] : i \in 1..n} \cap S
  BY <1>5
<1> QED
  BY <1>1, <1>2, <1>6 DEF ToSet

\* A token more of a line: a part of its own, or the end of the part before it.
WithToken(parts, t) ==
  IF StartsPart(parts, t) THEN Append(parts, <<t>>)
  ELSE [parts EXCEPT ![Len(parts)] = Append(parts[Len(parts)], t)]

LEMMA WithTokenType ==
  ASSUME NEW T, NEW parts \in Seq(Seq(T)), NEW t \in T
  PROVE  WithToken(parts, t) \in Seq(Seq(T))
<1>1. PICK L : L = Seq(T)
  OBVIOUS
<1>2. <<t>> \in L /\ parts \in Seq(L)
  BY <1>1
<1>3. CASE StartsPart(parts, t)
  <2>1. Append(parts, <<t>>) \in Seq(L)
    BY <1>2
  <2> QED
    BY <1>1, <1>3, <2>1 DEF WithToken
<1>4. CASE ~StartsPart(parts, t)
  <2>1. PICK n : n = Len(parts)
    OBVIOUS
  <2>2. n \in Nat /\ n >= 1 /\ DOMAIN parts = 1..n
    <3>1. parts # <<>>
      BY <1>4 DEF StartsPart
    <3> QED
      BY <1>2, <2>1, <3>1
  <2>3. parts[n] \in L
    BY <1>2, <2>2
  <2>4. PICK last : last = Append(parts[n], t)
    OBVIOUS
  <2>5. last \in L
    BY <1>1, <2>3, <2>4
  <2>6. [parts EXCEPT ![n] = last] \in Seq(L)
    BY <1>2, <2>1, <2>2, <2>5
  <2> QED
    BY <1>1, <1>4, <2>1, <2>4, <2>6 DEF WithToken
<1> QED
  BY <1>3, <1>4

\* A line is broken one token after another.
LEMMA BrokenUnrolls ==
  ASSUME NEW X, NEW s \in Seq(X)
  PROVE  \E acc :
           /\ acc[0] = <<>>
           /\ \A k \in 1..Len(s) : acc[k] = WithToken(acc[k - 1], s[k])
           /\ BrokenAtMarkers(s) = acc[Len(s)]
<1> DEFINE n == Len(s)
           Y == Seq(Seq(X))
           step == [p \in (1..n) \X Y |-> WithToken(p[2], s[p[1]])]
           Is(it) == it = [ss \in SUBSET DOMAIN s |->
                             IF ss = {} THEN <<>>
                             ELSE WithToken(it[ss \ {Max(ss)}], s[Max(ss)])]
<1>1. n \in Nat /\ DOMAIN s = 1..n /\ <<>> \in Y
  OBVIOUS
<1>2. IsStep(n, Y, step)
  <2>1. ASSUME NEW p \in (1..n) \X Y PROVE WithToken(p[2], s[p[1]]) \in Y
    <3>1. p[2] \in Seq(Seq(X)) /\ s[p[1]] \in X
      BY <1>1
    <3> QED
      BY <3>1, WithTokenType
  <2> QED
    BY <2>1 DEF IsStep
<1>3. PICK it : IsFold(n, Y, <<>>, step, it)
  <2> HIDE DEF step, Y, n
  <2> QED
    BY <1>1, <1>2, FoldExists
<1>4. /\ it \in [SUBSET (1..n) -> Y]
      /\ \A ss \in SUBSET (1..n) :
           it[ss] = IF ss = {} THEN <<>> ELSE step[<<Max(ss), it[ss \ {Max(ss)}]>>]
  <2> HIDE DEF step, Y, n
  <2> QED
    BY <1>3 DEF IsFold
<1>5. ASSUME NEW ss \in SUBSET (1..n), ss # {}
      PROVE  it[ss] = WithToken(it[ss \ {Max(ss)}], s[Max(ss)])
  <2>1. Max(ss) \in 1..n
    BY <1>1, <1>5, MaxIsGreatest
  <2>2. it[ss \ {Max(ss)}] \in Y
    BY <1>4
  <2> QED
    BY <1>4, <1>5, <2>1, <2>2
<1>6. Is(it)
  BY <1>1, <1>4, <1>5
<1>7. PICK got : Is(got) /\ BrokenAtMarkers(s) = got[DOMAIN s]
  <2>1. \E got : Is(got)
    BY <1>6
  <2> QED
    BY <2>1 DEF BrokenAtMarkers, FoldLeft, MapThenFoldSet, WithToken
<1> DEFINE acc == [k \in 0..n |-> got[1..k]]
<1>8. acc[0] = <<>>
  <2>1. 1..0 = {} /\ 0 \in 0..n
    BY <1>1
  <2> QED
    BY <1>7, <2>1
<1>9. ASSUME NEW k \in 1..n
      PROVE  acc[k] = WithToken(acc[k - 1], s[k])
  <2>1. /\ 1..k \in SUBSET (1..n) /\ 1..k # {}
        /\ Max(1..k) = k /\ (1..k) \ {k} = 1..(k - 1)
    <3> HIDE DEF n
    <3> QED
      BY <1>1, UpToIsPrefix
  <2>2. acc[k] = got[1..k] /\ acc[k - 1] = got[1..(k - 1)]
    BY <1>1
  <2>3. got[1..k] = WithToken(got[1..(k - 1)], s[k])
    <3>1. PICK T, R : T = 1..k /\ R = 1..(k - 1)
      OBVIOUS
    <3>2. T \in SUBSET DOMAIN s /\ T # {} /\ Max(T) = k /\ T \ {k} = R
      BY <1>1, <2>1, <3>1
    <3>3. got[T] = WithToken(got[T \ {Max(T)}], s[Max(T)])
      BY <1>7, <3>2
    <3>4. got[T] = WithToken(got[R], s[k])
      BY <3>2, <3>3
    <3> QED
      BY <3>1, <3>4
  <2> HIDE DEF acc
  <2> QED
    BY <2>2, <2>3
<1>10. BrokenAtMarkers(s) = acc[n]
  <2>1. BrokenAtMarkers(s) = got[1..n] /\ n \in 0..n
    BY <1>1, <1>7
  <2> QED
    BY <2>1
<1> QED
  BY <1>8, <1>9, <1>10

LEMMA BrokenType ==
  ASSUME NEW X, NEW s \in Seq(X)
  PROVE  BrokenAtMarkers(s) \in Seq(Seq(X))
<1>1. PICK acc :
        /\ acc[0] = <<>>
        /\ \A k \in 1..Len(s) : acc[k] = WithToken(acc[k - 1], s[k])
        /\ BrokenAtMarkers(s) = acc[Len(s)]
  BY BrokenUnrolls
<1>2. PICK n \in Nat : n = Len(s) /\ DOMAIN s = 1..n
  OBVIOUS
<1> DEFINE T == {k \in 0..n : acc[k] \in Seq(Seq(X))}
<1>3. 0 \in T
  <2>1. 0 \in 0..n /\ <<>> \in Seq(Seq(X))
    OBVIOUS
  <2> QED
    BY <1>1, <2>1
<1>4. ASSUME NEW k \in 0..(n - 1), k \in T
      PROVE  k + 1 \in T
  <2>1. PICK m : m = k + 1
    OBVIOUS
  <2>2. m \in 1..n /\ m \in 0..n /\ m - 1 = k /\ s[m] \in X
    BY <1>2, <2>1
  <2>3. acc[m] = WithToken(acc[k], s[m])
    BY <1>1, <1>2, <2>2
  <2>4. acc[k] \in Seq(Seq(X))
    BY <1>4
  <2>5. acc[m] \in Seq(Seq(X))
    BY <2>2, <2>3, <2>4, WithTokenType
  <2> QED
    BY <2>1, <2>2, <2>5
<1>5. n \in T
  <2> HIDE DEF T
  <2>1. \A k \in 0..n : k \in T
    BY <1>3, <1>4, UpTo
  <2> QED
    BY <2>1
<1> QED
  BY <1>1, <1>2, <1>5

(***************************************************************************)
(* Joining sequences                                                       *)
(***************************************************************************)

\* The recursion of FlattenSeq, up to n.
AreJoined(R, n, s) ==
  R = [i \in 1..n |-> IF i = 1 THEN s[i] ELSE R[i - 1] \o s[i]]

LEMMA JoinedExist ==
  ASSUME NEW s, NEW n \in Nat
  PROVE  \E R : AreJoined(R, n, s)
<1> DEFINE T == {m \in 0..n : \E R : AreJoined(R, m, s)}
<1>1. 0 \in T
  <2>1. 1..0 = {} /\ 0 \in 0..n
    OBVIOUS
  <2>2. AreJoined([i \in 1..0 |-> 0], 0, s)
    BY <2>1 DEF AreJoined
  <2> QED
    BY <2>1, <2>2
<1>2. ASSUME NEW m \in 0..(n - 1), m \in T
      PROVE  m + 1 \in T
  <2>1. PICK R : AreJoined(R, m, s)
    BY <1>2
  <2>2. PICK now : now = m + 1
    OBVIOUS
  <2>3. now \in 0..n /\ 1..now = (1..m) \cup {now} /\ now \notin 1..m /\ now - 1 = m
        /\ \A i \in 1..m : i = 1 \/ i - 1 \in 1..m
    BY <2>2
  <2>4. PICK last : last = IF now = 1 THEN s[now] ELSE R[m] \o s[now]
    OBVIOUS
  <2>5. PICK Q : Q = [i \in 1..now |-> IF i = now THEN last ELSE R[i]]
    OBVIOUS
  <2>6. ASSUME NEW i \in 1..now
        PROVE  Q[i] = IF i = 1 THEN s[i] ELSE Q[i - 1] \o s[i]
    <3>1. CASE i = now
      <4>1. now # 1 => m \in 1..m /\ Q[m] = R[m]
        BY <2>2, <2>3, <2>5
      <4>2. Q[now] = last
        BY <2>3, <2>5
      <4> QED
        BY <2>3, <2>4, <3>1, <4>1, <4>2
    <3>2. CASE i # now
      <4>1. i \in 1..m /\ Q[i] = R[i]
        BY <2>3, <2>5, <3>2
      <4>2. R[i] = IF i = 1 THEN s[i] ELSE R[i - 1] \o s[i]
        BY <2>1, <4>1 DEF AreJoined
      <4>3. i # 1 => Q[i - 1] = R[i - 1]
        BY <2>3, <2>5, <4>1
      <4> QED
        BY <4>1, <4>2, <4>3
    <3> QED
      BY <3>1, <3>2
  <2>7. AreJoined(Q, now, s)
    BY <2>5, <2>6 DEF AreJoined
  <2> QED
    BY <2>2, <2>3, <2>7
<1>3. n \in T
  <2> HIDE DEF T
  <2>1. \A k \in 0..n : k \in T
    BY <1>1, <1>2, UpTo
  <2> QED
    BY <2>1
<1> QED
  BY <1>3

\* What is in two sequences, one after the other.
LEMMA ToSetOfJoin ==
  ASSUME NEW X, NEW s \in Seq(X), NEW r \in Seq(X)
  PROVE  s \o r \in Seq(X) /\ ToSet(s) \cup ToSet(r) \subseteq ToSet(s \o r)
<1>1. PICK q : q = s \o r
  OBVIOUS
<1>2. /\ q \in Seq(X) /\ Len(s) \in Nat /\ Len(r) \in Nat
      /\ DOMAIN q = 1..(Len(s) + Len(r)) /\ DOMAIN s = 1..Len(s) /\ DOMAIN r = 1..Len(r)
      /\ \A i \in 1..Len(s) : q[i] = s[i]
      /\ \A i \in 1..Len(r) : q[Len(s) + i] = r[i]
  BY <1>1
<1>3. ASSUME NEW x \in ToSet(s) PROVE x \in ToSet(q)
  <2>1. PICK i \in 1..Len(s) : x = s[i]
    BY <1>2 DEF ToSet
  <2>2. i \in DOMAIN q /\ q[i] = x
    BY <1>2, <2>1
  <2> QED
    BY <2>2 DEF ToSet
<1>4. ASSUME NEW x \in ToSet(r) PROVE x \in ToSet(q)
  <2>1. PICK i \in 1..Len(r) : x = r[i]
    BY <1>2 DEF ToSet
  <2>2. PICK k : k = Len(s) + i
    OBVIOUS
  <2>3. k \in DOMAIN q
    BY <1>2, <2>2
  <2>4. q[k] = x
    BY <1>2, <2>1, <2>2
  <2> QED
    BY <2>3, <2>4 DEF ToSet
<1> QED
  BY <1>1, <1>2, <1>3, <1>4

\* Joined lines have the tokens of all of them.
LEMMA FlattenIs ==
  ASSUME NEW X, NEW s \in Seq(Seq(X))
  PROVE  /\ FlattenSeq(s) \in Seq(X)
         /\ \A i \in DOMAIN s : ToSet(s[i]) \subseteq ToSet(FlattenSeq(s))
<1>1. PICK n \in Nat : n = Len(s) /\ DOMAIN s = 1..n
  OBVIOUS
<1>2. CASE n = 0
  <2>1. FlattenSeq(s) = s
    BY <1>1, <1>2 DEF FlattenSeq
  <2>2. s = <<>> /\ DOMAIN s = {} /\ <<>> \in Seq(X)
    BY <1>1, <1>2
  <2>3. FlattenSeq(s) \in Seq(X)
    BY <2>1, <2>2
  <2> QED
    BY <2>2, <2>3
<1>3. CASE n # 0
  <2> DEFINE Is(R) == R = [i \in 1..Len(s) |-> IF i = 1 THEN s[i] ELSE R[i - 1] \o s[i]]
  <2>1. PICK R : AreJoined(R, n, s) /\ FlattenSeq(s) = R[n]
    <3>1. Len(s) # 0
      BY <1>1, <1>3
    <3>2. \E R : Is(R)
      <4>1. \E R : AreJoined(R, Len(s), s)
        BY <1>1, JoinedExist
      <4> QED
        BY <4>1 DEF AreJoined
    <3>3. PICK R : Is(R) /\ FlattenSeq(s) = R[Len(s)]
      BY <3>1, <3>2 DEF FlattenSeq
    <3>4. AreJoined(R, n, s)
      BY <1>1, <3>3 DEF AreJoined
    <3> QED
      BY <1>1, <3>3, <3>4
  <2> DEFINE T == {k \in 0..n : k # 0 => /\ R[k] \in Seq(X)
                                        /\ \A i \in 1..k : ToSet(s[i]) \subseteq ToSet(R[k])}
  <2>2. 0 \in T
    OBVIOUS
  <2>3. ASSUME NEW k \in 0..(n - 1), k \in T
        PROVE  k + 1 \in T
    <3>1. PICK m : m = k + 1
      OBVIOUS
    <3>2. m \in 1..n /\ m \in 0..n /\ m - 1 = k /\ 1..m = (1..k) \cup {m} /\ s[m] \in Seq(X)
      BY <1>1, <3>1
    <3>3. R[m] = IF m = 1 THEN s[m] ELSE R[k] \o s[m]
      BY <2>1, <3>2 DEF AreJoined
    <3>4. CASE m = 1
      <4>1. R[m] = s[m] /\ 1..m = {m}
        BY <3>3, <3>4
      <4> QED
        BY <3>1, <3>2, <4>1
    <3>5. CASE m # 1
      <4>1. R[k] \in Seq(X) /\ \A i \in 1..k : ToSet(s[i]) \subseteq ToSet(R[k])
        BY <2>3, <3>1, <3>5
      <4>2. R[k] \o s[m] \in Seq(X) /\ ToSet(R[k]) \cup ToSet(s[m]) \subseteq ToSet(R[k] \o s[m])
        BY <3>2, <4>1, ToSetOfJoin
      <4>3. PICK now : now = R[m] /\ now = R[k] \o s[m]
        BY <3>3, <3>5
      <4>4. now \in Seq(X) /\ \A i \in 1..m : ToSet(s[i]) \subseteq ToSet(now)
        BY <3>2, <4>1, <4>2, <4>3
      <4> QED
        BY <3>1, <3>2, <4>3, <4>4
    <3> QED
      BY <3>4, <3>5
  <2>4. n \in T
    <3> HIDE DEF T
    <3>1. \A k \in 0..n : k \in T
      BY <2>2, <2>3, UpTo
    <3> QED
      BY <3>1
  <2> QED
    BY <1>1, <1>3, <2>1, <2>4
<1> QED
  BY <1>2, <1>3

(***************************************************************************)
(* Parts of sequences                                                      *)
(***************************************************************************)

\* A part of a sequence has what the sequence has there.
LEMMA SliceIs ==
  ASSUME NEW X, NEW s \in Seq(X), NEW m \in 1..(Len(s) + 1), NEW n \in 0..Len(s)
  PROVE  /\ SubSeq(s, m, n) \in Seq(X)
         /\ \A i \in DOMAIN SubSeq(s, m, n) :
              \E j \in m..n : j \in DOMAIN s /\ SubSeq(s, m, n)[i] = s[j]
<1>1. PICK q : q = SubSeq(s, m, n)
  OBVIOUS
<1>2. Len(s) \in Nat /\ DOMAIN s = 1..Len(s) /\ \A j \in m..n : j \in 1..Len(s) /\ s[j] \in X
  OBVIOUS
<1>3. CASE m <= n
  <2>1. PICK k \in Nat : k = n - m + 1
    BY <1>2, <1>3
  <2>2. q = [i \in 1..k |-> s[i + m - 1]]
    BY <1>1, <1>2, <1>3, <2>1
  <2>3. ASSUME NEW i \in 1..k PROVE i + m - 1 \in m..n /\ q[i] = s[i + m - 1]
    BY <1>2, <2>1, <2>2
  <2>4. \A i \in 1..k : q[i] \in X
    BY <1>2, <2>3
  <2>5. q \in Seq(X) /\ DOMAIN q = 1..k
    BY <2>1, <2>2, <2>4
  <2> QED
    BY <1>1, <1>2, <2>3, <2>5
<1>4. CASE ~(m <= n)
  <2>1. q = <<>>
    BY <1>1, <1>2, <1>4
  <2> QED
    BY <1>1, <2>1
<1> QED
  BY <1>3, <1>4

LEMMA FromIs ==
  ASSUME NEW X, NEW s \in Seq(X), NEW m \in 1..(Len(s) + 1)
  PROVE  From(s, m) \in Seq(X)
<1>1. Len(s) \in 0..Len(s)
  OBVIOUS
<1> QED
  BY <1>1, SliceIs DEF From

\* The first of a set of positions, or 0.
First(I) == IF I # {} THEN Min(I) ELSE 0

LEMMA FirstIs ==
  ASSUME NEW n \in Nat, NEW I \in SUBSET (1..n)
  PROVE  /\ First(I) \in 0..n
         /\ First(I) = 0 => I = {}
         /\ First(I) # 0 => First(I) \in 1..n /\ First(I) \in I
         /\ \A i \in 1..n : i < First(I) => i \notin I
<1>1. CASE I = {}
  BY <1>1 DEF First
<1>2. CASE I # {}
  <2>1. PICK k : k = Min(I)
    OBVIOUS
  <2>2. k \in 1..n /\ k \in I /\ \A i \in I : k <= i
    BY <1>2, <2>1, MinIsLeast
  <2>3. First(I) = k
    BY <1>2, <2>1 DEF First
  <2> QED
    BY <2>2, <2>3
<1> QED
  BY <1>1, <1>2

\* What comes before the first position of a set has none of it.
BeforeAny(s, I) == IF First(I) = 0 THEN s ELSE Upto(s, First(I) - 1)

LEMMA BeforeAnyIs ==
  ASSUME NEW X, NEW s \in Seq(X), NEW I \in SUBSET (1..Len(s))
  PROVE  /\ BeforeAny(s, I) \in Seq(X)
         /\ \A i \in DOMAIN BeforeAny(s, I) :
              \E j \in DOMAIN s : j \notin I /\ BeforeAny(s, I)[i] = s[j]
<1>1. PICK n \in Nat : n = Len(s) /\ DOMAIN s = 1..n
  OBVIOUS
<1>2. PICK a : a = First(I)
  OBVIOUS
<1>3. /\ a \in 0..n
      /\ a = 0 => I = {}
      /\ a # 0 => a \in 1..n
      /\ \A i \in 1..n : i < a => i \notin I
  BY <1>1, <1>2, FirstIs
<1>4. CASE a = 0
  <2>1. BeforeAny(s, I) = s
    BY <1>2, <1>4 DEF BeforeAny
  <2> QED
    BY <1>1, <1>3, <1>4, <2>1
<1>5. CASE a # 0
  <2>1. BeforeAny(s, I) = SubSeq(s, 1, a - 1)
    BY <1>2, <1>5 DEF BeforeAny, Upto
  <2>2. PICK k : k = a - 1
    OBVIOUS
  <2>3. 1 \in 1..(Len(s) + 1) /\ k \in 0..Len(s) /\ \A j \in 1..k : j \in 1..n /\ j < a
    BY <1>1, <1>3, <1>5, <2>2
  <2>4. /\ SubSeq(s, 1, k) \in Seq(X)
        /\ \A i \in DOMAIN SubSeq(s, 1, k) :
             \E j \in 1..k : j \in DOMAIN s /\ SubSeq(s, 1, k)[i] = s[j]
    BY <2>3, SliceIs
  <2>5. \A j \in 1..k : j \notin I
    BY <1>3, <2>3
  <2>6. BeforeAny(s, I) = SubSeq(s, 1, k)
    BY <2>1, <2>2
  <2> HIDE DEF BeforeAny
  <2> QED
    BY <2>4, <2>5, <2>6
<1> QED
  BY <1>4, <1>5

\* What precedes the end of a section has no line that ends it.
LEMMA SectionIs ==
  ASSUME NEW T, NEW s \in Seq(Seq(T))
  PROVE  /\ Before(s, EndsSection) \in Seq(Seq(T))
         /\ \A i \in DOMAIN Before(s, EndsSection) : ~EndsSection(Before(s, EndsSection)[i])
<1> DEFINE I == {i \in 1..Len(s) : EndsSection(s[i])}
<1>1. Before(s, EndsSection) = BeforeAny(s, I)
  BY DEF Before, BeforeAny, First, SelectInSeq
<1>2. PICK X : X = Seq(T)
  OBVIOUS
<1>3. s \in Seq(X) /\ I \in SUBSET (1..Len(s))
  BY <1>2
<1>4. /\ BeforeAny(s, I) \in Seq(X)
      /\ \A i \in DOMAIN BeforeAny(s, I) :
           \E j \in DOMAIN s : j \notin I /\ BeforeAny(s, I)[i] = s[j]
  <2> HIDE DEF I
  <2> QED
    BY <1>3, BeforeAnyIs
<1>5. \A j \in DOMAIN s : j \notin I => ~EndsSection(s[j])
  BY <1>3
<1>6. \A i \in DOMAIN BeforeAny(s, I) : ~EndsSection(BeforeAny(s, I)[i])
  <2> HIDE DEF I
  <2> QED
    BY <1>4, <1>5, Zenon
<1> QED
  <2> HIDE DEF I
  <2> QED
    BY <1>1, <1>2, <1>4, <1>6

\* Words over T that stop no posting.
Unstopped(T) == T \ INLINE_SECTION_STOP_MARKERS

\* What precedes the first word that stops a posting has no such word.
LEMMA UnstoppedIs ==
  ASSUME NEW T, NEW s \in Seq(T)
  PROVE  Before(s, LAMBDA t : t \in INLINE_SECTION_STOP_MARKERS) \in Seq(Unstopped(T))
<1> DEFINE I == {i \in 1..Len(s) : s[i] \in INLINE_SECTION_STOP_MARKERS}
<1>1. PICK got : got = Before(s, LAMBDA t : t \in INLINE_SECTION_STOP_MARKERS)
  OBVIOUS
<1>2. got = BeforeAny(s, I)
  BY <1>1 DEF Before, BeforeAny, First, SelectInSeq
<1>3. /\ got \in Seq(T)
      /\ \A i \in DOMAIN got : \E j \in DOMAIN s : j \notin I /\ got[i] = s[j]
  <2>1. I \in SUBSET (1..Len(s))
    OBVIOUS
  <2> HIDE DEF I
  <2> QED
    BY <1>2, <2>1, BeforeAnyIs
<1>4. \A j \in DOMAIN s : j \notin I => s[j] \in Unstopped(T)
  BY DOMAIN s = 1..Len(s) DEF Unstopped
<1>5. \A i \in DOMAIN got : got[i] \in Unstopped(T)
  <2> HIDE DEF I
  <2> QED
    BY <1>3, <1>4, Zenon
<1>6. got \in Seq(Unstopped(T))
  BY <1>3, <1>5
<1> QED
  BY <1>1, <1>6

(***************************************************************************)
(* The section of a posting                                                *)
(***************************************************************************)

\* Lines over T that do not end a posting; and a posting made of some lines, one of
\* which is kept.
LinesOver(T)      == {line \in Seq(T) : ~IsStop(line)}
IsPosting(got, L) ==
  /\ got \in Seq(L)
  /\ got # <<>> => \E i \in DOMAIN got : ~IsNoise(got[i])

LEMMA SeqOfSome ==
  ASSUME NEW X, NEW s \in Seq(X), NEW Y, \A i \in DOMAIN s : s[i] \in Y
  PROVE  s \in Seq(Y)
OBVIOUS

\* A heading neither ends a posting nor is left out.
LEMMA HeadingStays ==
  ASSUME NEW T, NEW line \in Seq(T), IsHeading(line)
  PROVE  line \in LinesOver(T) /\ ~IsNoise(line)
<1>1. line[1] \in {"about the job", "requirements", "overview", "description"}
  BY DEF IsHeading, JOB_SECTION_HEADING_RE, SkipsPrefix
<1>2. line[1] \notin {"similar jobs", "benefits", "determine your fit", "easy apply"}
  BY <1>1
<1>3. ~IsStop(line) /\ ~IsNoise(line)
  BY <1>2 DEF IsStop, IsNoise, SECTION_STOP_HEADING_RE, UI_LINE_PATTERNS
<1> QED
  BY <1>3 DEF LinesOver

LEMMA NormalIs ==
  ASSUME NEW T, NEW text \in Seq(Seq(T))
  PROVE  normalize_flattened_job_text(text) \in Seq(Seq(T))
<1>1. PICK L : L = Seq(T)
  OBVIOUS
<1>2. PICK s : s = [i \in DOMAIN text |-> BrokenAtMarkers(text[i])]
  OBVIOUS
<1>3. \A i \in DOMAIN text : BrokenAtMarkers(text[i]) \in Seq(L)
  BY <1>1, BrokenType
<1>4. DOMAIN text = 1..Len(text) /\ Len(text) \in Nat
  OBVIOUS
<1>5. s \in Seq(Seq(L))
  BY <1>2, <1>3, <1>4
<1>6. FlattenSeq(s) \in Seq(L)
  BY <1>5, FlattenIs
<1> QED
  BY <1>1, <1>2, <1>6 DEF normalize_flattened_job_text

\* The first heading of a text.
LEMMA HeadingFound ==
  ASSUME NEW T, NEW text \in Seq(Seq(T)), SelectInSeq(text, IsHeading) # 0
  PROVE  /\ SelectInSeq(text, IsHeading) \in 1..Len(text)
         /\ IsHeading(text[SelectInSeq(text, IsHeading)])
<1> DEFINE I == {i \in 1..Len(text) : IsHeading(text[i])}
<1>1. SelectInSeq(text, IsHeading) = First(I)
  BY DEF SelectInSeq, First
<1>2. First(I) \in 1..Len(text) /\ First(I) \in I
  <2>1. I \in SUBSET (1..Len(text)) /\ Len(text) \in Nat
    OBVIOUS
  <2> HIDE DEF I
  <2> QED
    BY <1>1, <2>1, FirstIs
<1> QED
  BY <1>1, <1>2

\* What is joined around a heading is a posting.
LEMMA AroundHeading ==
  ASSUME NEW L, NEW line \in L, ~IsNoise(line), NEW p \in Seq(L), NEW r \in Seq(L)
  PROVE  IsPosting(p \o <<line>> \o r, L)
<1>2. PICK got : got = p \o <<line>> \o r
  OBVIOUS
<1>3. <<line>> \in Seq(L) /\ p \in Seq(L) /\ r \in Seq(L)
  OBVIOUS
<1>4. got \in Seq(L)
  BY <1>2, <1>3
<1>5. PICK k : k = Len(p) + 1
  OBVIOUS
<1>6. k \in DOMAIN got /\ got[k] = line
  BY <1>2, <1>3, <1>5
<1> QED
  BY <1>2, <1>4, <1>6 DEF IsPosting

LEMMA FromLinesIs ==
  ASSUME NEW T, NEW text \in Seq(Seq(T))
  PROVE  IsPosting(FromLines(text), LinesOver(T))
<1>1. PICK h : h = SelectInSeq(text, IsHeading)
  OBVIOUS
<1>2. CASE h = 0
  <2>1. FromLines(text) = <<>>
    BY <1>1, <1>2 DEF FromLines
  <2> QED
    BY <2>1 DEF IsPosting
<1>3. CASE h # 0
  <2>1. PICK X : X = Seq(T)
    OBVIOUS
  <2>2. PICK m : m = IF h > 4 THEN h - 4 ELSE 1
    OBVIOUS
  <2>3. PICK before : before = SubSeq(text, m, h - 1)
    OBVIOUS
  <2>4. PICK short : short = {l \in ToSet(before) : /\ Len(l) <= MAX_PREFIX_LINE
                                                     /\ ~IsNoise(l) /\ ~IsStop(l)}
    OBVIOUS
  <2>5. PICK prefix : prefix = IF text[h][1] \in SkipsPrefix THEN <<>> ELSE Kept(before, short)
    OBVIOUS
  <2>6. h \in 1..Len(text) /\ IsHeading(text[h])
    BY <1>1, <1>3, HeadingFound
  <2>7. text \in Seq(X) /\ text[h] \in Seq(T)
    BY <2>1, <2>6
  <2>8. before \in Seq(X)
    <3>1. PICK k : k = h - 1
      OBVIOUS
    <3>2. m \in 1..(Len(text) + 1) /\ k \in 0..Len(text)
      BY <2>2, <2>6, <2>7, <3>1
    <3> QED
      BY <2>3, <2>7, <3>1, <3>2, SliceIs
  <2>9. prefix \in Seq(LinesOver(T))
    <3>1. Kept(before, short) \in Seq(X) /\ ToSet(Kept(before, short)) = ToSet(before) \cap short
      BY <2>8, KeptIs
    <3>2. PICK got : got = Kept(before, short)
      OBVIOUS
    <3>3. \A i \in DOMAIN got : got[i] \in short /\ got[i] \in Seq(T)
      BY <2>1, <3>1, <3>2 DEF ToSet
    <3>4. \A i \in DOMAIN got : got[i] \in LinesOver(T)
      BY <2>4, <3>3 DEF LinesOver
    <3>5. got \in Seq(LinesOver(T))
      BY <3>1, <3>2, <3>4, SeqOfSome
    <3> QED
      BY <2>5, <3>2, <3>5
  <2>10. PICK after : after = Before(From(text, h + 1), EndsSection)
    OBVIOUS
  <2>11. after \in Seq(LinesOver(T))
    <3>1. PICK k : k = h + 1
      OBVIOUS
    <3>2. k \in 1..(Len(text) + 1)
      BY <2>6, <2>7, <3>1
    <3>3. From(text, k) \in Seq(X)
      BY <2>7, <3>2, FromIs
    <3>4. after \in Seq(X) /\ \A i \in DOMAIN after : ~EndsSection(after[i])
      BY <2>1, <2>10, <3>1, <3>3, SectionIs
    <3>5. \A i \in DOMAIN after : after[i] \in LinesOver(T)
      BY <2>1, <3>4 DEF LinesOver, EndsSection
    <3> QED
      BY <3>4, <3>5, SeqOfSome
  <2>12. FromLines(text) = prefix \o <<text[h]>> \o after
    BY <1>1, <1>3, <2>2, <2>3, <2>4, <2>5, <2>10 DEF FromLines
  <2>13. text[h] \in LinesOver(T) /\ ~IsNoise(text[h])
    BY <2>6, <2>7, HeadingStays
  <2> QED
    BY <2>9, <2>11, <2>12, <2>13, AroundHeading
<1> QED
  BY <1>2, <1>3

\* The first line with a word of a heading, and the first such word of it.
LEMMA OpeningFound ==
  ASSUME NEW T, NEW text \in Seq(Seq(T)), SelectInSeq(text, Opens) # 0
  PROVE  /\ SelectInSeq(text, Opens) \in 1..Len(text)
         /\ Opens(text[SelectInSeq(text, Opens)])
<1> DEFINE I == {i \in 1..Len(text) : Opens(text[i])}
<1>1. SelectInSeq(text, Opens) = First(I)
  BY DEF SelectInSeq, First
<1>2. First(I) \in 1..Len(text) /\ First(I) \in I
  <2>1. I \in SUBSET (1..Len(text)) /\ Len(text) \in Nat
    OBVIOUS
  <2> HIDE DEF I
  <2> QED
    BY <1>1, <2>1, FirstIs
<1> QED
  BY <1>1, <1>2

LEMMA MarkerFound ==
  ASSUME NEW T, NEW line \in Seq(T), Opens(line)
  PROVE  LET at == SelectInSeq(line, LAMBDA t : t \in INLINE_JOB_SECTION_MARKERS)
         IN  at \in 1..Len(line) /\ line[at] \in INLINE_JOB_SECTION_MARKERS
<1> DEFINE I == {i \in 1..Len(line) : line[i] \in INLINE_JOB_SECTION_MARKERS}
<1>1. PICK at : at = SelectInSeq(line, LAMBDA t : t \in INLINE_JOB_SECTION_MARKERS)
  OBVIOUS
<1>2. at = First(I)
  BY <1>1 DEF SelectInSeq, First
<1>3. I \in SUBSET (1..Len(line)) /\ Len(line) \in Nat /\ I # {}
  BY DEF Opens
<1>4. First(I) \in 1..Len(line) /\ First(I) \in I
  <2> HIDE DEF I
  <2> QED
    BY <1>3, FirstIs
<1>5. at \in 1..Len(line) /\ line[at] \in INLINE_JOB_SECTION_MARKERS
  BY <1>2, <1>4
<1> QED
  BY <1>1, <1>5

\* A line without a stop is a line without its words.
LEMMA UnclosedIs ==
  ASSUME NEW T, NEW line \in Seq(T), ~Closes(line)
  PROVE  line \in Seq(Unstopped(T))
BY DEF Closes, Unstopped

\* What precedes a stop, of any line, has none.
LEMMA BeforeStop ==
  ASSUME NEW T, NEW rest \in Seq(Seq(T))
  PROVE  LET end == SelectInSeq(rest, Closes)
         IN  IF end = 0 THEN rest \in Seq(Seq(Unstopped(T)))
             ELSE /\ end \in 1..Len(rest)
                  /\ Upto(rest, end - 1) \in Seq(Seq(Unstopped(T)))
<1> DEFINE I == {i \in 1..Len(rest) : Closes(rest[i])}
<1>1. PICK end : end = SelectInSeq(rest, Closes)
  OBVIOUS
<1>2. end = First(I)
  BY <1>1 DEF SelectInSeq, First
<1>3. PICK X : X = Seq(T)
  OBVIOUS
<1>4. rest \in Seq(X) /\ I \in SUBSET (1..Len(rest)) /\ Len(rest) \in Nat
  BY <1>3
<1>5. /\ BeforeAny(rest, I) \in Seq(X)
      /\ \A i \in DOMAIN BeforeAny(rest, I) :
           \E j \in DOMAIN rest : j \notin I /\ BeforeAny(rest, I)[i] = rest[j]
  <2> HIDE DEF I
  <2> QED
    BY <1>4, BeforeAnyIs
<1>6. \A j \in DOMAIN rest : j \notin I => rest[j] \in Seq(Unstopped(T))
  <2> SUFFICES ASSUME NEW j \in DOMAIN rest, j \notin I PROVE rest[j] \in Seq(Unstopped(T))
    OBVIOUS
  <2>1. rest[j] \in Seq(T) /\ ~Closes(rest[j])
    BY <1>4
  <2> QED
    BY <2>1, UnclosedIs
<1>7. PICK got : got = BeforeAny(rest, I)
  OBVIOUS
<1>8. got \in Seq(X) /\ \A i \in DOMAIN got : got[i] \in Seq(Unstopped(T))
  <2> HIDE DEF I
  <2> QED
    BY <1>5, <1>6, <1>7, Zenon
<1>9. got \in Seq(Seq(Unstopped(T)))
  BY <1>8, SeqOfSome
<1>10. got = IF end = 0 THEN rest ELSE Upto(rest, end - 1)
  <2> HIDE DEF I
  <2> QED
    BY <1>2, <1>7 DEF BeforeAny
<1>11. end # 0 => end \in 1..Len(rest)
  <2> HIDE DEF I
  <2> QED
    BY <1>2, <1>4, FirstIs
<1> QED
  BY <1>1, <1>9, <1>10, <1>11

\* A heading has no word that stops a posting.
LEMMA HeadingStopsNothing ==
  ASSUME NEW T, NEW line \in Seq(T), IsHeading(line)
  PROVE  line \in Seq(Unstopped(T))
<1>1. Len(line) = 1 /\ line[1] \in {"about the job", "requirements", "overview", "description"}
  BY DEF IsHeading, JOB_SECTION_HEADING_RE, SkipsPrefix
<1>2. line[1] \notin {"similar jobs", "see who you know", "determine your fit"}
  BY <1>1
<1>3. PICK V : V = {"similar jobs", "see who you know", "determine your fit"}
  OBVIOUS
<1>4. line[1] \notin V
  BY <1>2, <1>3
<1>5. \A i \in DOMAIN line : line[i] \in T \ V
  <2>1. DOMAIN line = {1}
    <3>1. Len(line) = 1
      BY <1>1
    <3> QED
      BY <3>1
  <2>2. line[1] \in T
    BY <2>1
  <2> QED
    BY <1>4, <2>1, <2>2
<1>6. Unstopped(T) = T \ V
  BY <1>3 DEF Unstopped, INLINE_SECTION_STOP_MARKERS
<1> QED
  BY <1>5, <1>6, SeqOfSome

LEMMA InlineIs ==
  ASSUME NEW T, NEW text \in Seq(Seq(T))
  PROVE  IsPosting(Inline(text), Seq(Unstopped(T)))
<1>1. PICK l : l = SelectInSeq(text, Opens)
  OBVIOUS
<1>2. CASE l = 0
  <2>1. Inline(text) = <<>>
    BY <1>1, <1>2 DEF Inline
  <2> QED
    BY <2>1 DEF IsPosting
<1>3. CASE l # 0
  <2>1. PICK X : X = Seq(T)
    OBVIOUS
  <2>2. PICK Y : Y = Seq(Unstopped(T))
    OBVIOUS
  <2>3. PICK at : at = SelectInSeq(text[l], LAMBDA t : t \in INLINE_JOB_SECTION_MARKERS)
    OBVIOUS
  <2>4. PICK rest : rest = <<From(text[l], at + 1)>> \o From(text, l + 1)
    OBVIOUS
  <2>5. PICK end : end = SelectInSeq(rest, Closes)
    OBVIOUS
  <2>6. PICK last : last = Before(rest[end], LAMBDA t : t \in INLINE_SECTION_STOP_MARKERS)
    OBVIOUS
  <2>7. PICK body : body = IF end = 0 THEN rest ELSE Append(Upto(rest, end - 1), last)
    OBVIOUS
  <2>8. l \in 1..Len(text) /\ Opens(text[l]) /\ text[l] \in Seq(T) /\ text \in Seq(X)
    <3>1. l \in 1..Len(text) /\ Opens(text[l])
      BY <1>1, <1>3, OpeningFound
    <3>2. text \in Seq(X) /\ text[l] \in X
      BY <2>1, <3>1
    <3> QED
      BY <2>1, <3>1, <3>2
  <2>9. at \in 1..Len(text[l]) /\ text[l][at] \in INLINE_JOB_SECTION_MARKERS
    BY <2>3, <2>8, MarkerFound
  <2>10. rest \in Seq(X)
    <3>1. PICK i, j : i = at + 1 /\ j = l + 1
      OBVIOUS
    <3>2. i \in 1..(Len(text[l]) + 1) /\ j \in 1..(Len(text) + 1)
      BY <2>8, <2>9, <3>1
    <3>3. From(text[l], i) \in X
      BY <2>1, <2>8, <3>2, FromIs
    <3>4. From(text, j) \in Seq(X)
      BY <2>8, <3>2, FromIs
    <3> QED
      BY <2>4, <3>1, <3>3, <3>4
  <2>11. body \in Seq(Y)
    <3>1. CASE end = 0
      BY <2>1, <2>2, <2>5, <2>7, <2>10, <3>1, BeforeStop
    <3>2. CASE end # 0
      <4>1. end \in 1..Len(rest) /\ Upto(rest, end - 1) \in Seq(Y)
        BY <2>1, <2>2, <2>5, <2>10, <3>2, BeforeStop
      <4>2. rest[end] \in Seq(T)
        BY <2>1, <2>10, <4>1
      <4>3. last \in Y
        BY <2>2, <2>6, <4>2, UnstoppedIs
      <4> QED
        BY <2>7, <3>2, <4>1, <4>3
    <3> QED
      BY <3>1, <3>2
  <2>12. PICK rows : rows = Kept(body, ToSet(body) \ {<<>>})
    OBVIOUS
  <2>13. rows \in Seq(Y)
    BY <2>11, <2>12, KeptIs
  <2>14. PICK line : line = <<text[l][at]>>
    OBVIOUS
  <2>15. line \in Y /\ ~IsNoise(line)
    <3>1. line \in Seq(T) /\ line[1] \in INLINE_JOB_SECTION_MARKERS /\ Len(line) = 1
      BY <2>8, <2>9, <2>14
    <3>2. IsHeading(line)
      BY <3>1 DEF IsHeading, INLINE_JOB_SECTION_MARKERS
    <3>3. line \in Y
      BY <2>2, <3>1, <3>2, HeadingStopsNothing
    <3> QED
      BY <3>1, <3>2, <3>3, HeadingStays
  <2>16. Inline(text) = <<line>> \o rows
    BY <1>1, <1>3, <2>3, <2>4, <2>5, <2>6, <2>7, <2>12, <2>14 DEF Inline
  <2>17. <<line>> \o rows = <<>> \o <<line>> \o rows /\ <<>> \in Seq(Y)
    BY <2>13
  <2>18. IsPosting(Inline(text), Y)
    BY <2>13, <2>15, <2>16, <2>17, AroundHeading
  <2> QED
    BY <2>2, <2>18
<1> QED
  BY <1>2, <1>3

\* Lines that may be in a section, depending on how it is found.
LinesOfSection(text, T) ==
  IF FromLines(normalize_flattened_job_text(text)) # <<>> THEN LinesOver(T)
  ELSE Seq(Unstopped(T))

\* Whichever way the section is found, it is a posting.
LEMMA SectionIsPosting ==
  ASSUME NEW T, NEW text \in Seq(Seq(T))
  PROVE  IsPosting(extract_job_description_section(text), LinesOfSection(text, T))
<1>1. PICK normal : normal = normalize_flattened_job_text(text)
  OBVIOUS
<1>2. normal \in Seq(Seq(T))
  BY <1>1, NormalIs
<1>3. /\ IsPosting(FromLines(normal), LinesOver(T))
      /\ IsPosting(Inline(normal), Seq(Unstopped(T)))
  BY <1>2, FromLinesIs, InlineIs
<1> QED
  BY <1>1, <1>3 DEF extract_job_description_section, OrElse, LinesOfSection

(***************************************************************************)
(* What is handed to the classifier                                        *)
(***************************************************************************)

HasSome(s) == \E i \in DOMAIN s : s[i] # <<>> /\ s[i][1] = "word"

\* The end of a sequence, from somewhere on.
LEMMA TailIs ==
  ASSUME NEW X, NEW s \in Seq(X), NEW m \in 1..(Len(s) + 1)
  PROVE  /\ From(s, m) \in Seq(X)
         /\ \A i \in m..Len(s) : \E k \in DOMAIN From(s, m) : From(s, m)[k] = s[i]
<1>1. PICK n, q : n = Len(s) /\ q = SubSeq(s, m, n)
  OBVIOUS
<1>2. q \in Seq(X)
  <2>1. From(s, m) = q
    BY <1>1 DEF From
  <2> QED
    BY <2>1, FromIs
<1>3. ASSUME NEW i \in m..n PROVE \E k \in DOMAIN q : q[k] = s[i]
  <2>1. PICK k : k = i - m + 1
    OBVIOUS
  <2>2. n \in Nat /\ k \in 1..(n - m + 1) /\ m + k - 1 = i
    BY <1>1, <2>1
  <2>3. k \in DOMAIN q /\ q[k] = s[i]
    BY <1>1, <2>2
  <2> QED
    BY <2>3
<1> QED
  BY <1>1, <1>2, <1>3 DEF From

\* Lines over T; none is empty.
FullLines(T) == Seq(T) \ {<<>>}

LEMMA LabelIsCut ==
  ASSUME NEW T, NEW text \in Seq(FullLines(T))
  PROVE  /\ Unlabelled(text) \in Seq(FullLines(T))
         /\ HasWord(text) => HasSome(Unlabelled(text))
<1>1. PICK Y : Y = FullLines(T)
  OBVIOUS
<1>2. PICK label, word : label = "page title:" /\ word = "word" /\ label # word
  <2>1. "page title:" # "word"
    OBVIOUS
  <2> QED
    BY <2>1, Zenon
<1>3. CASE text = <<>> \/ text[1][1] # label \/ text = <<<<label>>>>
  <2>1. Unlabelled(text) = text
    BY <1>2, <1>3, Zenon DEF Unlabelled
  <2> QED
    BY <2>1 DEF HasWord, HasSome
<1>4. CASE ~(text = <<>> \/ text[1][1] # label \/ text = <<<<label>>>>)
  <2>1. PICK m : m = IF Len(text[1]) = 1 THEN 3 ELSE 2
    OBVIOUS
  <2>2. Unlabelled(text) = From(text, m)
    BY <1>2, <1>4, <2>1, Zenon DEF Unlabelled
  <2>3. text \in Seq(Y) /\ text # <<>> /\ text[1][1] = label
    BY <1>1, <1>4
  <2>4. PICK n \in Nat : n = Len(text) /\ DOMAIN text = 1..n /\ n >= 1
    BY <2>3
  <2>5. text[1] \in Seq(T)
    BY <1>1, <2>3, <2>4 DEF FullLines
  <2>6. Len(text[1]) = 1 => text[1] = <<label>>
    BY <2>3, <2>5
  <2>7. Len(text[1]) = 1 => n >= 2
    <3> SUFFICES ASSUME Len(text[1]) = 1, n = 1 PROVE FALSE
      BY <2>4
    <3>1. PICK line : line = <<label>>
      OBVIOUS
    <3>2. text[1] = line
      BY <2>6, <3>1
    <3>3. text = <<line>>
      BY <2>3, <2>4, <3>2
    <3> QED
      BY <1>4, <3>1, <3>3
  <2>8. m \in 1..(Len(text) + 1)
    BY <2>1, <2>4, <2>7
  <2>9. /\ From(text, m) \in Seq(Y)
        /\ \A i \in m..Len(text) : \E k \in DOMAIN From(text, m) : From(text, m)[k] = text[i]
    BY <2>3, <2>8, TailIs
  <2>10. ASSUME HasWord(text) PROVE HasSome(From(text, m))
    <3>1. PICK i \in 1..n : text[i] # <<>> /\ text[i][1] = word /\ (i = 2 => text[1] # <<label>>)
      BY <1>2, <2>4, <2>10, Zenon DEF HasWord
    <3>2. i # 1
      BY <1>2, <2>3, <3>1
    <3>3. i \in m..Len(text)
      BY <2>1, <2>4, <2>6, <3>1, <3>2
    <3>4. PICK k \in DOMAIN From(text, m) : From(text, m)[k] = text[i]
      BY <2>9, <3>3
    <3> QED
      BY <1>2, <3>1, <3>4 DEF HasSome
  <2> QED
    BY <1>1, <2>2, <2>9, <2>10
<1> QED
  BY <1>3, <1>4

LEMMA TitleIsCut ==
  ASSUME NEW T, NEW s \in Seq(FullLines(T))
  PROVE  /\ Untitled(s) \in Seq(Seq(T))
         /\ HasSome(s) => HasSome(Untitled(s))
<1>1. PICK X : X = Seq(T)
  OBVIOUS
<1>2. PICK title, word : title = "title" /\ word = "word" /\ title # word
  OBVIOUS
<1>3. \A i \in DOMAIN s : s[i] \in X /\ s[i] # <<>>
  BY <1>1 DEF FullLines
<1>4. s \in Seq(X)
  BY <1>3, SeqOfSome
<1>5. CASE s = <<>> \/ s[1][1] # title
  <2>1. Untitled(s) = s
    BY <1>2, <1>5, Zenon DEF Untitled
  <2> QED
    BY <1>1, <1>4, <2>1
<1>6. CASE ~(s = <<>> \/ s[1][1] # title)
  <2>1. PICK n \in Nat : n = Len(s) /\ DOMAIN s = 1..n /\ n >= 1
    BY <1>4, <1>6
  <2>2. PICK rest : rest = From(s, 2)
    OBVIOUS
  <2>3. /\ rest \in Seq(X)
        /\ \A i \in 2..n : \E k \in DOMAIN rest : rest[k] = s[i]
    <3>1. 2 \in 1..(Len(s) + 1)
      BY <2>1
    <3> QED
      BY <1>4, <2>1, <2>2, <3>1, TailIs
  <2>4. HasSome(s) => \E k \in DOMAIN rest : rest[k] # <<>> /\ rest[k][1] = word
    <3> SUFFICES ASSUME HasSome(s)
                 PROVE  \E k \in DOMAIN rest : rest[k] # <<>> /\ rest[k][1] = word
      OBVIOUS
    <3>1. PICK i \in 1..n : s[i] # <<>> /\ s[i][1] = word
      BY <1>2, <2>1 DEF HasSome
    <3>2. i \in 2..n
      BY <1>2, <1>6, <2>1, <3>1
    <3>3. PICK k \in DOMAIN rest : rest[k] = s[i]
      BY <2>3, <3>2
    <3> QED
      BY <3>1, <3>3
  <2>5. CASE Len(s[1]) = 1
    <3>1. Untitled(s) = rest
      BY <1>2, <1>6, <2>2, <2>5, Zenon DEF Untitled
    <3> QED
      BY <1>1, <1>2, <2>3, <2>4, <3>1 DEF HasSome
  <2>6. CASE Len(s[1]) # 1
    <3>1. PICK line : line = From(s[1], 2)
      OBVIOUS
    <3>2. line \in X
      <4>1. s[1] \in Seq(T) /\ s[1] # <<>>
        BY <1>1, <1>3, <2>1
      <4>2. 2 \in 1..(Len(s[1]) + 1)
        BY <4>1
      <4> QED
        BY <1>1, <3>1, <4>1, <4>2, FromIs
    <3>3. PICK got : got = <<line>> \o rest
      OBVIOUS
    <3>4. Untitled(s) = got
      BY <1>2, <1>6, <2>2, <2>6, <3>1, <3>3, Zenon DEF Untitled
    <3>5. /\ got \in Seq(X)
          /\ \A k \in DOMAIN rest : k + 1 \in DOMAIN got /\ got[k + 1] = rest[k]
      BY <2>3, <3>2, <3>3
    <3>6. HasSome(s) => HasSome(got)
      <4> SUFFICES ASSUME HasSome(s) PROVE HasSome(got)
        OBVIOUS
      <4>1. PICK k \in DOMAIN rest : rest[k] # <<>> /\ rest[k][1] = word
        BY <2>4
      <4>2. PICK j : j = k + 1
        OBVIOUS
      <4>3. j \in DOMAIN got /\ got[j] = rest[k]
        BY <3>5, <4>2
      <4> QED
        BY <1>2, <4>1, <4>3 DEF HasSome
    <3> QED
      BY <1>1, <3>4, <3>5, <3>6
  <2> QED
    BY <2>5, <2>6
<1> QED
  BY <1>5, <1>6

LEMMA TitleIsStripped ==
  ASSUME NEW T, NEW text \in Seq(FullLines(T))
  PROVE  /\ strip_duplicate_page_title(text) \in Seq(Seq(T))
         /\ HasWord(text) => HasSome(strip_duplicate_page_title(text))
<1>1. PICK cut : cut = Unlabelled(text)
  OBVIOUS
<1>2. cut \in Seq(FullLines(T)) /\ (HasWord(text) => HasSome(cut))
  BY <1>1, LabelIsCut
<1>3. Untitled(cut) \in Seq(Seq(T)) /\ (HasSome(cut) => HasSome(Untitled(cut)))
  BY <1>2, TitleIsCut
<1> QED
  BY <1>1, <1>2, <1>3 DEF strip_duplicate_page_title

\* What is kept of a text, without the phrases of the user interface.
LEMMA FilteredIs ==
  ASSUME NEW X, NEW taken \in Seq(X), NEW got,
         got = Kept(taken, {line \in ToSet(taken) : ~IsNoise(line)})
  PROVE  /\ got \in Seq(X)
         /\ (\E i \in DOMAIN taken : ~IsNoise(taken[i])) => got # <<>>
<1>1. PICK S : S = {line \in ToSet(taken) : ~IsNoise(line)}
  OBVIOUS
<1>2. Kept(taken, S) \in Seq(X) /\ ToSet(Kept(taken, S)) = ToSet(taken) \cap S
  BY KeptIs
<1>3. got = Kept(taken, S)
  BY <1>1
<1>4. ASSUME NEW i \in DOMAIN taken, ~IsNoise(taken[i]) PROVE got # <<>>
  <2>1. taken[i] \in ToSet(taken) \cap S
    BY <1>1, <1>4 DEF ToSet
  <2>2. taken[i] \in ToSet(got)
    BY <1>2, <1>3, <2>1
  <2>3. DOMAIN got # {}
    BY <2>2 DEF ToSet
  <2> QED
    BY <2>3
<1> QED
  BY <1>2, <1>3, <1>4

LEMMA SectionIsOverT ==
  ASSUME NEW T, NEW text
  PROVE  LinesOfSection(text, T) \subseteq Seq(T)
<1>1. LinesOver(T) \subseteq Seq(T)
  BY DEF LinesOver
<1>2. Seq(Unstopped(T)) \subseteq Seq(T)
  <2>1. PICK U : U = Unstopped(T)
    OBVIOUS
  <2>2. U \subseteq T
    BY <2>1 DEF Unstopped
  <2>3. ASSUME NEW line \in Seq(U) PROVE line \in Seq(T)
    <3>1. \A i \in DOMAIN line : line[i] \in T
      BY <2>2
    <3> QED
      BY <3>1, SeqOfSome
  <2> QED
    BY <2>1, <2>3
<1> QED
  BY <1>1, <1>2 DEF LinesOfSection

LEMMA PreparedIs ==
  ASSUME NEW T, NEW text \in Seq(Seq(T)), NEW anchored, NEW got,
         anchored = extract_job_description_section(text),
         got = preprocess_captured_text(text)
  PROVE  /\ got \in Seq(Seq(T))
         /\ HasSome(text) => got # <<>>
         /\ Size(anchored) >= MIN_ANCHORED => got \in Seq(LinesOfSection(text, T))
<1>1. IsPosting(anchored, LinesOfSection(text, T))
  BY SectionIsPosting
<1>2. PICK taken : taken = IF anchored # <<>> /\ Size(anchored) >= MIN_ANCHORED
                           THEN anchored ELSE text
  OBVIOUS
<1>3. got = Kept(taken, {line \in ToSet(taken) : ~IsNoise(line)})
  BY <1>2 DEF preprocess_captured_text, filter_ui_noise_lines, Anchored
<1>4. CASE anchored # <<>> /\ Size(anchored) >= MIN_ANCHORED
  <2>1. PICK L : L = LinesOfSection(text, T)
    OBVIOUS
  <2>2. taken \in Seq(L) /\ \E i \in DOMAIN taken : ~IsNoise(taken[i])
    BY <1>1, <1>2, <1>4, <2>1 DEF IsPosting
  <2>3. got \in Seq(L) /\ got # <<>>
    BY <1>3, <2>2, FilteredIs
  <2>4. got \in Seq(Seq(T))
    <3>1. L \subseteq Seq(T)
      BY <2>1, SectionIsOverT
    <3>2. \A i \in DOMAIN got : got[i] \in Seq(T)
      BY <2>3, <3>1
    <3> QED
      BY <2>3, <3>2, SeqOfSome
  <2> QED
    BY <2>1, <2>3, <2>4
<1>5. CASE ~(anchored # <<>> /\ Size(anchored) >= MIN_ANCHORED)
  <2>1. taken = text
    BY <1>2, <1>5
  <2>2. ~(Size(anchored) >= MIN_ANCHORED)
    <3>1. CASE anchored = <<>>
      <4>1. FlattenSeq(<<>>) = <<>>
        BY DEF FlattenSeq
      <4>2. Size(anchored) = 0
        BY <3>1, <4>1 DEF Size
      <4> QED
        BY <4>2, CaptureAssumption
    <3> QED
      BY <1>5, <3>1
  <2>3. PICK X : X = Seq(T)
    OBVIOUS
  <2>4. got \in Seq(X) /\ ((\E i \in DOMAIN text : ~IsNoise(text[i])) => got # <<>>)
    BY <1>3, <2>1, <2>3, FilteredIs
  <2>5. HasSome(text) => \E i \in DOMAIN text : ~IsNoise(text[i])
    <3>1. "word" \notin UI_LINE_PATTERNS
      BY DEF UI_LINE_PATTERNS
    <3> QED
      BY <3>1 DEF HasSome, IsNoise
  <2> QED
    BY <2>2, <2>3, <2>4, <2>5
<1> QED
  BY <1>4, <1>5

\* A text is one over its own words.
LEMMA OverItsWords ==
  ASSUME NEW U, NEW text \in Seq(Seq(U))
  PROVE  text \in Seq(Seq(ToSet(FlattenSeq(text))))
<1>1. PICK T : T = ToSet(FlattenSeq(text))
  OBVIOUS
<1>2. \A i \in DOMAIN text : ToSet(text[i]) \subseteq T
  BY <1>1, FlattenIs
<1>3. ASSUME NEW i \in DOMAIN text PROVE text[i] \in Seq(T)
  <2>1. text[i] \in Seq(U) /\ ToSet(text[i]) \subseteq T
    BY <1>2
  <2>2. \A j \in DOMAIN text[i] : text[i][j] \in T
    BY <2>1 DEF ToSet
  <2> QED
    BY <2>1, <2>2, SeqOfSome
<1> QED
  BY <1>1, <1>3, SeqOfSome

\* The preparation of a captured text keeps its promises for every text, of any words
\* and any length: of a section that is long enough nothing is left that ends it, by the
\* list of the way it was found; nothing is made up; and a page with something to say is
\* not emptied (prepare_capture_text_for_classification).
THEOREM TextsArePreparedRight ==
  ASSUME NEW U, NEW text \in Seq(Seq(U) \ {<<>>})
  PROVE  PreparedRight(text, prepare_capture_text_for_classification(text))
<1>1. PICK T : T = ToSet(FlattenSeq(text))
  OBVIOUS
<1>2. text \in Seq(FullLines(T))
  <2>1. \A i \in DOMAIN text : text[i] \in Seq(U) /\ text[i] # <<>>
    OBVIOUS
  <2>2. text \in Seq(Seq(U))
    BY <2>1, SeqOfSome
  <2>3. text \in Seq(Seq(T))
    BY <1>1, <2>2, OverItsWords
  <2>4. \A i \in DOMAIN text : text[i] \in FullLines(T)
    BY <2>1, <2>3 DEF FullLines
  <2> QED
    BY <2>3, <2>4, SeqOfSome
<1>3. PICK stripped : stripped = strip_duplicate_page_title(text)
  OBVIOUS
<1>4. PICK anchored : anchored = extract_job_description_section(stripped)
  OBVIOUS
<1>5. PICK got : got = prepare_capture_text_for_classification(text)
  OBVIOUS
<1>6. stripped \in Seq(Seq(T)) /\ (HasWord(text) => HasSome(stripped))
  BY <1>2, <1>3, TitleIsStripped
<1>7. /\ got \in Seq(Seq(T))
      /\ HasSome(stripped) => got # <<>>
      /\ Size(anchored) >= MIN_ANCHORED => got \in Seq(LinesOfSection(stripped, T))
  <2>1. got = preprocess_captured_text(stripped)
    BY <1>3, <1>5 DEF prepare_capture_text_for_classification
  <2> QED
    BY <1>4, <1>6, <2>1, PreparedIs
<1>8. PICK byLines : byLines = FromLines(normalize_flattened_job_text(stripped))
  OBVIOUS
<1>9. ASSUME Size(anchored) >= MIN_ANCHORED, byLines # <<>>
      PROVE  \A i \in DOMAIN got : ~IsStop(got[i])
  <2>1. got \in Seq(LinesOver(T))
    BY <1>7, <1>8, <1>9 DEF LinesOfSection
  <2> QED
    BY <2>1 DEF LinesOver
<1>10. ASSUME Size(anchored) >= MIN_ANCHORED, byLines = <<>>
       PROVE  ToSet(FlattenSeq(got)) \cap INLINE_SECTION_STOP_MARKERS = {}
  <2>1. PICK V : V = Unstopped(T)
    OBVIOUS
  <2>2. got \in Seq(Seq(V))
    BY <1>7, <1>8, <1>10, <2>1 DEF LinesOfSection
  <2>3. FlattenSeq(got) \in Seq(V)
    BY <2>2, FlattenIs
  <2>4. ToSet(FlattenSeq(got)) \subseteq V
    BY <2>3 DEF ToSet
  <2> QED
    BY <2>1, <2>4 DEF Unstopped
<1>11. OnlySection(text, got)
  BY <1>3, <1>4, <1>8, <1>9, <1>10, Zenon DEF OnlySection
<1>12. ToSet(FlattenSeq(got)) \subseteq T
  <2>1. FlattenSeq(got) \in Seq(T)
    BY <1>7, FlattenIs
  <2> QED
    BY <2>1 DEF ToSet
<1> QED
  BY <1>1, <1>5, <1>6, <1>7, <1>11, <1>12, Zenon DEF PreparedRight

(***************************************************************************)
(* No word is lost                                                         *)
(***************************************************************************)

LEMMA EmptyJoined == FlattenSeq(<<>>) = <<>>
BY DEF FlattenSeq

\* What a sequence of sequences is joined to, one after another.
LEMMA FlattenUnrolls ==
  ASSUME NEW s, NEW n \in Nat, n = Len(s), n # 0
  PROVE  \E R : AreJoined(R, n, s) /\ FlattenSeq(s) = R[n]
<1> DEFINE Is(R) == R = [i \in 1..Len(s) |-> IF i = 1 THEN s[i] ELSE R[i - 1] \o s[i]]
<1>1. \E R : Is(R)
  BY JoinedExist DEF AreJoined
<1>2. PICK R : Is(R) /\ FlattenSeq(s) = R[Len(s)]
  BY <1>1 DEF FlattenSeq
<1>3. AreJoined(R, n, s)
  BY <1>2 DEF AreJoined
<1> QED
  BY <1>2, <1>3

\* Two ways of joining agree as far as the sequences do.
LEMMA JoinedAgree ==
  ASSUME NEW m \in Nat, NEW n \in Nat, NEW l \in 1..m, l \in 1..n, NEW q, NEW s, NEW Q, NEW S,
         AreJoined(Q, m, q), AreJoined(S, n, s), \A i \in 1..l : q[i] = s[i]
  PROVE  Q[l] = S[l]
<1> DEFINE T == {k \in 0..l : k # 0 => Q[k] = S[k]}
<1>1. 0 \in T
  OBVIOUS
<1>2. ASSUME NEW k \in 0..(l - 1), k \in T PROVE k + 1 \in T
  <2>1. PICK now : now = k + 1
    OBVIOUS
  <2>2. now \in 1..l /\ now \in 1..m /\ now \in 1..n /\ now - 1 = k /\ now \in 0..l
    BY <2>1
  <2>3. Q[now] = IF now = 1 THEN q[now] ELSE Q[k] \o q[now]
    BY <2>2 DEF AreJoined
  <2>4. S[now] = IF now = 1 THEN s[now] ELSE S[k] \o s[now]
    BY <2>2 DEF AreJoined
  <2>5. now # 1 => Q[k] = S[k]
    BY <1>2, <2>1
  <2>6. q[now] = s[now]
    BY <2>2
  <2>7. Q[now] = S[now]
    BY <2>3, <2>4, <2>5, <2>6
  <2> QED
    BY <2>1, <2>2, <2>7
<1>3. l \in T
  <2> HIDE DEF T
  <2>1. l \in Nat /\ l \in 0..l
    OBVIOUS
  <2>2. \A k \in 0..l : k \in T
    BY <1>1, <1>2, <2>1, UpTo
  <2> QED
    BY <2>1, <2>2
<1> QED
  BY <1>3

\* One sequence more comes at the end.
LEMMA FlattenAppend ==
  ASSUME NEW X, NEW s \in Seq(Seq(X)), NEW x \in Seq(X)
  PROVE  FlattenSeq(Append(s, x)) = FlattenSeq(s) \o x
<1>1. PICK Y : Y = Seq(X)
  OBVIOUS
<1>2. PICK n : n = Len(s)
  OBVIOUS
<1>3. PICK q, m : q = Append(s, x) /\ m = n + 1
  OBVIOUS
<1>4. /\ n \in Nat /\ m \in Nat /\ m # 0 /\ m = Len(q) /\ q[m] = x /\ m - 1 = n
      /\ \A i \in 1..n : q[i] = s[i]
  BY <1>1, <1>2, <1>3
<1>5. PICK Q : AreJoined(Q, m, q) /\ FlattenSeq(q) = Q[m]
  BY <1>4, FlattenUnrolls
<1>6. Q[m] = IF m = 1 THEN x ELSE Q[n] \o x
  <2>1. m \in 1..m
    BY <1>4
  <2>2. Q[m] = IF m = 1 THEN q[m] ELSE Q[m - 1] \o q[m]
    BY <1>5, <2>1 DEF AreJoined
  <2> QED
    BY <1>4, <2>2
<1>7. CASE n = 0
  <2>0. s = <<>>
    <3>1. s \in Seq(Y) /\ Len(s) = 0
      BY <1>1, <1>2, <1>7
    <3> QED
      BY <3>1
  <2>1. FlattenSeq(s) = <<>>
    BY <2>0, EmptyJoined
  <2>2. <<>> \o x = x
    OBVIOUS
  <2>3. Q[m] = x
    BY <1>3, <1>6, <1>7
  <2> QED
    BY <1>3, <1>5, <2>1, <2>2, <2>3
<1>8. CASE n # 0
  <2>1. PICK S : AreJoined(S, n, s) /\ FlattenSeq(s) = S[n]
    BY <1>2, <1>4, <1>8, FlattenUnrolls
  <2>2. n \in 1..m /\ n \in 1..n /\ m # 1
    BY <1>4, <1>8
  <2>3. Q[n] = S[n]
    BY <1>4, <1>5, <2>1, <2>2, JoinedAgree
  <2> QED
    BY <1>3, <1>5, <1>6, <2>1, <2>2, <2>3
<1> QED
  BY <1>7, <1>8

\* A beginning is the one before, and one more.
LEMMA NextBeginning ==
  ASSUME NEW X, NEW s \in Seq(X), NEW k \in 1..Len(s)
  PROVE  /\ SubSeq(s, 1, k) = Append(SubSeq(s, 1, k - 1), s[k])
         /\ SubSeq(s, 1, k - 1) \in Seq(X) /\ s[k] \in X
<1>1. PICK m : m = k - 1
  OBVIOUS
<1>2. m \in 0..Len(s) /\ k \in 0..Len(s) /\ 1 \in 1..(Len(s) + 1) /\ Len(s) \in Nat
  BY <1>1
<1>3. PICK p, q : p = SubSeq(s, 1, m) /\ q = SubSeq(s, 1, k)
  OBVIOUS
<1>4. p \in Seq(X) /\ q \in Seq(X)
  BY <1>2, <1>3, SliceIs
<1>5. Len(p) = m /\ \A i \in 1..m : p[i] = s[i]
  BY <1>2, <1>3
<1>6. Len(q) = k /\ \A i \in 1..k : q[i] = s[i]
  BY <1>2, <1>3
<1>7. PICK r : r = Append(p, s[k])
  OBVIOUS
<1>8. s[k] \in X
  OBVIOUS
<1>9. r \in Seq(X) /\ Len(r) = k /\ r[k] = s[k] /\ \A i \in 1..m : r[i] = s[i]
  BY <1>1, <1>2, <1>4, <1>5, <1>7, <1>8
<1>10. \A i \in 1..k : r[i] = q[i]
  BY <1>1, <1>2, <1>6, <1>9
<1>11. r = q
  BY <1>4, <1>6, <1>9, <1>10
<1> QED
  BY <1>1, <1>3, <1>4, <1>7, <1>8, <1>11

\* Breaking a line keeps its words in their order.
LEMMA WithTokenKeeps ==
  ASSUME NEW X, NEW parts \in Seq(Seq(X)), NEW t \in X
  PROVE  FlattenSeq(WithToken(parts, t)) = Append(FlattenSeq(parts), t)
<1>1. PICK L : L = Seq(X)
  OBVIOUS
<1>2. parts \in Seq(L) /\ <<t>> \in L
  BY <1>1
<1>3. CASE StartsPart(parts, t)
  <2>1. WithToken(parts, t) = Append(parts, <<t>>)
    BY <1>3 DEF WithToken
  <2>2. FlattenSeq(Append(parts, <<t>>)) = FlattenSeq(parts) \o <<t>>
    BY <1>1, <1>2, FlattenAppend
  <2>3. FlattenSeq(parts) \in Seq(X)
    BY FlattenIs
  <2>4. FlattenSeq(parts) \o <<t>> = Append(FlattenSeq(parts), t)
    BY <2>3
  <2> QED
    BY <2>1, <2>2, <2>4
<1>4. CASE ~StartsPart(parts, t)
  <2>1. PICK n : n = Len(parts)
    OBVIOUS
  <2>2. n \in 1..Len(parts)
    <3>1. parts # <<>>
      BY <1>4 DEF StartsPart
    <3> QED
      BY <1>2, <2>1, <3>1
  <2>3. PICK front, last : front = SubSeq(parts, 1, n - 1) /\ last = parts[n]
    OBVIOUS
  <2>4. SubSeq(parts, 1, n) = Append(front, last) /\ front \in Seq(L) /\ last \in L
    BY <1>2, <2>2, <2>3, NextBeginning
  <2>5. parts = Append(front, last)
    <3>1. SubSeq(parts, 1, Len(parts)) = parts
      BY <1>2
    <3> QED
      BY <2>1, <2>4, <3>1
  <2>6. PICK more : more = Append(last, t)
    OBVIOUS
  <2>7. more \in L
    BY <1>1, <2>4, <2>6
  <2>8. WithToken(parts, t) = Append(front, more)
    <3>1. WithToken(parts, t) = [parts EXCEPT ![n] = more]
      BY <1>4, <2>1, <2>3, <2>6 DEF WithToken
    <3>2. Len(front) = n - 1
      BY <2>1, <2>2, <2>4, <2>5
    <3>3. [parts EXCEPT ![n] = more] = Append(front, more)
      <4>1. PICK r, q : r = [parts EXCEPT ![n] = more] /\ q = Append(front, more)
        OBVIOUS
      <4>2. r \in Seq(L) /\ Len(r) = n /\ r[n] = more /\ \A i \in 1..(n - 1) : r[i] = parts[i]
        BY <1>2, <2>1, <2>2, <2>7, <4>1
      <4>3. q \in Seq(L) /\ Len(q) = n /\ q[n] = more /\ \A i \in 1..(n - 1) : q[i] = front[i]
        BY <2>2, <2>4, <2>7, <3>2, <4>1
      <4>4. \A i \in 1..(n - 1) : parts[i] = front[i]
        BY <2>4, <2>5, <3>2
      <4>5. \A i \in 1..n : r[i] = q[i]
        BY <2>2, <4>2, <4>3, <4>4
      <4>6. r = q
        BY <4>2, <4>3, <4>5
      <4> QED
        BY <4>1, <4>6
    <3> QED
      BY <3>1, <3>3
  <2>9. PICK head : head = FlattenSeq(front)
    OBVIOUS
  <2>10. head \in Seq(X)
    BY <1>1, <2>4, <2>9, FlattenIs
  <2>11. FlattenSeq(Append(front, more)) = head \o more
    BY <1>1, <2>4, <2>7, <2>9, FlattenAppend
  <2>12. FlattenSeq(parts) = head \o last
    BY <1>1, <2>4, <2>5, <2>9, FlattenAppend
  <2>13. head \o more = Append(head \o last, t)
    BY <1>1, <2>4, <2>6, <2>10
  <2> QED
    BY <2>8, <2>11, <2>12, <2>13
<1> QED
  BY <1>3, <1>4

LEMMA BrokenKeeps ==
  ASSUME NEW X, NEW s \in Seq(X)
  PROVE  FlattenSeq(BrokenAtMarkers(s)) = s
<1>1. PICK acc :
        /\ acc[0] = <<>>
        /\ \A k \in 1..Len(s) : acc[k] = WithToken(acc[k - 1], s[k])
        /\ BrokenAtMarkers(s) = acc[Len(s)]
  BY BrokenUnrolls
<1>2. PICK n \in Nat : n = Len(s)
  OBVIOUS
<1> DEFINE T == {k \in 0..n : acc[k] \in Seq(Seq(X)) /\ FlattenSeq(acc[k]) = SubSeq(s, 1, k)}
<1>3. 0 \in T
  <2>1. 0 \in 0..n /\ <<>> \in Seq(Seq(X)) /\ SubSeq(s, 1, 0) = <<>>
    OBVIOUS
  <2> QED
    BY <1>1, <2>1, EmptyJoined
<1>4. ASSUME NEW k \in 0..(n - 1), k \in T PROVE k + 1 \in T
  <2>1. PICK m : m = k + 1
    OBVIOUS
  <2>2. m \in 1..n /\ m \in 0..n /\ m - 1 = k
    BY <1>2, <2>1
  <2>3. acc[m] = WithToken(acc[k], s[m])
    BY <1>1, <1>2, <2>2
  <2>4. acc[k] \in Seq(Seq(X)) /\ FlattenSeq(acc[k]) = SubSeq(s, 1, k)
    BY <1>4
  <2>5. SubSeq(s, 1, m) = Append(SubSeq(s, 1, k), s[m]) /\ s[m] \in X
    BY <1>2, <2>2, NextBeginning
  <2>6. acc[m] \in Seq(Seq(X))
    BY <2>3, <2>4, <2>5, WithTokenType
  <2>7. FlattenSeq(acc[m]) = Append(FlattenSeq(acc[k]), s[m])
    BY <2>3, <2>4, <2>5, WithTokenKeeps
  <2>8. FlattenSeq(acc[m]) = SubSeq(s, 1, m)
    BY <2>4, <2>5, <2>7
  <2> QED
    BY <2>1, <2>2, <2>6, <2>8
<1>5. n \in T
  <2> HIDE DEF T
  <2>1. \A k \in 0..n : k \in T
    BY <1>2, <1>3, <1>4, UpTo
  <2> QED
    BY <1>2, <2>1
<1>6. FlattenSeq(acc[n]) = SubSeq(s, 1, n)
  BY <1>5
<1>7. SubSeq(s, 1, n) = s
  BY <1>2
<1> QED
  BY <1>1, <1>2, <1>6, <1>7

\* Joining two texts, and joining what was joined.
LEMMA FlattenJoin ==
  ASSUME NEW X, NEW a \in Seq(Seq(X)), NEW b \in Seq(Seq(X))
  PROVE  FlattenSeq(a \o b) = FlattenSeq(a) \o FlattenSeq(b)
<1>1. PICK L : L = Seq(X)
  OBVIOUS
<1>2. PICK n \in Nat : n = Len(b)
  OBVIOUS
<1>3. a \in Seq(L) /\ b \in Seq(L)
  BY <1>1
<1>4. PICK head : head = FlattenSeq(a)
  OBVIOUS
<1>5. head \in Seq(X)
  BY <1>4, FlattenIs
<1> DEFINE T == {k \in 0..n : FlattenSeq(a \o SubSeq(b, 1, k)) = head \o FlattenSeq(SubSeq(b, 1, k))}
<1>6. 0 \in T
  <2>1. SubSeq(b, 1, 0) = <<>> /\ 0 \in 0..n
    OBVIOUS
  <2>2. a \o <<>> = a
    BY <1>3
  <2>3. head \o <<>> = head
    BY <1>5
  <2>4. FlattenSeq(a \o <<>>) = head \o FlattenSeq(<<>>)
    BY <1>4, <2>2, <2>3, EmptyJoined
  <2> QED
    BY <2>1, <2>4
<1>7. ASSUME NEW k \in 0..(n - 1), k \in T PROVE k + 1 \in T
  <2>1. PICK m : m = k + 1
    OBVIOUS
  <2>2. m \in 1..n /\ m \in 0..n /\ m - 1 = k
    BY <1>2, <2>1
  <2>3. PICK p, x : p = SubSeq(b, 1, k) /\ x = b[m]
    OBVIOUS
  <2>4. SubSeq(b, 1, m) = Append(p, x) /\ p \in Seq(L) /\ x \in L
    BY <1>2, <1>3, <2>2, <2>3, NextBeginning
  <2>5. a \o Append(p, x) = Append(a \o p, x) /\ a \o p \in Seq(L)
    BY <1>3, <2>4
  <2>6. FlattenSeq(Append(a \o p, x)) = FlattenSeq(a \o p) \o x
    BY <1>1, <2>4, <2>5, FlattenAppend
  <2>7. FlattenSeq(a \o p) = head \o FlattenSeq(p)
    BY <1>7, <2>3
  <2>8. FlattenSeq(Append(p, x)) = FlattenSeq(p) \o x
    BY <1>1, <2>4, FlattenAppend
  <2>9. FlattenSeq(p) \in Seq(X) /\ x \in Seq(X)
    BY <1>1, <2>4, FlattenIs
  <2>10. (head \o FlattenSeq(p)) \o x = head \o (FlattenSeq(p) \o x)
    BY <1>5, <2>9
  <2>11. FlattenSeq(a \o SubSeq(b, 1, m)) = head \o FlattenSeq(SubSeq(b, 1, m))
    BY <2>4, <2>5, <2>6, <2>7, <2>8, <2>10
  <2> QED
    BY <2>1, <2>2, <2>11
<1>8. n \in T
  <2> HIDE DEF T
  <2>1. \A k \in 0..n : k \in T
    BY <1>2, <1>6, <1>7, UpTo
  <2> QED
    BY <1>2, <2>1
<1>9. SubSeq(b, 1, n) = b
  BY <1>2
<1> QED
  BY <1>4, <1>8, <1>9

LEMMA FlattenTwice ==
  ASSUME NEW X, NEW text \in Seq(Seq(X)), NEW s \in Seq(Seq(Seq(X))),
         Len(s) = Len(text), \A i \in DOMAIN text : FlattenSeq(s[i]) = text[i]
  PROVE  FlattenSeq(FlattenSeq(s)) = FlattenSeq(text)
<1>1. PICK L, M : L = Seq(X) /\ M = Seq(L)
  OBVIOUS
<1>2. PICK n \in Nat : n = Len(s) /\ n = Len(text)
  OBVIOUS
<1>3. text \in Seq(L) /\ s \in Seq(M) /\ \A i \in 1..n : FlattenSeq(s[i]) = text[i]
  <2>1. text \in Seq(L) /\ s \in Seq(M)
    BY <1>1
  <2>2. DOMAIN text = 1..n
    BY <1>2
  <2>3. \A i \in 1..n : FlattenSeq(s[i]) = text[i]
    BY <2>2, Zenon
  <2> QED
    BY <2>1, <2>3
<1> DEFINE T == {k \in 0..n : FlattenSeq(FlattenSeq(SubSeq(s, 1, k)))
                              = FlattenSeq(SubSeq(text, 1, k))}
<1>4. 0 \in T
  <2>1. SubSeq(s, 1, 0) = <<>> /\ SubSeq(text, 1, 0) = <<>> /\ 0 \in 0..n
    OBVIOUS
  <2>2. FlattenSeq(FlattenSeq(<<>>)) = FlattenSeq(<<>>)
    BY EmptyJoined
  <2> QED
    BY <2>1, <2>2
<1>5. ASSUME NEW k \in 0..(n - 1), k \in T PROVE k + 1 \in T
  <2>1. PICK m : m = k + 1
    OBVIOUS
  <2>2. m \in 1..n /\ m \in 0..n /\ m - 1 = k
    BY <2>1
  <2>3. PICK p, q : p = SubSeq(s, 1, k) /\ q = SubSeq(text, 1, k)
    OBVIOUS
  <2>4. SubSeq(s, 1, m) = Append(p, s[m]) /\ p \in Seq(M) /\ s[m] \in M
    BY <1>2, <1>3, <2>2, <2>3, NextBeginning
  <2>5. SubSeq(text, 1, m) = Append(q, text[m]) /\ q \in Seq(L) /\ text[m] \in L
    BY <1>2, <1>3, <2>2, <2>3, NextBeginning
  <2>6. FlattenSeq(p) \in Seq(L)
    BY <1>1, <2>4, FlattenIs
  <2>7. FlattenSeq(Append(p, s[m])) = FlattenSeq(p) \o s[m]
    BY <1>1, <2>4, FlattenAppend
  <2>8. FlattenSeq(FlattenSeq(p) \o s[m]) = FlattenSeq(FlattenSeq(p)) \o FlattenSeq(s[m])
    BY <1>1, <2>4, <2>6, FlattenJoin
  <2>9. FlattenSeq(Append(q, text[m])) = FlattenSeq(q) \o text[m]
    BY <1>1, <2>5, FlattenAppend
  <2>10. FlattenSeq(FlattenSeq(p)) = FlattenSeq(q)
    BY <1>5, <2>3
  <2>11. FlattenSeq(s[m]) = text[m]
    BY <1>3, <2>2
  <2>12. FlattenSeq(FlattenSeq(SubSeq(s, 1, m))) = FlattenSeq(SubSeq(text, 1, m))
    BY <2>4, <2>5, <2>7, <2>8, <2>9, <2>10, <2>11
  <2> QED
    BY <2>1, <2>2, <2>12
<1>6. n \in T
  <2> HIDE DEF T
  <2>1. \A k \in 0..n : k \in T
    BY <1>2, <1>4, <1>5, UpTo
  <2> QED
    BY <1>2, <2>1
<1>7. SubSeq(s, 1, n) = s /\ SubSeq(text, 1, n) = text
  BY <1>2, <1>3
<1> QED
  BY <1>6, <1>7

\* Breaking the lines of a text that has few of them neither loses nor adds nor moves a
\* word, whatever headings are in them: normalize_flattened_job_text.
THEOREM NormalizingKeepsWords ==
  ASSUME NEW U, NEW text \in Seq(Seq(U))
  PROVE  FlattenSeq(normalize_flattened_job_text(text)) = FlattenSeq(text)
<1>1. PICK L : L = Seq(U)
  OBVIOUS
<1>2. PICK s : s = [i \in DOMAIN text |-> BrokenAtMarkers(text[i])]
  OBVIOUS
<1>3. \A i \in DOMAIN text : /\ BrokenAtMarkers(text[i]) \in Seq(L)
                             /\ FlattenSeq(BrokenAtMarkers(text[i])) = text[i]
  BY <1>1, BrokenType, BrokenKeeps
<1>4. DOMAIN text = 1..Len(text) /\ Len(text) \in Nat
  OBVIOUS
<1>5. s \in Seq(Seq(L)) /\ Len(s) = Len(text)
  BY <1>2, <1>3, <1>4
<1>6. \A i \in DOMAIN text : FlattenSeq(s[i]) = text[i]
  BY <1>2, <1>3
<1>7. FlattenSeq(FlattenSeq(s)) = FlattenSeq(text)
  BY <1>1, <1>5, <1>6, FlattenTwice
<1> QED
  BY <1>2, <1>7 DEF normalize_flattened_job_text

(***************************************************************************)
(* Chunks.  They are made from the front, and counted from the back.       *)
(***************************************************************************)

\* The chunks that begin at the positions S.
AreChunks(R, S, length, size, overlap) ==
  R = [start \in S |->
         IF start + size >= length THEN <<<<start, length>>>>
         ELSE <<<<start, start + size>>>> \o R[StepFrom(start, size, overlap)]]

\* The recursion of chunk_text ends, since each chunk begins after the one before.
LEMMA ChunksExist ==
  ASSUME NEW length \in Nat, NEW size \in Nat, NEW overlap \in Nat, overlap < size
  PROVE  \E R : AreChunks(R, 0..length, length, size, overlap)
<1> DEFINE T == {m \in 0..length :
                   \E R : AreChunks(R, (length - m)..length, length, size, overlap)}
<1>1. 0 \in T
  <2>1. (length - 0)..length = {length} /\ length + size >= length /\ 0 \in 0..length
    OBVIOUS
  <2>2. AreChunks([start \in {length} |-> <<<<start, length>>>>], {length},
                  length, size, overlap)
    BY <2>1 DEF AreChunks
  <2> QED
    BY <2>1, <2>2
<1>2. ASSUME NEW m \in 0..(length - 1), m \in T
      PROVE  m + 1 \in T
  <2>1. PICK R : AreChunks(R, (length - m)..length, length, size, overlap)
    BY <1>2
  <2>2. PICK now : now = length - (m + 1)
    OBVIOUS
  <2>3. /\ now \in Nat /\ now < length /\ now..length = {now} \cup (length - m)..length
        /\ now \notin (length - m)..length
    BY <2>2
  <2>4. PICK first : first = IF now + size >= length THEN <<<<now, length>>>>
                             ELSE <<<<now, now + size>>>> \o R[StepFrom(now, size, overlap)]
    OBVIOUS
  <2>5. PICK Q : Q = [start \in now..length |-> IF start = now THEN first ELSE R[start]]
    OBVIOUS
  <2>6. ASSUME NEW start \in now..length
        PROVE  Q[start] = IF start + size >= length THEN <<<<start, length>>>>
                          ELSE <<<<start, start + size>>>> \o Q[StepFrom(start, size, overlap)]
    <3>1. CASE start + size >= length
      BY <2>1, <2>3, <2>4, <2>5, <3>1 DEF AreChunks
    <3>2. CASE ~(start + size >= length)
      <4>1. PICK next : next = StepFrom(start, size, overlap)
        OBVIOUS
      <4>2. next \in (length - m)..length
        BY <2>2, <2>3, <3>2, <4>1 DEF StepFrom
      <4>3. Q[next] = R[next]
        BY <2>3, <2>5, <4>2
      <4>4. Q[start] = <<<<start, start + size>>>> \o R[next]
        BY <2>1, <2>3, <2>4, <2>5, <3>2, <4>1 DEF AreChunks
      <4> QED
        BY <3>2, <4>1, <4>3, <4>4
    <3> QED
      BY <3>1, <3>2
  <2>7. AreChunks(Q, now..length, length, size, overlap)
    BY <2>5, <2>6 DEF AreChunks
  <2>8. m + 1 \in 0..length
    BY <1>2
  <2> QED
    BY <2>2, <2>7, <2>8
<1>3. length \in T
  <2> HIDE DEF T
  <2>1. \A k \in 0..length : k \in T
    BY <1>1, <1>2, UpTo
  <2> QED
    BY <2>1
<1>4. length - length = 0
  OBVIOUS
<1> QED
  BY <1>3, <1>4

\* What the chunks from a position on are.
CoveredFrom(c, start, length, size, overlap) ==
  /\ c \in Seq(Nat \X Nat) /\ Len(c) \in Nat /\ Len(c) >= 1
  /\ \A i \in 1..Len(c) : c[i][1] \in Nat /\ c[i][2] \in Nat
  /\ c[1][1] = start /\ c[1][2] = IF start + size >= length THEN length ELSE start + size
  /\ \A at \in start..(length - 1) : \E i \in 1..Len(c) : c[i][1] <= at /\ at < c[i][2]
  /\ \A i \in 1..Len(c) : c[i][1] < c[i][2] /\ c[i][2] - c[i][1] <= size
  /\ \A i \in 1..(Len(c) - 1) : c[i][2] - c[i + 1][1] = overlap /\ c[i][2] < c[i + 1][2]

LEMMA OneChunkCovers ==
  ASSUME NEW length \in Nat, NEW size \in Nat, NEW overlap \in Nat,
         NEW start \in 0..(length - 1), start + size >= length
  PROVE  CoveredFrom(<<<<start, length>>>>, start, length, size, overlap)
<1>1. PICK c : c = <<<<start, length>>>>
  OBVIOUS
<1>2. /\ c \in Seq(Nat \X Nat) /\ Len(c) = 1 /\ c[1] = <<start, length>>
      /\ c[1][1] = start /\ c[1][2] = length
  BY <1>1
<1>3. \A i \in 1..Len(c) : i = 1
  BY <1>2
<1>4. 1..(Len(c) - 1) = {}
  BY <1>2
<1>5. \A at \in start..(length - 1) : \E i \in 1..Len(c) : c[i][1] <= at /\ at < c[i][2]
  BY <1>2
<1> QED
  BY <1>1, <1>2, <1>3, <1>4, <1>5 DEF CoveredFrom

\* The pair a, b is put before the sequence d of pairs.
BeginsWith(c, a, b, d) == d \in Seq(Nat \X Nat) /\ c = <<<<a, b>>>> \o d

LEMMA PairBefore ==
  ASSUME NEW a \in Nat, NEW b \in Nat, NEW d, NEW c, BeginsWith(c, a, b, d)
  PROVE  /\ c \in Seq(Nat \X Nat) /\ Len(c) = Len(d) + 1 /\ Len(c) \in Nat /\ Len(d) \in Nat
         /\ c[1][1] = a /\ c[1][2] = b
         /\ \A i \in 1..Len(d) : c[i + 1][1] = d[i][1] /\ c[i + 1][2] = d[i][2]
<1>0. d \in Seq(Nat \X Nat) /\ c = <<<<a, b>>>> \o d
  BY DEF BeginsWith
<1>1. PICK p : p = <<a, b>>
  OBVIOUS
<1>2. p \in Nat \X Nat /\ p[1] = a /\ p[2] = b /\ c = <<p>> \o d
  BY <1>0, <1>1
<1>3. PICK X : X = Nat \X Nat
  OBVIOUS
<1>4. p \in X /\ d \in Seq(X)
  BY <1>0, <1>2, <1>3
<1>5. /\ <<p>> \o d \in Seq(X) /\ Len(<<p>> \o d) = Len(d) + 1 /\ Len(d) \in Nat
      /\ (<<p>> \o d)[1] = p /\ \A i \in 1..Len(d) : (<<p>> \o d)[i + 1] = d[i]
  BY <1>4
<1>6. c \in Seq(X) /\ Len(c) = Len(d) + 1 /\ Len(d) \in Nat /\ c[1] = p
      /\ \A i \in 1..Len(d) : c[i + 1] = d[i]
  BY <1>2, <1>5
<1>7. c \in Seq(Nat \X Nat)
  BY <1>3, <1>6
<1>8. c[1][1] = a /\ c[1][2] = b
  BY <1>2, <1>6
<1>9. \A i \in 1..Len(d) : c[i + 1][1] = d[i][1] /\ c[i + 1][2] = d[i][2]
  BY <1>6
<1>10. Len(c) \in Nat
  BY <1>6
<1> QED
  BY <1>6, <1>7, <1>8, <1>9, <1>10

LEMMA MoreChunksCover ==
  ASSUME NEW length \in Nat, NEW size \in Nat, NEW overlap \in Nat, overlap < size,
         NEW start \in 0..(length - 1), ~(start + size >= length),
         NEW next, next = StepFrom(start, size, overlap),
         NEW d, CoveredFrom(d, next, length, size, overlap)
  PROVE  CoveredFrom(<<<<start, start + size>>>> \o d, start, length, size, overlap)
<1>1. PICK c, end : end = start + size /\ c = <<<<start, end>>>> \o d
  OBVIOUS
<1>2. /\ start \in Nat /\ next \in Nat /\ end \in Nat /\ start < next
      /\ end < length /\ end - next = overlap /\ next <= end /\ next + size > end
      /\ start < end /\ end - start <= size
  BY <1>1 DEF StepFrom
<1>3. d \in Seq(Nat \X Nat) /\ Len(d) \in Nat /\ Len(d) >= 1
  BY DEF CoveredFrom
<1>4. /\ c \in Seq(Nat \X Nat) /\ Len(c) = Len(d) + 1 /\ Len(c) \in Nat
      /\ c[1][1] = start /\ c[1][2] = end
      /\ \A i \in 1..Len(d) : c[i + 1][1] = d[i][1] /\ c[i + 1][2] = d[i][2]
  <2>1. BeginsWith(c, start, end, d)
    BY <1>1, <1>3, Zenon DEF BeginsWith
  <2> QED
    BY <1>2, <2>1, PairBefore
<1>4a. Len(c) = Len(d) + 1 /\ Len(c) \in Nat /\ Len(d) \in Nat /\ Len(d) >= 1
  BY <1>3, <1>4
<1>5. /\ \A i \in 1..Len(d) : d[i][1] \in Nat /\ d[i][2] \in Nat
      /\ \A i \in 1..Len(d) : d[i][1] < d[i][2] /\ d[i][2] - d[i][1] <= size
      /\ \A i \in 1..(Len(d) - 1) : d[i][2] - d[i + 1][1] = overlap /\ d[i][2] < d[i + 1][2]
      /\ \A at \in next..(length - 1) : \E i \in 1..Len(d) : d[i][1] <= at /\ at < d[i][2]
  BY DEF CoveredFrom
<1>6. d[1][1] = next /\ d[1][2] > end
  <2>1. d[1][1] = next /\ d[1][2] = IF next + size >= length THEN length ELSE next + size
    BY DEF CoveredFrom
  <2> QED
    BY <1>2, <2>1
<1>7. ASSUME NEW at \in start..(length - 1)
      PROVE  \E i \in 1..Len(c) : c[i][1] <= at /\ at < c[i][2]
  <2>1. CASE at < end
    <3>1. 1 \in 1..Len(c) /\ c[1][1] <= at /\ at < c[1][2]
      BY <1>2, <1>3, <1>4, <2>1
    <3> QED
      BY <3>1
  <2>2. CASE ~(at < end)
    <3>1. at \in next..(length - 1)
      BY <1>2, <2>2
    <3>2. PICK i \in 1..Len(d) : d[i][1] <= at /\ at < d[i][2]
      BY <1>5, <3>1
    <3>3. c[i + 1][1] = d[i][1] /\ c[i + 1][2] = d[i][2]
      BY <1>4
    <3>4. i + 1 \in 1..Len(c)
      BY <1>4a
    <3> QED
      BY <3>2, <3>3, <3>4
  <2> QED
    BY <2>1, <2>2
<1>8. ASSUME NEW i \in 1..Len(c)
      PROVE  /\ c[i][1] \in Nat /\ c[i][2] \in Nat
             /\ c[i][1] < c[i][2] /\ c[i][2] - c[i][1] <= size
  <2>1. CASE i = 1
    BY <1>2, <1>4, <2>1
  <2>2. CASE i # 1
    <3>1. PICK k \in 1..Len(d) : i = k + 1
      <4>1. i - 1 \in 1..Len(d) /\ i = (i - 1) + 1
        BY <1>4a, <2>2
      <4> QED
        BY <4>1
    <3>2. c[i][1] = d[k][1] /\ c[i][2] = d[k][2]
      BY <1>4, <3>1
    <3> QED
      BY <1>5, <3>2
  <2> QED
    BY <2>1, <2>2
<1>9. ASSUME NEW i \in 1..(Len(c) - 1)
      PROVE  c[i][2] - c[i + 1][1] = overlap /\ c[i][2] < c[i + 1][2]
  <2>1. CASE i = 1
    <3>1. c[i][2] = end
      BY <1>4, <2>1
    <3>2. 1 \in 1..Len(d) /\ i + 1 = 2 /\ 1 + 1 = 2
      BY <1>4a, <2>1
    <3>3. c[2][1] = d[1][1] /\ c[2][2] = d[1][2]
      BY <1>4, <3>2
    <3>4. c[i + 1][1] = next /\ c[i + 1][2] > end
      BY <1>6, <3>2, <3>3
    <3> QED
      BY <1>2, <3>1, <3>4
  <2>2. CASE i # 1
    <3>1. PICK k \in 1..(Len(d) - 1) : i = k + 1
      <4>1. i - 1 \in 1..(Len(d) - 1) /\ i = (i - 1) + 1
        BY <1>4a, <2>2
      <4> QED
        BY <4>1
    <3>2. k \in 1..Len(d) /\ k + 1 \in 1..Len(d)
      BY <1>3
    <3>3. c[i][2] = d[k][2] /\ c[i + 1][1] = d[k + 1][1] /\ c[i + 1][2] = d[k + 1][2]
      BY <1>4, <3>1, <3>2
    <3> QED
      BY <1>5, <3>3
  <2> QED
    BY <2>1, <2>2
<1>10. Len(c) >= 1
  BY <1>3, <1>4
<1>11. c[1][2] = IF start + size >= length THEN length ELSE start + size
  BY <1>1, <1>4
<1>12. CoveredFrom(c, start, length, size, overlap)
  <2>1. \A i \in 1..Len(c) : c[i][1] \in Nat /\ c[i][2] \in Nat
    BY <1>8
  <2>2. \A i \in 1..Len(c) : c[i][1] < c[i][2] /\ c[i][2] - c[i][1] <= size
    BY <1>8
  <2> QED
    BY <1>4, <1>7, <1>9, <1>10, <1>11, <2>1, <2>2, Zenon DEF CoveredFrom
<1> QED
  BY <1>1, <1>12, Zenon

LEMMA ChunksAreCovered ==
  ASSUME NEW length \in Nat, NEW size \in Nat, NEW overlap \in Nat, overlap < size,
         length # 0
  PROVE  CoveredFrom(chunk_text(length, size, overlap), 0, length, size, overlap)
<1>1. PICK R : AreChunks(R, 0..length, length, size, overlap)
               /\ chunk_text(length, size, overlap) = R[0]
  BY ChunksExist DEF chunk_text, AreChunks
<1> DEFINE T == {m \in 0..length :
                   \A start \in (length - m)..(length - 1) :
                     CoveredFrom(R[start], start, length, size, overlap)}
<1>2. 0 \in T
  <2>1. 0 \in 0..length /\ (length - 0)..(length - 1) = {}
    OBVIOUS
  <2> QED
    BY <2>1
<1>3. ASSUME NEW m \in 0..(length - 1), m \in T
      PROVE  m + 1 \in T
  <2>1. m + 1 \in 0..length
    OBVIOUS
  <2>2. ASSUME NEW start \in (length - (m + 1))..(length - 1)
        PROVE  CoveredFrom(R[start], start, length, size, overlap)
    <3>1. start \in 0..(length - 1) /\ start \in 0..length
      OBVIOUS
    <3>2. CASE start + size >= length
      <4>1. R[start] = <<<<start, length>>>>
        BY <1>1, <3>1, <3>2 DEF AreChunks
      <4> QED
        BY <3>1, <3>2, <4>1, OneChunkCovers
    <3>3. CASE ~(start + size >= length)
      <4>1. PICK next : next = StepFrom(start, size, overlap)
        OBVIOUS
      <4>2. next \in (length - m)..(length - 1)
        BY <3>1, <3>3, <4>1 DEF StepFrom
      <4>3. CoveredFrom(R[next], next, length, size, overlap)
        BY <1>3, <4>2
      <4>4. R[start] = <<<<start, start + size>>>> \o R[next]
        BY <1>1, <3>1, <3>3, <4>1 DEF AreChunks
      <4> QED
        BY <3>1, <3>3, <4>1, <4>3, <4>4, MoreChunksCover
    <3> QED
      BY <3>2, <3>3
  <2> QED
    BY <2>1, <2>2
<1>4. length \in T
  <2> HIDE DEF T
  <2>1. \A k \in 0..length : k \in T
    BY <1>2, <1>3, UpTo
  <2> QED
    BY <2>1
<1>5. CoveredFrom(R[0], 0, length, size, overlap)
  BY <1>4
<1>6. PICK c : c = chunk_text(length, size, overlap)
  OBVIOUS
<1>7. CoveredFrom(c, 0, length, size, overlap)
  BY <1>1, <1>5, <1>6
<1> QED
  BY <1>6, <1>7

\* For every text and every setting the classifier accepts, no character is left out, no
\* chunk is too long, and no chunk lies inside the one before it:
\* chunk_text_for_classification.
THEOREM ChunksAreRight ==
  ASSUME NEW length \in Nat, NEW size \in Nat, NEW overlap \in Nat, overlap < size
  PROVE  ChunkedRight(chunk_text(length, size, overlap), length, size, overlap)
<1>1. CASE length = 0
  <2>1. chunk_text(length, size, overlap) = <<>>
    BY <1>1 DEF chunk_text
  <2>2. DOMAIN <<>> = {} /\ 1..(Len(<<>>) - 1) = {} /\ 0..(length - 1) = {}
    BY <1>1
  <2> QED
    BY <2>1, <2>2 DEF ChunkedRight
<1>2. CASE length # 0
  <2>1. PICK c : c = chunk_text(length, size, overlap)
    OBVIOUS
  <2>2. CoveredFrom(c, 0, length, size, overlap)
    BY <1>2, <2>1, ChunksAreCovered
  <2>3. DOMAIN c = 1..Len(c)
    BY <2>2 DEF CoveredFrom
  <2>4. /\ \A at \in 0..(length - 1) : \E i \in 1..Len(c) : c[i][1] <= at /\ at < c[i][2]
        /\ \A i \in 1..Len(c) : c[i][1] < c[i][2] /\ c[i][2] - c[i][1] <= size
        /\ \A i \in 1..(Len(c) - 1) : c[i][2] - c[i + 1][1] = overlap /\ c[i][2] < c[i + 1][2]
    BY <2>2, Zenon DEF CoveredFrom
  <2> QED
    BY <2>1, <2>3, <2>4, Zenon DEF ChunkedRight
<1> QED
  BY <1>1, <1>2

(***************************************************************************)
(* The vote of the chunks.                                                 *)
(***************************************************************************)

Classified == {FromScores(s) : s \in [Labels -> Nat]}

\* The label of a classification is one with the highest score.
LEMMA ClassifiedShape ==
  ASSUME NEW c \in Classified
  PROVE  /\ c.label \in Labels /\ c.confidence \in Nat
         /\ c.scores \in [Labels -> Nat] /\ c.confidence = c.scores[c.label]
         /\ \A m \in Labels : c.confidence >= c.scores[m]
<1>1. PICK s \in [Labels -> Nat] : c = FromScores(s)
  BY DEF Classified
<1>2. \E l \in Labels : \A m \in Labels : s[l] >= s[m]
  <2>1. PICK j, r, o : j = "job_post" /\ r = "resume" /\ o = "other"
    OBVIOUS
  <2>2. Labels = {j, r, o}
    BY <2>1, Zenon DEF Labels
  <2>3. s[j] \in Nat /\ s[r] \in Nat /\ s[o] \in Nat
    BY <2>2
  <2>4. CASE s[j] >= s[r] /\ s[j] >= s[o]
    BY <2>2, <2>3, <2>4
  <2>5. CASE s[r] >= s[j] /\ s[r] >= s[o]
    BY <2>2, <2>3, <2>5
  <2>6. CASE s[o] >= s[j] /\ s[o] >= s[r]
    BY <2>2, <2>3, <2>6
  <2> QED
    BY <2>3, <2>4, <2>5, <2>6
<1>3. PICK best : best = CHOOSE l \in Labels : \A m \in Labels : s[l] >= s[m]
  OBVIOUS
<1>4. best \in Labels /\ \A m \in Labels : s[best] >= s[m]
  BY <1>2, <1>3, Zenon
<1>5. c = [label |-> best, confidence |-> s[best], scores |-> s]
  BY <1>1, <1>3, Zenon DEF FromScores
<1>6. c.label = best /\ c.confidence = s[best] /\ c.scores = s
  BY <1>5
<1> QED
  BY <1>4, <1>6

\* A position whose value is the greatest of those at S.
IsGreatestAt(f, S, i) == i \in S /\ \A j \in S : f[j] <= f[i]

\* There is one.
LEMMA GreatestExists ==
  ASSUME NEW n \in Nat, NEW f \in [1..n -> Nat], NEW S \in SUBSET (1..n), S # {}
  PROVE  \E i : IsGreatestAt(f, S, i)
<1> DEFINE T == {m \in 0..n :
                   \A s \in SUBSET (1..m) : s = {} \/ \E i : IsGreatestAt(f, s, i)}
<1>1. 0 \in T
  BY DEF IsGreatestAt
<1>2. ASSUME NEW m \in 0..(n - 1), m \in T
      PROVE  m + 1 \in T
  <2>1. m + 1 \in 0..n /\ m + 1 \in 1..n
    OBVIOUS
  <2>2. ASSUME NEW s \in SUBSET (1..(m + 1)), s # {}
        PROVE  \E i : IsGreatestAt(f, s, i)
    <3>1. PICK r : r = s \ {m + 1}
      OBVIOUS
    <3>2. r \in SUBSET (1..m) /\ \A j \in s : j \in 1..n /\ f[j] \in Nat
      BY <2>1, <3>1
    <3>3. CASE r = {}
      <4>1. s = {m + 1}
        BY <2>2, <3>1, <3>3
      <4>2. IsGreatestAt(f, s, m + 1)
        BY <3>2, <4>1 DEF IsGreatestAt
      <4> QED
        BY <4>2
    <3>4. CASE r # {}
      <4>1. PICK i : IsGreatestAt(f, r, i)
        BY <1>2, <3>2, <3>4
      <4>2. i \in r /\ i \in s /\ (\A j \in r : f[j] <= f[i]) /\ f[i] \in Nat
        BY <3>1, <3>2, <4>1 DEF IsGreatestAt
      <4>3. CASE m + 1 \in s /\ f[m + 1] > f[i]
        <5>1. ASSUME NEW j \in s PROVE f[j] <= f[m + 1]
          <6>1. CASE j = m + 1
            BY <3>2, <6>1
          <6>2. CASE j \in r
            BY <3>2, <4>2, <4>3, <6>2
          <6> QED
            BY <3>1, <6>1, <6>2
        <5>2. IsGreatestAt(f, s, m + 1)
          BY <4>3, <5>1 DEF IsGreatestAt
        <5> QED
          BY <5>2
      <4>4. CASE ~(m + 1 \in s /\ f[m + 1] > f[i])
        <5>1. ASSUME NEW j \in s PROVE f[j] <= f[i]
          <6>1. CASE j = m + 1
            BY <3>2, <4>2, <4>4, <6>1
          <6>2. CASE j \in r
            BY <4>2, <6>2
          <6> QED
            BY <3>1, <6>1, <6>2
        <5>2. IsGreatestAt(f, s, i)
          BY <4>2, <5>1 DEF IsGreatestAt
        <5> QED
          BY <5>2
      <4> QED
        BY <4>3, <4>4
    <3> QED
      BY <3>3, <3>4
  <2> QED
    BY <2>1, <2>2
<1>3. n \in T
  <2> HIDE DEF T
  <2>1. \A k \in 0..n : k \in T
    BY <1>1, <1>2, UpTo
  <2> QED
    BY <2>1
<1> QED
  BY <1>3

\* A sequence of chunks of a page, each with its classification.
IsVote(s) == s \in Seq(Classified)

LEMMA VoteShape ==
  ASSUME NEW s, IsVote(s), NEW i \in DOMAIN s
  PROVE  /\ s[i] \in Classified /\ s[i].label \in Labels /\ s[i].confidence \in Nat
         /\ s[i].confidence = s[i].scores[s[i].label]
         /\ \A m \in Labels : s[i].scores[m] \in Nat /\ s[i].confidence >= s[i].scores[m]
<1>1. s[i] \in Classified
  BY DEF IsVote
<1>2. PICK c : c = s[i]
  OBVIOUS
<1>3. /\ c.label \in Labels /\ c.confidence \in Nat
      /\ c.scores \in [Labels -> Nat] /\ c.confidence = c.scores[c.label]
      /\ \A m \in Labels : c.confidence >= c.scores[m]
  BY <1>1, <1>2, ClassifiedShape
<1>4. \A m \in Labels : c.scores[m] \in Nat
  BY <1>3
<1> QED
  BY <1>1, <1>2, <1>3, <1>4, Zenon

LEMMA VoteDomain ==
  ASSUME NEW s, IsVote(s)
  PROVE  /\ Len(s) \in Nat /\ DOMAIN s = 1..Len(s) /\ IsFiniteSet(DOMAIN s)
         /\ (s = <<>> <=> Len(s) = 0)
<1>1. Len(s) \in Nat /\ DOMAIN s = 1..Len(s) /\ (s = <<>> <=> Len(s) = 0)
  BY DEF IsVote
<1>2. IsFiniteSet(1..Len(s))
  BY <1>1, FS_Interval
<1> QED
  BY <1>1, <1>2

\* The best score of the chunks that speak for a label is one of theirs, and none of
\* theirs is higher.
LEMMA BestScoreIsOneOfThem ==
  ASSUME NEW s, IsVote(s), NEW l \in Labels, NEW S \in SUBSET DOMAIN s, S # {}
  PROVE  /\ \E i \in S : BestScore(s, S, l) = s[i].scores[l]
         /\ \A j \in S : s[j].scores[l] <= BestScore(s, S, l)
<1>1. PICK n : n = Len(s)
  OBVIOUS
<1>2. n \in Nat /\ DOMAIN s = 1..n
  BY <1>1, VoteDomain
<1>3. PICK f : f = [i \in 1..n |-> s[i].scores[l]]
  OBVIOUS
<1>4. f \in [1..n -> Nat]
  BY <1>2, <1>3, VoteShape
<1>5. PICK i : IsGreatestAt(f, S, i)
  BY <1>2, <1>4, GreatestExists
<1>6. i \in S /\ \A j \in S : s[j].scores[l] <= s[i].scores[l]
  BY <1>2, <1>3, <1>5 DEF IsGreatestAt
<1>7. PICK V : V = {s[j].scores[l] : j \in S}
  OBVIOUS
<1>8. \E v \in V : \A j \in S : s[j].scores[l] <= v
  BY <1>6, <1>7, Zenon
<1>9. BestScore(s, S, l) = CHOOSE v \in V : \A j \in S : s[j].scores[l] <= v
  BY <1>7, Zenon DEF BestScore
<1>10. BestScore(s, S, l) \in V /\ \A j \in S : s[j].scores[l] <= BestScore(s, S, l)
  BY <1>8, <1>9, Zenon
<1> QED
  BY <1>7, <1>10, Zenon

\* The first of the most confident chunks.
LEMMA FallbackExists ==
  ASSUME NEW s, IsVote(s), s # <<>>
  PROVE  \E i \in DOMAIN s : IsFallback(s, i)
<1>1. PICK n : n = Len(s)
  OBVIOUS
<1>2. n \in Nat /\ DOMAIN s = 1..n /\ n # 0
  BY <1>1, VoteDomain
<1>3. PICK f : f = [i \in 1..n |-> s[i].confidence]
  OBVIOUS
<1>4. f \in [1..n -> Nat]
  BY <1>2, <1>3, VoteShape
<1>5. 1 \in 1..n /\ 1..n # {}
  BY <1>2
<1>6. PICK i : IsGreatestAt(f, 1..n, i)
  BY <1>2, <1>4, <1>5, GreatestExists
<1>7. i \in 1..n /\ \A j \in 1..n : f[j] <= f[i]
  BY <1>6 DEF IsGreatestAt
<1>8. PICK T : T = {k \in 1..n : f[k] = f[i]}
  OBVIOUS
<1>9. T \in SUBSET Nat /\ T # {}
  BY <1>7, <1>8
<1>10. PICK k \in T : \A y \in T : k <= y
  BY <1>9, LeastExists
<1>11. k \in 1..n /\ f[k] = f[i] /\ \A j \in 1..n : f[j] <= f[k]
  BY <1>7, <1>8, <1>10
<1>11a. k \in Nat /\ 1 <= k /\ k <= n
  BY <1>2, <1>11
<1>12. ASSUME NEW j \in 1..(k - 1)
       PROVE  j \in 1..n /\ f[j] < f[k]
  <2>1. j \in 1..n /\ j < k
    BY <1>2, <1>11a
  <2>2. j \notin T
    BY <1>9, <1>10, <2>1
  <2> QED
    BY <1>4, <1>8, <1>11, <2>1, <2>2
<1>13. \A j \in 1..n : f[j] = s[j].confidence
  BY <1>3
<1>14. (\A j \in DOMAIN s : s[j].confidence <= s[k].confidence)
       /\ \A j \in 1..(k - 1) : s[j].confidence < s[k].confidence
  BY <1>2, <1>11, <1>12, <1>13
<1> QED
  BY <1>2, <1>11, <1>14 DEF IsFallback

\* And there is no other.
LEMMA OneFallback ==
  ASSUME NEW s, IsVote(s), NEW i \in DOMAIN s, NEW k \in DOMAIN s,
         IsFallback(s, i), IsFallback(s, k)
  PROVE  i = k
<1>1. i \in Nat /\ k \in Nat /\ i >= 1 /\ k >= 1
  BY VoteDomain
<1>2. s[i].confidence \in Nat /\ s[k].confidence \in Nat
  BY VoteShape
<1>3. s[i].confidence = s[k].confidence
  BY <1>2 DEF IsFallback
<1>4. ~(i < k)
  <2> SUFFICES ASSUME i < k PROVE FALSE
    OBVIOUS
  <2>1. i \in 1..(k - 1)
    BY <1>1
  <2> QED
    BY <1>2, <1>3, <2>1 DEF IsFallback
<1>5. ~(k < i)
  <2> SUFFICES ASSUME k < i PROVE FALSE
    OBVIOUS
  <2>1. k \in 1..(i - 1)
    BY <1>1
  <2> QED
    BY <1>2, <1>3, <2>1 DEF IsFallback
<1> QED
  BY <1>1, <1>4, <1>5

\* A classification lets the page through if it says, with enough confidence, that it
\* is a posting.
LEMMA CaptureIff ==
  ASSUME NEW l \in Labels, NEW n \in Nat
  PROVE  job_capture_from_document([label |-> l, confidence |-> n]) <=>
           l = "job_post" /\ n >= MIN_CONFIDENCE
<1>1. PICK c : c = [label |-> l, confidence |-> n]
  OBVIOUS
<1>2. c \in [label : Labels, confidence : Nat] /\ c.label = l /\ c.confidence = n
  BY <1>1
<1>3. c # NoOpinion
  BY <1>2, ClassifierAssumption
<1> QED
  BY <1>1, <1>2, <1>3, Zenon DEF job_capture_from_document

Confident(c) == c.label = "job_post" /\ c.confidence >= MIN_CONFIDENCE

\* When a page passes, said of its chunks.
Wins(s) ==
  /\ s # <<>>
  /\ \/ Posts(s) # {} /\ JobsWin(s)
     \/ /\ Posts(s) = {} /\ Resumes(s) = {}
        /\ \E i \in DOMAIN s : IsFallback(s, i) /\ Confident(s[i])

LEMMA PassesIff ==
  ASSUME NEW s, IsVote(s)
  PROVE  Passes(s) <=> Wins(s)
<1>0. PICK job, resume, other :
        job = "job_post" /\ resume = "resume" /\ other = "other"
  OBVIOUS
<1>1. /\ job \in Labels /\ resume \in Labels /\ other \in Labels
      /\ other # job /\ resume # job
  BY <1>0 DEF Labels
<1>2. Posts(s) \in SUBSET DOMAIN s /\ Resumes(s) \in SUBSET DOMAIN s
  BY DEF Posts, Resumes, Qualifying
<1>3. CASE s = <<>>
  <2>1. aggregate(s) = [label |-> other, confidence |-> MIN_CONFIDENCE]
    BY <1>0, <1>3 DEF aggregate
  <2>2. ~Passes(s)
    BY <1>0, <1>1, <2>1, CaptureIff, ClassifierAssumption DEF Passes
  <2> QED
    BY <1>3, <2>2 DEF Wins
<1>4. CASE s # <<>> /\ Posts(s) # {} /\ JobsWin(s)
  <2>1. PICK b : b = BestScore(s, Posts(s), job)
    OBVIOUS
  <2>2. aggregate(s) = [label |-> job, confidence |-> b]
    BY <1>0, <1>4, <2>1, Zenon DEF aggregate
  <2>3. PICK i \in Posts(s) : b = s[i].scores[job]
    BY <1>1, <1>2, <1>4, <2>1, BestScoreIsOneOfThem
  <2>4. s[i].scores[job] >= MIN_CONFIDENCE
    BY <1>0, <2>3 DEF Posts, Qualifying
  <2>5. s[i].scores[job] \in Nat
    BY <1>1, <1>2, VoteShape
  <2>6. Passes(s)
    BY <1>0, <1>1, <2>2, <2>3, <2>4, <2>5, CaptureIff DEF Passes
  <2> QED
    BY <1>4, <2>6 DEF Wins
<1>5. CASE s # <<>> /\ ~(Posts(s) # {} /\ JobsWin(s)) /\ Resumes(s) # {}
  <2>1. PICK b : b = BestScore(s, Resumes(s), resume)
    OBVIOUS
  <2>2. aggregate(s) = [label |-> resume, confidence |-> b]
    BY <1>0, <1>5, <2>1, Zenon DEF aggregate
  <2>3. PICK i \in Resumes(s) : b = s[i].scores[resume]
    BY <1>1, <1>2, <1>5, <2>1, BestScoreIsOneOfThem
  <2>4. b \in Nat
    BY <1>1, <1>2, <2>3, VoteShape
  <2>5. ~Passes(s)
    BY <1>0, <1>1, <2>2, <2>4, CaptureIff DEF Passes
  <2> QED
    BY <1>5, <2>5 DEF Wins
<1>6. CASE s # <<>> /\ ~(Posts(s) # {} /\ JobsWin(s)) /\ Resumes(s) = {}
  <2>1. Posts(s) = {}
    BY <1>6, Zenon DEF JobsWin
  <2>2. PICK k : k = CHOOSE i \in DOMAIN s : IsFallback(s, i)
    OBVIOUS
  <2>3. k \in DOMAIN s /\ IsFallback(s, k)
    BY <1>6, <2>2, FallbackExists, Zenon
  <2>4. aggregate(s) = [label |-> s[k].label, confidence |-> s[k].confidence]
    BY <1>6, <2>2, Zenon DEF aggregate
  <2>5. s[k].label \in Labels /\ s[k].confidence \in Nat
    BY <2>3, VoteShape
  <2>6. Passes(s) <=> Confident(s[k])
    BY <2>4, <2>5, CaptureIff, Zenon DEF Passes, Confident
  <2>7. (\E i \in DOMAIN s : IsFallback(s, i) /\ Confident(s[i])) <=> Confident(s[k])
    BY <2>3, OneFallback, Zenon
  <2> QED
    BY <1>6, <2>1, <2>6, <2>7, Zenon DEF Wins
<1> QED
  BY <1>3, <1>4, <1>5, <1>6

\* What a chunk says alone.
PostLike(c)   == c.scores["job_post"] >= MIN_CONFIDENCE /\ c.scores["job_post"] > c.scores["resume"]
ResumeLike(c) == c.scores["resume"] >= MIN_CONFIDENCE /\ c.scores["resume"] > c.scores["job_post"]

LEMMA WhoSpeaks ==
  ASSUME NEW s
  PROVE  /\ Posts(s) = {i \in DOMAIN s : PostLike(s[i])}
         /\ Resumes(s) = {i \in DOMAIN s : ResumeLike(s[i])}
BY Zenon DEF Posts, Resumes, Qualifying, PostLike, ResumeLike

LEMMA NotBoth ==
  ASSUME NEW c \in Classified
  PROVE  ~(PostLike(c) /\ ResumeLike(c))
<1>1. PICK job, resume : job = "job_post" /\ resume = "resume"
  OBVIOUS
<1>2. job \in Labels /\ resume \in Labels
  BY <1>1 DEF Labels
<1>3. c.scores \in [Labels -> Nat]
  BY ClassifiedShape
<1>4. c.scores[job] \in Nat /\ c.scores[resume] \in Nat
  BY <1>2, <1>3
<1>5. ~(c.scores[job] > c.scores[resume] /\ c.scores[resume] > c.scores[job])
  BY <1>4
<1> QED
  BY <1>1, <1>5, Zenon DEF PostLike, ResumeLike

LEMMA AloneIff ==
  ASSUME NEW c \in Classified
  PROVE  Passes(<<c>>) <=> PostLike(c) \/ (~PostLike(c) /\ ~ResumeLike(c) /\ Confident(c))
<1>1. PICK s : s = <<c>>
  OBVIOUS
<1>2. IsVote(s) /\ DOMAIN s = {1} /\ s[1] = c /\ s # <<>>
  BY <1>1 DEF IsVote
<1>3. Posts(s) = {i \in {1} : PostLike(c)} /\ Resumes(s) = {i \in {1} : ResumeLike(c)}
  <2>1. \A i \in {1} : s[i] = c
    BY <1>2
  <2>2. Posts(s) = {i \in {1} : PostLike(s[i])} /\ Resumes(s) = {i \in {1} : ResumeLike(s[i])}
    BY <1>2, WhoSpeaks
  <2> QED
    BY <2>1, <2>2
<1>4. (Posts(s) # {} <=> PostLike(c)) /\ (Resumes(s) # {} <=> ResumeLike(c))
  BY <1>3, Zenon
<1>5. PostLike(c) => JobsWin(s)
  <2>1. PostLike(c) => Resumes(s) = {}
    BY <1>4, NotBoth
  <2> QED
    BY <2>1 DEF JobsWin
<1>6. (\E i \in DOMAIN s : IsFallback(s, i) /\ Confident(s[i])) <=> Confident(c)
  <2>1. PICK i \in DOMAIN s : IsFallback(s, i)
    BY <1>2, FallbackExists
  <2>2. i = 1
    BY <1>2, <2>1
  <2> QED
    BY <1>2, <2>1, <2>2
<1>7. Wins(s) <=> PostLike(c) \/ (~PostLike(c) /\ ~ResumeLike(c) /\ Confident(c))
  BY <1>2, <1>4, <1>5, <1>6, Zenon DEF Wins
<1> QED
  BY <1>1, <1>2, <1>7, PassesIff, Zenon

(***************************************************************************)
(* Leaving a chunk out: the positions after it move one down.              *)
(***************************************************************************)

Shift(i, k) == IF k < i THEN k ELSE k + 1

\* Where the positions S of n are, when the one at i is left out.
Left(n, i, S) == {k \in 1..(n - 1) : Shift(i, k) \in S}

LEMMA ShiftMeets ==
  ASSUME NEW n \in Nat, NEW i \in 1..n
  PROVE  /\ \A k \in 1..(n - 1) : Shift(i, k) \in 1..n /\ Shift(i, k) # i
         /\ \A j \in 1..n : j # i => \E k \in 1..(n - 1) : Shift(i, k) = j
         /\ \A k, m \in 1..(n - 1) : Shift(i, k) < Shift(i, m) <=> k < m
<1>1. \A k \in 1..(n - 1) : Shift(i, k) \in 1..n /\ Shift(i, k) # i
  BY DEF Shift
<1>2. ASSUME NEW j \in 1..n, j # i
      PROVE  \E k \in 1..(n - 1) : Shift(i, k) = j
  <2>1. CASE j < i
    <3>1. j \in 1..(n - 1) /\ Shift(i, j) = j
      BY <2>1 DEF Shift
    <3> QED
      BY <3>1
  <2>2. CASE j > i
    <3>1. j - 1 \in 1..(n - 1) /\ Shift(i, j - 1) = j
      BY <2>2 DEF Shift
    <3> QED
      BY <3>1
  <2> QED
    BY <1>2, <2>1, <2>2
<1>3. \A k, m \in 1..(n - 1) : Shift(i, k) < Shift(i, m) <=> k < m
  BY DEF Shift
<1> QED
  BY <1>1, <1>2, <1>3

LEMMA WithoutIs ==
  ASSUME NEW s, IsVote(s), NEW i \in DOMAIN s
  PROVE  /\ IsVote(Without(s, i)) /\ DOMAIN Without(s, i) = 1..(Len(s) - 1)
         /\ \A k \in DOMAIN Without(s, i) : Without(s, i)[k] = s[Shift(i, k)]
<1>0. PICK w : w = Without(s, i)
  OBVIOUS
<1>1. PICK n : n = Len(s)
  OBVIOUS
<1>2. n \in Nat /\ DOMAIN s = 1..n /\ i \in 1..n /\ s \in Seq(Classified)
  BY <1>1, VoteDomain DEF IsVote
<1>3. PICK a, b : a = SubSeq(s, 1, i - 1) /\ b = SubSeq(s, i + 1, n)
  OBVIOUS
<1>4. /\ a \in Seq(Classified) /\ Len(a) = i - 1
      /\ \A k \in 1..(i - 1) : a[k] = s[k]
  BY <1>1, <1>2, <1>3
<1>5. /\ b \in Seq(Classified) /\ Len(b) = n - i
      /\ \A k \in 1..(n - i) : b[k] = s[i + k]
  BY <1>1, <1>2, <1>3
<1>6. w = a \o b
  BY <1>0, <1>1, <1>3 DEF Without
<1>7. w \in Seq(Classified) /\ Len(w) = n - 1
  <2>1. PICK X : X = Classified
    OBVIOUS
  <2>2. a \o b \in Seq(X) /\ Len(a \o b) = Len(a) + Len(b)
    BY <1>4, <1>5, <2>1
  <2>3. (i - 1) + (n - i) = n - 1
    BY <1>2
  <2> QED
    BY <1>4, <1>5, <1>6, <2>1, <2>2, <2>3
<1>8. DOMAIN w = 1..(n - 1)
  BY <1>7
<1>9. ASSUME NEW k \in 1..(n - 1)
      PROVE  w[k] = s[Shift(i, k)]
  <2>1. CASE k < i
    <3>1. k \in 1..Len(a) /\ k \in 1..(i - 1)
      BY <1>2, <1>4, <2>1
    <3>2. w[k] = a[k]
      BY <1>4, <1>5, <1>6, <3>1
    <3> QED
      BY <1>4, <2>1, <3>1, <3>2 DEF Shift
  <2>2. CASE ~(k < i)
    <3>1. PICK m \in 1..(n - i) : k = Len(a) + m
      <4>1. k - (i - 1) \in 1..(n - i) /\ k = Len(a) + (k - (i - 1))
        BY <1>2, <1>4, <2>2
      <4> QED
        BY <4>1
    <3>2. w[k] = b[m]
      <4>1. m \in 1..Len(b)
        BY <1>5
      <4> QED
        BY <1>4, <1>5, <1>6, <3>1, <4>1
    <3>3. Shift(i, k) = i + m
      BY <1>2, <1>4, <2>2, <3>1 DEF Shift
    <3> QED
      BY <1>5, <3>2, <3>3
  <2> QED
    BY <2>1, <2>2
<1>11. IsVote(w)
  BY <1>7 DEF IsVote
<1> QED
  BY <1>0, <1>1, <1>8, <1>9, <1>11, Zenon

\* As many positions of a set are left, when one that is not in it is left out.
LEMMA ShiftCounts ==
  ASSUME NEW n \in Nat, NEW i \in 1..n, NEW S \in SUBSET (1..n), i \notin S
  PROVE  /\ IsFiniteSet(S)
         /\ Cardinality(Left(n, i, S)) = Cardinality(S)
<1>1. PICK P : P = {k \in 1..(n - 1) : Shift(i, k) \in S}
  OBVIOUS
<1>2. IsFiniteSet(1..n) /\ IsFiniteSet(1..(n - 1))
  BY FS_Interval
<1>3. IsFiniteSet(S) /\ IsFiniteSet(P)
  <2>1. P \in SUBSET (1..(n - 1))
    BY <1>1
  <2> QED
    BY <1>2, <2>1, FS_Subset
<1>4. PICK h : h = [k \in P |-> Shift(i, k)]
  OBVIOUS
<1>5. h \in [P -> S]
  BY <1>1, <1>4
<1>6. ASSUME NEW k \in P, NEW m \in P, h[k] = h[m]
      PROVE  k = m
  <2>1. k \in 1..(n - 1) /\ m \in 1..(n - 1) /\ Shift(i, k) = Shift(i, m)
    BY <1>1, <1>4, <1>6
  <2> QED
    BY <2>1 DEF Shift
<1>7. ASSUME NEW j \in S PROVE \E k \in P : h[k] = j
  <2>1. j \in 1..n /\ j # i
    OBVIOUS
  <2>2. PICK k \in 1..(n - 1) : Shift(i, k) = j
    BY <2>1, ShiftMeets
  <2> QED
    BY <1>1, <1>4, <2>2
<1>8. h \in Bijection(P, S)
  BY <1>5, <1>6, <1>7 DEF Bijection, Injection, Surjection, IsInjective
<1>9. ExistsBijection(P, S)
  BY <1>8 DEF ExistsBijection
<1>10. Cardinality(S) = Cardinality(P)
  BY <1>3, <1>9, FS_Bijection
<1> QED
  BY <1>1, <1>3, <1>10 DEF Left

\* One less is left, when one of them is left out.
LEMMA ShiftCountsLess ==
  ASSUME NEW n \in Nat, NEW i \in 1..n, NEW S \in SUBSET (1..n), i \in S
  PROVE  /\ Cardinality(Left(n, i, S)) \in Nat
         /\ Cardinality(S) = Cardinality(Left(n, i, S)) + 1
<1>1. PICK R : R = S \ {i}
  OBVIOUS
<1>2. R \in SUBSET (1..n) /\ i \notin R
  BY <1>1
<1>3. Left(n, i, S) = Left(n, i, R)
  <2>1. \A k \in 1..(n - 1) : Shift(i, k) # i
    BY ShiftMeets
  <2> HIDE DEF Shift
  <2> QED
    BY <1>1, <2>1, Zenon DEF Left
<1>4. IsFiniteSet(R) /\ Cardinality(Left(n, i, R)) = Cardinality(R)
  BY <1>2, ShiftCounts
<1>5. IsFiniteSet(S)
  <2>1. IsFiniteSet(1..n)
    BY FS_Interval
  <2> QED
    BY <2>1, FS_Subset
<1>6. Cardinality(R) = Cardinality(S) - 1 /\ Cardinality(S) \in Nat /\ Cardinality(R) \in Nat
  BY <1>1, <1>4, <1>5, FS_RemoveElement, FS_CardinalityType
<1> QED
  <2>1. PICK x, y : x = Cardinality(S) /\ y = Cardinality(R)
    OBVIOUS
  <2>2. x = y + 1 /\ y \in Nat
    BY <1>6, <2>1
  <2> QED
    BY <1>3, <1>4, <2>1, <2>2, Zenon

\* The chunk at i is left out of s, which has n; w is what is left.
LeavesOut(s, i, n, w) == IsVote(s) /\ i \in DOMAIN s /\ n = Len(s) /\ w = Without(s, i)

LEMMA LeavesOutShape ==
  ASSUME NEW s, NEW i, NEW n, NEW w, LeavesOut(s, i, n, w)
  PROVE  /\ IsVote(s) /\ n \in Nat /\ DOMAIN s = 1..n /\ i \in 1..n /\ s # <<>>
         /\ IsVote(w) /\ DOMAIN w = 1..(n - 1)
         /\ \A k \in 1..(n - 1) : w[k] = s[Shift(i, k)]
<1>1. IsVote(s) /\ i \in DOMAIN s /\ n = Len(s) /\ w = Without(s, i)
  BY DEF LeavesOut
<1>2. n \in Nat /\ DOMAIN s = 1..n /\ (s = <<>> <=> n = 0)
  BY <1>1, VoteDomain
<1>3. /\ IsVote(w) /\ DOMAIN w = 1..(Len(s) - 1)
      /\ \A k \in DOMAIN w : w[k] = s[Shift(i, k)]
  <2>1. IsVote(s) /\ i \in DOMAIN s
    BY <1>1
  <2>2. /\ IsVote(Without(s, i)) /\ DOMAIN Without(s, i) = 1..(Len(s) - 1)
        /\ \A k \in DOMAIN Without(s, i) : Without(s, i)[k] = s[Shift(i, k)]
    BY <2>1, WithoutIs
  <2> QED
    BY <1>1, <2>2, Zenon
<1>4. i \in 1..n /\ n # 0
  BY <1>1, <1>2
<1> QED
  BY <1>1, <1>2, <1>3, <1>4, Zenon

\* Those that speak for a label, when a chunk is left out.
LEMMA WithoutSpeaks ==
  ASSUME NEW s, NEW i, NEW n, NEW w, LeavesOut(s, i, n, w)
  PROVE  Posts(w) = Left(n, i, Posts(s)) /\ Resumes(w) = Left(n, i, Resumes(s))
<1>1. /\ DOMAIN s = 1..n /\ DOMAIN w = 1..(n - 1) /\ n \in Nat /\ i \in 1..n
      /\ \A k \in 1..(n - 1) : w[k] = s[Shift(i, k)]
  BY LeavesOutShape
<1>2. /\ Posts(w) = {k \in 1..(n - 1) : PostLike(w[k])}
      /\ Resumes(w) = {k \in 1..(n - 1) : ResumeLike(w[k])}
  BY <1>1, WhoSpeaks
<1>3. \A k \in 1..(n - 1) : Shift(i, k) \in DOMAIN s
  BY <1>1, ShiftMeets
<1>4. \A k \in 1..(n - 1) : /\ PostLike(w[k]) <=> Shift(i, k) \in Posts(s)
                            /\ ResumeLike(w[k]) <=> Shift(i, k) \in Resumes(s)
  BY <1>1, <1>3, WhoSpeaks
<1> QED
  BY <1>2, <1>4 DEF Left

\* Nobody speaks for a label when nobody else did without a chunk, that does not.
LEMMA NoneLeft ==
  ASSUME NEW n \in Nat, NEW i \in 1..n, NEW S \in SUBSET (1..n), i \notin S
  PROVE  Left(n, i, S) = {} <=> S = {}
<1>1. ASSUME NEW j \in S PROVE \E k \in 1..(n - 1) : Shift(i, k) \in S
  <2>1. j \in 1..n /\ j # i
    OBVIOUS
  <2> QED
    BY <2>1, ShiftMeets
<1> QED
  BY <1>1, Zenon DEF Left

\* Some of the chunks, and not the one at i.
SomeOthers(s, i, S) == S \in SUBSET DOMAIN s /\ i \notin S /\ S # {}

\* The best score does not change when a chunk is left out that does not speak.
LEMMA SameBest ==
  ASSUME NEW s, NEW i, NEW n, NEW w, LeavesOut(s, i, n, w), NEW l \in Labels,
         NEW S, SomeOthers(s, i, S)
  PROVE  BestScore(s, S, l) = BestScore(w, Left(n, i, S), l)
<1>1. /\ IsVote(s) /\ n \in Nat /\ DOMAIN s = 1..n /\ i \in 1..n
      /\ IsVote(w) /\ DOMAIN w = 1..(n - 1)
      /\ \A k \in 1..(n - 1) : w[k] = s[Shift(i, k)]
  BY LeavesOutShape
<1>1a. S \in SUBSET DOMAIN s /\ i \notin S /\ S # {}
  BY DEF SomeOthers
<1>2. PICK P : P = Left(n, i, S)
  OBVIOUS
<1>3. P # {} /\ P \in SUBSET DOMAIN w
  <2>1. P # {}
    BY <1>1, <1>1a, <1>2, NoneLeft
  <2> QED
    BY <1>1, <1>2, <2>1 DEF Left
<1>4. PICK x, y : x = BestScore(s, S, l) /\ y = BestScore(w, P, l)
  OBVIOUS
<1>5. PICK j \in S : x = s[j].scores[l] /\ \A m \in S : s[m].scores[l] <= x
  <2>1. (\E k \in S : BestScore(s, S, l) = s[k].scores[l])
        /\ \A m \in S : s[m].scores[l] <= BestScore(s, S, l)
    BY <1>1, <1>1a, BestScoreIsOneOfThem
  <2> QED
    BY <1>4, <2>1, Zenon
<1>6. PICK k \in P : y = w[k].scores[l] /\ \A m \in P : w[m].scores[l] <= y
  <2>1. (\E k \in P : BestScore(w, P, l) = w[k].scores[l])
        /\ \A m \in P : w[m].scores[l] <= BestScore(w, P, l)
    BY <1>1, <1>3, BestScoreIsOneOfThem
  <2> QED
    BY <1>4, <2>1, Zenon
<1>7. y <= x
  <2>1. Shift(i, k) \in S /\ w[k] = s[Shift(i, k)]
    BY <1>1, <1>2, <1>3, Zenon DEF Left
  <2> QED
    BY <1>5, <1>6, <2>1
<1>8. x <= y
  <2>1. i \in 1..n /\ j \in 1..n /\ j # i
    BY <1>1, <1>1a, <1>5
  <2>2. PICK m \in 1..(n - 1) : Shift(i, m) = j
    BY <1>1, <2>1, ShiftMeets
  <2>3. m \in P /\ w[m] = s[j]
    BY <1>1, <1>2, <1>5, <2>2 DEF Left
  <2> QED
    BY <1>5, <1>6, <2>3
<1>9. x \in Nat /\ y \in Nat
  <2>1. s[j].scores[l] \in Nat
    BY <1>1, <1>1a, VoteShape
  <2>2. w[k].scores[l] \in Nat
    BY <1>1, <1>3, VoteShape
  <2> QED
    BY <1>5, <1>6, <2>1, <2>2
<1>10. x = y
  BY <1>7, <1>8, <1>9
<1> QED
  BY <1>2, <1>4, <1>10, Zenon

\* A posting more for the winner does not make it lose.
LEMMA PostingHelps ==
  ASSUME NEW s, IsVote(s), NEW i \in DOMAIN s, PostLike(s[i]), Wins(Without(s, i))
  PROVE  Wins(s)
<1>1. PICK n, w, P, R : n = Len(s) /\ w = Without(s, i) /\ P = Posts(s) /\ R = Resumes(s)
  OBVIOUS
<1>1a. LeavesOut(s, i, n, w)
  BY <1>1, Zenon DEF LeavesOut
<1>2. n \in Nat /\ DOMAIN s = 1..n /\ i \in 1..n /\ s # <<>>
  BY <1>1a, LeavesOutShape, Zenon
<1>3. P \in SUBSET (1..n) /\ R \in SUBSET (1..n) /\ i \in P /\ i \notin R
  BY <1>1, <1>2, WhoSpeaks, NotBoth, VoteShape
<1>4. PICK p, r : p = Left(n, i, P) /\ r = Left(n, i, R)
  OBVIOUS
<1>5. Posts(w) = p /\ Resumes(w) = r
  BY <1>1, <1>1a, <1>4, WithoutSpeaks, Zenon
<1>6. Cardinality(p) \in Nat /\ Cardinality(P) = Cardinality(p) + 1
  BY <1>2, <1>3, <1>4, ShiftCountsLess
<1>7. IsFiniteSet(R) /\ Cardinality(r) = Cardinality(R)
  BY <1>2, <1>3, <1>4, ShiftCounts
<1>8. Cardinality(R) \in Nat
  BY <1>7, FS_CardinalityType
<1>9. r = {} => R = {}
  <2>1. Left(n, i, R) = {} <=> R = {}
    BY <1>2, <1>3, NoneLeft
  <2> QED
    BY <1>4, <2>1
<1>10. r = {} \/ Cardinality(p) > Cardinality(r) \/ Cardinality(p) = Cardinality(r)
  BY <1>1, <1>5 DEF Wins, JobsWin
<1>11. R = {} \/ Cardinality(P) > Cardinality(R)
  BY <1>6, <1>7, <1>8, <1>9, <1>10
<1>12. JobsWin(s)
  BY <1>1, <1>11, Zenon DEF JobsWin
<1> QED
  BY <1>1, <1>2, <1>3, <1>12 DEF Wins

\* Nor does a chunk that speaks for neither, but is taken for a posting.
LEMMA TieHelps ==
  ASSUME NEW s, IsVote(s), NEW i \in DOMAIN s,
         ~PostLike(s[i]), ~ResumeLike(s[i]), Confident(s[i]), Wins(Without(s, i))
  PROVE  Wins(s)
<1>1. PICK n, w, P, R : n = Len(s) /\ w = Without(s, i) /\ P = Posts(s) /\ R = Resumes(s)
  OBVIOUS
<1>1a. LeavesOut(s, i, n, w)
  BY <1>1, Zenon DEF LeavesOut
<1>2. n \in Nat /\ DOMAIN s = 1..n /\ i \in 1..n /\ s # <<>>
  BY <1>1a, LeavesOutShape, Zenon
<1>3. P \in SUBSET (1..n) /\ R \in SUBSET (1..n) /\ i \notin P /\ i \notin R
  BY <1>1, <1>2, WhoSpeaks
<1>4. PICK p, r : p = Left(n, i, P) /\ r = Left(n, i, R)
  OBVIOUS
<1>5. Posts(w) = p /\ Resumes(w) = r
  BY <1>1, <1>1a, <1>4, WithoutSpeaks, Zenon
<1>6. Cardinality(p) = Cardinality(P) /\ Cardinality(r) = Cardinality(R)
  <2>1. Cardinality(p) = Cardinality(P)
    BY <1>2, <1>3, <1>4, ShiftCounts
  <2>2. Cardinality(r) = Cardinality(R)
    BY <1>2, <1>3, <1>4, ShiftCounts
  <2> QED
    BY <2>1, <2>2
<1>7. (p = {} <=> P = {}) /\ (r = {} <=> R = {})
  BY <1>2, <1>3, <1>4, NoneLeft
<1>8. CASE p # {} /\ JobsWin(w)
  <2>1. PICK job, resume : job = "job_post" /\ resume = "resume"
    OBVIOUS
  <2>2. job \in Labels /\ resume \in Labels
    BY <2>1 DEF Labels
  <2>3. BestScore(s, P, job) = BestScore(w, p, job)
    <3>1. SomeOthers(s, i, P)
      BY <1>2, <1>3, <1>7, <1>8, Zenon DEF SomeOthers
    <3>2. BestScore(s, P, job) = BestScore(w, Left(n, i, P), job)
      BY <1>1a, <2>2, <3>1, SameBest
    <3> QED
      BY <1>4, <3>2, Zenon
  <2>4. R # {} => BestScore(s, R, resume) = BestScore(w, r, resume)
    <3>1. R # {} => SomeOthers(s, i, R)
      BY <1>2, <1>3, Zenon DEF SomeOthers
    <3>2. R # {} => BestScore(s, R, resume) = BestScore(w, Left(n, i, R), resume)
      BY <1>1a, <2>2, <3>1, SameBest
    <3> QED
      BY <1>4, <3>2, Zenon
  <2>5. \/ Cardinality(p) > Cardinality(r)
        \/ r = {}
        \/ /\ Cardinality(p) = Cardinality(r)
           /\ BestScore(w, p, job) >= BestScore(w, r, resume)
    BY <1>5, <1>8, <2>1, Zenon DEF JobsWin
  <2>6. \/ Cardinality(P) > Cardinality(R)
        \/ R = {}
        \/ /\ Cardinality(P) = Cardinality(R)
           /\ BestScore(s, P, job) >= BestScore(s, R, resume)
    BY <1>6, <1>7, <2>3, <2>4, <2>5, Zenon
  <2>7. JobsWin(s)
    BY <1>1, <2>1, <2>6, Zenon DEF JobsWin
  <2> QED
    BY <1>1, <1>2, <1>7, <1>8, <2>7, Zenon DEF Wins
<1>9. CASE ~(p # {} /\ JobsWin(w))
  <2>1. /\ p = {} /\ r = {}
        /\ \E k \in DOMAIN w : IsFallback(w, k) /\ Confident(w[k])
    BY <1>1, <1>5, <1>9, Zenon DEF Wins
  <2>2. PICK k \in DOMAIN w : IsFallback(w, k) /\ Confident(w[k])
    BY <2>1
  <2>3. PICK f \in DOMAIN s : IsFallback(s, f)
    BY <1>2, FallbackExists
  <2>4. CASE f = i
    <3>1. Confident(s[f])
      BY <2>4
    <3> QED
      BY <1>1, <1>2, <1>7, <2>1, <2>3, <3>1, Zenon DEF Wins
  <2>5. CASE f # i
    <3>1. /\ IsVote(w) /\ DOMAIN w = 1..(n - 1)
          /\ \A m \in 1..(n - 1) : w[m] = s[Shift(i, m)]
      BY <1>1a, LeavesOutShape
    <3>2. f \in 1..n /\ i \in 1..n
      BY <1>2
    <3>3. PICK m \in 1..(n - 1) : Shift(i, m) = f
      <4>1. \A j \in 1..n : j # i => \E k1 \in 1..(n - 1) : Shift(i, k1) = j
        BY <1>2, <3>2, ShiftMeets
      <4> QED
        BY <2>5, <3>2, <4>1, Zenon
    <3>4. w[m] = s[f]
      BY <3>1, <3>3
    <3>5. ASSUME NEW j \in 1..(n - 1)
          PROVE  w[j].confidence <= w[m].confidence
      <4>1. Shift(i, j) \in DOMAIN s /\ w[j] = s[Shift(i, j)]
        BY <1>2, <3>1, <3>2, ShiftMeets
      <4> QED
        BY <2>3, <3>4, <4>1 DEF IsFallback
    <3>6. ASSUME NEW j \in 1..(m - 1)
          PROVE  w[j].confidence < w[m].confidence
      <4>1. j \in 1..(n - 1) /\ j < m
        BY <1>2
      <4>2. Shift(i, j) \in 1..n /\ Shift(i, j) < f /\ w[j] = s[Shift(i, j)]
        BY <1>2, <3>1, <3>2, <3>3, <4>1, ShiftMeets
      <4>3. Shift(i, j) \in 1..(f - 1)
        BY <1>2, <3>2, <4>2
      <4> QED
        BY <2>3, <3>4, <4>2, <4>3 DEF IsFallback
    <3>7. IsFallback(w, m)
      BY <3>1, <3>5, <3>6 DEF IsFallback
    <3>8. m = k
      BY <2>2, <3>1, <3>7, OneFallback
    <3>9. Confident(s[f])
      BY <2>2, <3>4, <3>8
    <3> QED
      BY <1>1, <1>2, <1>7, <2>1, <2>3, <3>9, Zenon DEF Wins
  <2> QED
    BY <2>4, <2>5
<1> QED
  BY <1>8, <1>9

\* Whatever the scores are and however many chunks there are: more of a posting does not
\* get a page refused that passed without it, and no page passes of which no chunk is a
\* posting by itself.  aggregate_chunk_classifications, job_capture_from_document.
THEOREM VotesAreRight ==
  ASSUME NEW votes \in Seq(Classified)
  PROVE  JudgedRight(votes)
<1>1. IsVote(votes)
  BY DEF IsVote
<1>2. ASSUME NEW i \in DOMAIN votes, Passes(<<votes[i]>>), Passes(Without(votes, i))
      PROVE  Passes(votes)
  <2>1. votes[i] \in Classified
    BY <1>1, VoteShape
  <2>2. IsVote(Without(votes, i))
    BY <1>1, WithoutIs
  <2>3. Wins(Without(votes, i))
    BY <1>2, <2>2, PassesIff
  <2>4. CASE PostLike(votes[i])
    BY <1>1, <2>3, <2>4, PostingHelps, PassesIff
  <2>5. CASE ~PostLike(votes[i])
    <3>1. ~ResumeLike(votes[i]) /\ Confident(votes[i])
      BY <1>2, <2>1, <2>5, AloneIff
    <3> QED
      BY <1>1, <2>3, <2>5, <3>1, TieHelps, PassesIff
  <2> QED
    BY <2>4, <2>5
<1>3. ASSUME Passes(votes)
      PROVE  \E i \in DOMAIN votes : Passes(<<votes[i]>>)
  <2>1. Wins(votes)
    BY <1>1, <1>3, PassesIff
  <2>2. CASE Posts(votes) # {}
    <3>1. PICK i \in DOMAIN votes : PostLike(votes[i])
      BY <2>2, WhoSpeaks
    <3>2. votes[i] \in Classified
      BY <1>1, VoteShape
    <3> QED
      BY <3>1, <3>2, AloneIff
  <2>3. CASE Posts(votes) = {}
    <3>1. /\ Resumes(votes) = {}
          /\ \E i \in DOMAIN votes : IsFallback(votes, i) /\ Confident(votes[i])
      BY <2>1, <2>3, Zenon DEF Wins
    <3>2. PICK i \in DOMAIN votes : Confident(votes[i])
      BY <3>1
    <3>3. ~PostLike(votes[i]) /\ ~ResumeLike(votes[i])
      BY <2>3, <3>1, WhoSpeaks
    <3>4. votes[i] \in Classified
      BY <1>1, VoteShape
    <3> QED
      BY <3>2, <3>3, <3>4, AloneIff
  <2> QED
    BY <2>2, <2>3
<1> QED
  BY <1>2, <1>3 DEF JudgedRight

(***************************************************************************)
(* The judgement of a page                                                 *)
(***************************************************************************)

\* The chunks of a page are those of what is left of it, under a setting that cuts, and
\* no more of them are classified than there are.
Chunked ==
  /\ Cuts(setting) /\ setting.overlap \in Nat /\ setting.size \in Nat
  /\ chunks = chunk_text(Size(prepared), setting.size, setting.overlap)
  /\ results \in Seq(Classified) /\ Len(results) <= Len(chunks)

PageInv ==
  /\ page \in Pages /\ setting \in Settings
  /\ stage \in {"new", "prepared", "classifying", "judged", "no opinion", "failed"}
  /\ stage = "new" => results = <<>>
  /\ stage = "prepared" => results = <<>>
  /\ stage # "new" => prepared = prepare_capture_text_for_classification(page)
  /\ stage \in {"classifying", "judged"} => Chunked
  /\ stage = "judged" => Len(results) = Len(chunks) /\ opinion = aggregate(results)
  /\ stage = "no opinion" => prepared = <<>> \/ setting.classifier # "on"

LEMMA InitPage == PageInit => PageInv
BY DEF PageInit, PageInv

\* How many tokens a text has, and how many chunks it is cut into.
LEMMA SizesAreNat ==
  ASSUME NEW text \in Pages
  PROVE  /\ text \in Seq(Seq(Tokens) \ {<<>>})
         /\ Size(prepare_capture_text_for_classification(text)) \in Nat
<1>1. PICK U : U = Tokens
  OBVIOUS
<1>2. text \in Seq(Seq(U) \ {<<>>})
  BY <1>1, PageAssumption
<1>3. PICK T : T = U
  OBVIOUS
<1>4. text \in Seq(FullLines(T))
  BY <1>2, <1>3 DEF FullLines
<1>5. strip_duplicate_page_title(text) \in Seq(Seq(T))
  BY <1>4, TitleIsStripped
<1>6. PICK got : got = prepare_capture_text_for_classification(text)
  OBVIOUS
<1>7. got \in Seq(Seq(T))
  BY <1>5, <1>6, PreparedIs DEF prepare_capture_text_for_classification
<1>8. FlattenSeq(got) \in Seq(T)
  BY <1>7, FlattenIs
<1>9. Len(FlattenSeq(got)) \in Nat
  BY <1>8
<1> QED
  BY <1>1, <1>2, <1>6, <1>9 DEF Size

LEMMA ChunksAreSome ==
  ASSUME NEW length \in Nat, NEW size \in Nat, NEW overlap \in Nat, overlap < size
  PROVE  /\ DOMAIN chunk_text(length, size, overlap) =
              1..Len(chunk_text(length, size, overlap))
         /\ Len(chunk_text(length, size, overlap)) \in Nat
<1>1. CASE length = 0
  <2>1. chunk_text(length, size, overlap) = <<>>
    BY <1>1 DEF chunk_text
  <2>2. DOMAIN <<>> = 1..Len(<<>>) /\ Len(<<>>) \in Nat
    OBVIOUS
  <2> QED
    BY <2>1, <2>2
<1>2. CASE length # 0
  BY <1>2, ChunksAreCovered DEF CoveredFrom
<1> QED
  BY <1>1, <1>2

LEMMA NextPage == PageInv /\ [PageNext]_pageVars => PageInv'
<1> SUFFICES ASSUME PageInv, [PageNext]_pageVars PROVE PageInv'
  OBVIOUS
<1>1. /\ page \in Pages /\ setting \in Settings
      /\ stage # "new" => prepared = prepare_capture_text_for_classification(page)
  BY DEF PageInv
<1>2. ASSUME Prepare PROVE PageInv'
  BY <1>2 DEF Prepare, Ends, PageInv
<1>3. ASSUME Skip PROVE PageInv'
  BY <1>3 DEF Skip, Ends, PageInv
<1>4. ASSUME RefuseSetting PROVE PageInv'
  BY <1>4 DEF RefuseSetting, Ends, PageInv
<1>5. ASSUME Chunk PROVE PageInv'
  <2>1. /\ setting.overlap \in Nat /\ setting.size \in Nat
        /\ setting.overlap < setting.size
    <3>1. setting.overlap \in Int /\ setting.size \in Int
      BY <1>1, PageAssumption
    <3>2. 0 <= setting.overlap /\ setting.overlap < setting.size
      BY <1>5 DEF Chunk, Cuts
    <3> QED
      BY <3>1, <3>2
  <2>2. prepared = prepare_capture_text_for_classification(page)
    BY <1>1, <1>5 DEF Chunk
  <2>3. Size(prepared) \in Nat
    BY <1>1, <2>2, SizesAreNat
  <2>4. Len(chunks') \in Nat
    BY <1>5, <2>1, <2>3, ChunksAreSome DEF Chunk
  <2>5. results = <<>> /\ results' = results /\ <<>> \in Seq(Classified) /\ Len(<<>>) = 0
    BY <1>5 DEF Chunk, PageInv
  <2>6. Chunked'
    BY <1>5, <2>1, <2>4, <2>5 DEF Chunk, Chunked, Cuts
  <2> QED
    BY <1>5, <2>2, <2>6 DEF Chunk, PageInv
<1>6. ASSUME Classify PROVE PageInv'
  <2>1. Chunked /\ UNCHANGED <<page, setting, stage, prepared, chunks, opinion>>
        /\ stage = "classifying"
    BY <1>6 DEF Classify, PageInv
  <2>2. PICK s \in Scorings : results' = Append(results, FromScores(s))
    BY <1>6 DEF Classify
  <2>3. FromScores(s) \in Classified
    BY PageAssumption DEF Classified
  <2>4. results' \in Seq(Classified) /\ Len(results') = Len(results) + 1
    BY <2>1, <2>2, <2>3 DEF Chunked
  <2>5. Len(results') <= Len(chunks)
    <3>1. Len(chunks) \in Nat
      <4>1. Size(prepared) \in Nat
        BY <1>1, <2>1, SizesAreNat
      <4> QED
        BY <2>1, <4>1, ChunksAreSome DEF Chunked, Cuts
    <3>2. Len(results) \in Nat /\ Len(results) < Len(chunks)
      BY <1>6, <2>1 DEF Classify, Chunked
    <3> QED
      BY <2>4, <3>1, <3>2
  <2>6. Chunked'
    BY <2>1, <2>4, <2>5 DEF Chunked, Cuts
  <2> QED
    BY <1>1, <2>1, <2>6 DEF PageInv
<1>7. ASSUME ClassifierFails PROVE PageInv'
  BY <1>7 DEF ClassifierFails, Ends, PageInv
<1>8. ASSUME Aggregate PROVE PageInv'
  <2>1. Chunked'
    BY <1>8 DEF Aggregate, PageInv, Chunked, Cuts
  <2> QED
    BY <1>8, <2>1 DEF Aggregate, PageInv
<1>9. ASSUME UNCHANGED pageVars PROVE PageInv'
  <2>1. Chunked' <=> Chunked
    BY <1>9 DEF pageVars, Chunked, Cuts
  <2> QED
    BY <1>9, <2>1 DEF pageVars, PageInv
<1> QED
  BY <1>2, <1>3, <1>4, <1>5, <1>6, <1>7, <1>8, <1>9 DEF PageNext

LEMMA PagesAreRight == PageInv => JudgedOnThePosting
<1> SUFFICES ASSUME PageInv PROVE JudgedOnThePosting
  OBVIOUS
<1>1. page \in Pages
  BY DEF PageInv
<1>2. page \in Seq(Seq(Tokens) \ {<<>>})
      /\ Size(prepare_capture_text_for_classification(page)) \in Nat
  BY <1>1, SizesAreNat
<1>3. PreparedRight(page, prepare_capture_text_for_classification(page))
  BY <1>2, TextsArePreparedRight
<1>4. ASSUME stage = "judged"
      PROVE  /\ PreparedRight(page, prepared)
             /\ DOMAIN results = DOMAIN chunks
             /\ ChunkedRight(chunks, Size(prepared), setting.size, setting.overlap)
             /\ JudgedRight(results)
             /\ job_capture_from_document(opinion) =>
                  \E i \in DOMAIN results : Passes(<<results[i]>>)
  <2>1. /\ prepared = prepare_capture_text_for_classification(page) /\ Chunked
        /\ Len(results) = Len(chunks) /\ opinion = aggregate(results)
    BY <1>4 DEF PageInv
  <2>2. /\ setting.overlap \in Nat /\ setting.size \in Nat
        /\ setting.overlap < setting.size /\ Size(prepared) \in Nat
        /\ chunks = chunk_text(Size(prepared), setting.size, setting.overlap)
    BY <1>2, <2>1 DEF Chunked, Cuts
  <2>3. ChunkedRight(chunks, Size(prepared), setting.size, setting.overlap)
    BY <2>2, ChunksAreRight
  <2>4. DOMAIN chunks = 1..Len(chunks)
    BY <2>2, ChunksAreSome
  <2>5. results \in Seq(Classified)
    BY <2>1 DEF Chunked
  <2>6. DOMAIN results = DOMAIN chunks
    BY <2>1, <2>4, <2>5
  <2>7. JudgedRight(results)
    BY <2>5, VotesAreRight
  <2>8. job_capture_from_document(opinion) =>
          \E i \in DOMAIN results : Passes(<<results[i]>>)
    BY <2>1, <2>7 DEF JudgedRight, Passes
  <2> QED
    BY <1>3, <2>1, <2>3, <2>6, <2>7, <2>8
<1>5. ASSUME stage = "no opinion"
      PROVE  setting.classifier # "on" \/ ~HasWord(page)
  <2>1. /\ prepared = prepare_capture_text_for_classification(page)
        /\ prepared = <<>> \/ setting.classifier # "on"
    BY <1>5 DEF PageInv
  <2> QED
    BY <1>3, <2>1 DEF PreparedRight
<1> QED
  BY <1>4, <1>5, Zenon DEF JudgedOnThePosting

\* For any pages, settings and scores: a page that is judged is judged on the posting
\* that is on it, on every part of it and by a sound vote; and one with something to say
\* is let in without an opinion only where there is no classifier (page_classifier.py).
THEOREM PagesAreJudgedOnThePosting == PageSpec => []JudgedOnThePosting
<1>1. PageSpec => []PageInv
  BY InitPage, NextPage, PTL DEF PageSpec
<1> QED
  BY <1>1, PagesAreRight, PTL
=============================================================================
