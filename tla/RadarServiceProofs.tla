------------------------- MODULE RadarServiceProofs -------------------------
(***************************************************************************)
(* What two services of the radar promise: RadarTiers of one poll, for     *)
(* every board, every batch size and every limit; and Boards of what the   *)
(* resolver offers, for every name, URL and answer.                        *)
(***************************************************************************)
EXTENDS RadarTiers, Boards, OperatorProofs, FiniteSetTheorems, TLAPS

(***************************************************************************)
(* RadarTiers                                                              *)
(***************************************************************************)
\* A batch is outstanding only while triaging, within the cap and the attempts.
BatchInv ==
  /\ batch # {} => /\ stage = "triaging" /\ batches < MaxBatches
                   /\ attempt >= 1
  /\ batch = {} => attempt = 0 \/ stage = "idle"
  /\ stage = "triaging" /\ batches = 0 /\ rest # {} => kept = {}
  /\ stage \in {"loading", "screening"} => rest = {} /\ kept = {}

\* Every finished batch cost at most TRIAGE_ATTEMPTS calls.
TriageInv ==
  /\ stage = "triaging" =>
       triageCalls <= batches * Attempts + (IF batch = {} THEN 0 ELSE attempt)
  /\ triageCalls <= MaxBatches * Attempts

\* What is still to be screened fits in what may still be asked, and as long as
\* nothing was scored every call was a failure.
ScreenInv ==
  /\ stage \in {"triaging", "loading"} =>
       todo = {} /\ scored = {} /\ failures = 0 /\ screenCalls = 0
  /\ screenCalls + Cardinality(todo) <= ScreenLimit
  /\ todo # {} => failures < MaxFailures
  /\ stage = "screening" /\ scored = {} => screenCalls = failures

TiersInv == TypeOK /\ BatchInv /\ TriageInv /\ ScreenInv

USE LimitAssumption, IdsAssumption, BoundAssumption

LEMMA OneMoreBatch ==
  ASSUME NEW a \in Nat, NEW b \in Nat, NEW m \in Nat, b < m
  PROVE  /\ (b + 1) * a = b * a + a
         /\ (b + 1) * a <= m * a
         /\ b * a \in Nat
<1>1. (b + 1) * a = b * a + a
  OBVIOUS
<1>2. PICK k \in Nat : m = b + 1 + k
  <2>1. m - b - 1 \in Nat
    OBVIOUS
  <2> QED BY <2>1
<1>3. m * a = (b + 1) * a + k * a
  BY <1>2
<1>4. k * a \in Nat /\ b * a \in Nat
  OBVIOUS
<1> QED BY <1>1, <1>3, <1>4

LEMMA PartsAreFinite ==
  ASSUME NEW S \in SUBSET Ids
  PROVE  IsFiniteSet(S) /\ Cardinality(S) \in Nat
BY FS_Subset, FS_CardinalityType

LEMMA OneFewer ==
  ASSUME NEW S \in SUBSET Ids, NEW x \in S
  PROVE  Cardinality(S \ {x}) = Cardinality(S) - 1
BY PartsAreFinite, FS_RemoveElement

\* An empty poll satisfies the invariant.
LEMMA InitTiers == Init => TiersInv
<1> SUFFICES ASSUME Init PROVE TiersInv
  OBVIOUS
<1>1. TypeOK
  BY DEF Init, TypeOK, States, Stages
<1>2. Cardinality(todo) = 0
  BY FS_EmptySet DEF Init
<1>3. 0 * Attempts = 0 /\ MaxBatches * Attempts >= 0
  OBVIOUS
<1> QED BY <1>1, <1>2, <1>3 DEF Init, TiersInv, BatchInv, TriageInv, ScreenInv

LEMMA TriageSteps ==
  ASSUME TiersInv,
         SendBatch \/ BatchAnswered \/ BatchRetried \/ BatchFailsOpen
  PROVE  TiersInv'
<1> USE DEF TiersInv
<1>0. batches * Attempts \in Nat /\ MaxBatches * Attempts \in Nat
  BY DEF TypeOK
<1>00. batches < MaxBatches =>
         batches * Attempts + Attempts <= MaxBatches * Attempts
  BY OneMoreBatch DEF TypeOK
<1>1. CASE SendBatch
  <2> USE <1>1 DEF SendBatch
  <2>1. PICK next \in SUBSET rest :
          /\ Cardinality(next) = Least(BatchSize, Cardinality(rest))
          /\ batch' = next
    OBVIOUS
  <2>2. Cardinality(rest) \in Nat \ {0}
    <3>1. rest # {} /\ rest \in SUBSET Ids
      BY DEF TriageDone, TypeOK
    <3> QED BY <3>1, PartsAreFinite, FS_EmptySet
  <2>3. next # {}
    BY <2>1, <2>2, FS_EmptySet DEF Least
  <2>4. TypeOK'
    BY <2>1 DEF TypeOK, boardVars, rowVars, screenVars
  <2>5. BatchInv'
    BY <2>1, <2>3 DEF BatchInv, TypeOK, TriageDone
  <2>6. TriageInv'
    <3>1. batches * Attempts + 1 <= MaxBatches * Attempts
      BY <1>0, <1>00, <2>5, <2>3, <2>1 DEF BatchInv
    <3> QED BY <1>0, <2>1, <2>3, <3>1 DEF TriageInv, TypeOK
  <2>7. ScreenInv'
    BY DEF ScreenInv, screenVars
  <2> QED BY <2>4, <2>5, <2>6, <2>7
<1>2. ASSUME NEW through \in SUBSET batch, batch # {}, BatchDone(through),
             UNCHANGED <<boardVars, rowVars, stage, fetched, triageCalls,
                         screenVars, crashes>>,
             answered' \in SUBSET Ids
      PROVE  TiersInv'
  <2> USE <1>2 DEF BatchDone
  <2>1. batches < MaxBatches /\ attempt <= Attempts /\ stage = "triaging"
    BY DEF BatchInv, TypeOK
  <2>2. TypeOK'
    BY <2>1 DEF TypeOK, boardVars, rowVars, screenVars
  <2>3. BatchInv'
    BY <2>1 DEF BatchInv, TypeOK
  <2>4. TriageInv'
    <3>1. batches' * Attempts = batches * Attempts + Attempts
      BY <2>1, OneMoreBatch DEF TypeOK
    <3>2. triageCalls <= batches * Attempts + Attempts
      BY <1>0, <2>1 DEF TriageInv, TypeOK
    <3> QED BY <3>1, <3>2 DEF TriageInv
  <2>5. ScreenInv'
    BY DEF ScreenInv, screenVars
  <2> QED BY <2>2, <2>3, <2>4, <2>5
<1>3. CASE BatchAnswered
  <2>1. answered' \in SUBSET Ids
    BY <1>3 DEF BatchAnswered, TypeOK
  <2> QED BY <1>2, <1>3, <2>1 DEF BatchAnswered
<1>4. CASE BatchRetried
  <2> USE <1>4 DEF BatchRetried
  <2>1. TypeOK'
    BY DEF TypeOK, boardVars, rowVars, screenVars
  <2>2. BatchInv'
    BY DEF BatchInv, TypeOK
  <2>3. TriageInv'
    <3>1. batches * Attempts + attempt + 1 <= MaxBatches * Attempts
      BY <1>0, <1>00 DEF BatchInv, TypeOK
    <3> QED BY <1>0, <3>1 DEF BatchInv, TriageInv, TypeOK
  <2>4. ScreenInv'
    BY DEF ScreenInv, screenVars
  <2> QED BY <2>1, <2>2, <2>3, <2>4
<1>5. CASE BatchFailsOpen
  <2>1. answered' \in SUBSET Ids
    BY <1>5 DEF BatchFailsOpen, TypeOK
  <2> QED BY <1>2, <1>5, <2>1 DEF BatchFailsOpen
<1> QED BY <1>1, <1>3, <1>4, <1>5

LEMMA ScreenSteps ==
  ASSUME TiersInv, NEW x \in Ids, ScreenPosting(x) \/ ScreeningFails(x)
  PROVE  TiersInv'
<1> USE DEF TiersInv
<1>0. /\ stage = "screening" /\ x \in todo /\ todo \in SUBSET Ids
      /\ Cardinality(todo) \in Nat
      /\ Cardinality(todo \ {x}) = Cardinality(todo) - 1
  BY OneFewer, PartsAreFinite
     DEF ScreenPosting, ScreeningFails, IsNext, TypeOK
<1>1. CASE ScreenPosting(x)
  <2> USE <1>1 DEF ScreenPosting
  <2>1. TypeOK'
    BY <1>0 DEF TypeOK, boardVars, rowVars, triageVars
  <2>2. BatchInv' /\ TriageInv'
    BY DEF BatchInv, TriageInv, triageVars
  <2>3. ScreenInv'
    BY <1>0 DEF ScreenInv, TypeOK
  <2> QED BY <2>1, <2>2, <2>3
<1>2. CASE ScreeningFails(x)
  <2> USE <1>2 DEF ScreeningFails
  <2>1. failures < MaxFailures
    BY <1>0 DEF ScreenInv
  <2>2. TypeOK'
    BY <1>0, <2>1 DEF TypeOK, boardVars, rowVars, triageVars
  <2>3. BatchInv' /\ TriageInv'
    BY DEF BatchInv, TriageInv, triageVars
  <2>4. Cardinality(todo') <= Cardinality(todo) - 1
    <3>1. Cardinality(todo) - 1 >= 0
      BY <1>0, PartsAreFinite
    <3> QED BY <1>0, <3>1, FS_EmptySet
  <2>5. todo' # {} => failures + 1 < MaxFailures
    BY DEF GivesUp, TypeOK
  <2>6. Cardinality(todo') \in Nat
    BY <2>2, PartsAreFinite DEF TypeOK
  <2>7. ScreenInv'
    BY <1>0, <2>4, <2>5, <2>6 DEF ScreenInv, TypeOK
  <2> QED BY <2>2, <2>3, <2>7
<1> QED BY <1>1, <1>2

\* Every step keeps the invariant.
LEMMA NextTiers == TiersInv /\ [Next]_vars => TiersInv'
<1> SUFFICES ASSUME TiersInv, [Next]_vars PROVE TiersInv'
  OBVIOUS
<1> USE DEF TiersInv
<1>0. Cardinality({}) = 0 /\ 0 * Attempts = 0 /\ MaxBatches * Attempts >= 0
  BY FS_EmptySet
<1>1. CASE StartPoll
  <2> USE <1>1 DEF StartPoll
  <2>1. TypeOK'
    BY DEF TypeOK, Stages, boardVars, rowVars
  <2>2. BatchInv' /\ TriageInv' /\ ScreenInv'
    BY <1>0 DEF BatchInv, TriageInv, ScreenInv
  <2> QED BY <2>1, <2>2
<1>2. CASE SendBatch \/ BatchAnswered \/ BatchRetried \/ BatchFailsOpen
  BY <1>2, TriageSteps
<1>3. CASE SkipTriage
  <2> USE <1>3 DEF SkipTriage
  <2>1. TypeOK'
    BY DEF TypeOK, boardVars, rowVars, screenVars
  <2>2. BatchInv' /\ TriageInv' /\ ScreenInv'
    BY DEF BatchInv, TriageInv, ScreenInv, screenVars
  <2> QED BY <2>1, <2>2
<1>4. CASE StoreKept
  <2> USE <1>4 DEF StoreKept
  <2>1. Cardinality(Stored) \in Nat
    BY PartsAreFinite DEF Stored
  <2>2. TypeOK'
    BY <2>1 DEF TypeOK, Stages, States, TriageDone, boardVars, screenVars
  <2>3. BatchInv' /\ TriageInv' /\ ScreenInv'
    BY DEF BatchInv, TriageInv, ScreenInv, TriageDone, screenVars
  <2> QED BY <2>2, <2>3
<1>5. CASE LoadUnscreened
  <2> USE <1>5 DEF LoadUnscreened
  <2>1. PICK oldest \in SUBSET Pending :
          /\ Cardinality(oldest) = Least(ScreenLimit, Cardinality(Pending))
          /\ todo' = oldest
    OBVIOUS
  <2>2. Cardinality(oldest) <= ScreenLimit
    <3>1. Cardinality(Pending) \in Nat
      BY PartsAreFinite DEF Pending
    <3> QED BY <2>1, <3>1 DEF Least
  <2>3. TypeOK'
    BY <2>1 DEF TypeOK, Stages, Pending, boardVars, rowVars, triageVars
  <2>4. Cardinality(oldest) \in Nat
    BY <2>1, PartsAreFinite DEF Pending
  <2>5. BatchInv' /\ TriageInv'
    BY DEF BatchInv, TriageInv, triageVars
  <2>6. ScreenInv'
    BY <2>1, <2>2, <2>4 DEF ScreenInv, TypeOK
  <2> QED BY <2>3, <2>5, <2>6
<1>6. CASE SkipScreening
  <2> USE <1>6 DEF SkipScreening
  <2>1. TypeOK'
    BY DEF TypeOK, Stages, boardVars, rowVars, triageVars, screenVars
  <2>2. BatchInv' /\ TriageInv' /\ ScreenInv'
    BY DEF BatchInv, TriageInv, ScreenInv, triageVars, screenVars
  <2> QED BY <2>1, <2>2
<1>7. CASE \E x \in Ids : ScreenPosting(x) \/ ScreeningFails(x)
  BY <1>7, ScreenSteps
<1>8. CASE FinishPoll
  <2> USE <1>8 DEF FinishPoll
  <2>1. TypeOK'
    BY DEF TypeOK, Stages, States, boardVars, triageVars, screenVars
  <2>2. BatchInv' /\ TriageInv' /\ ScreenInv'
    BY DEF BatchInv, TriageInv, ScreenInv, triageVars, screenVars
  <2> QED BY <2>1, <2>2
<1>9. CASE Relist
  <2> USE <1>9 DEF Relist
  <2>1. TypeOK'
    BY DEF TypeOK, rowVars, triageVars, screenVars
  <2>2. BatchInv' /\ TriageInv' /\ ScreenInv'
    BY DEF BatchInv, TriageInv, ScreenInv, triageVars, screenVars
  <2> QED BY <2>1, <2>2
<1>10. CASE Crash
  <2> USE <1>10 DEF Crash
  <2>1. TypeOK'
    BY DEF TypeOK, Stages, boardVars, rowVars
  <2>2. BatchInv'
    BY DEF BatchInv
  <2>3. TriageInv'
    BY DEF TriageInv
  <2>4. ScreenInv'
    BY <1>0, PartsAreFinite DEF ScreenInv, TypeOK
  <2> QED BY <2>1, <2>2, <2>3, <2>4
<1>11. CASE PollRaises
  <2> USE <1>11 DEF PollRaises
  <2>1. TypeOK'
    BY DEF TypeOK, Stages, States, boardVars
  <2>2. BatchInv'
    BY DEF BatchInv
  <2>3. TriageInv'
    BY DEF TriageInv
  <2>4. ScreenInv'
    BY <1>0, PartsAreFinite DEF ScreenInv, TypeOK
  <2> QED BY <2>1, <2>2, <2>3, <2>4
<1>12. CASE UNCHANGED vars
  BY <1>12 DEF vars, boardVars, rowVars, triageVars, screenVars, TypeOK,
               BatchInv, TriageInv, ScreenInv, Stored
<1> QED BY <1>1, <1>2, <1>3, <1>4, <1>5, <1>6, <1>7, <1>8, <1>9, <1>10, <1>11,
           <1>12
        DEF Next, PollStep

\* The strengthened invariant holds in every behaviour of the two tiers.
THEOREM TiersAreConsistent == Spec => []TiersInv
BY InitTiers, NextTiers, PTL DEF Spec

\* Every poll keeps its shape, whatever the board and the limits.
THEOREM TiersTypeCorrect == Spec => []TypeOK
<1>1. TiersInv => TypeOK
  BY DEF TiersInv
<1> QED BY <1>1, TiersAreConsistent, PTL

\* A poll costs MaxBatches * Attempts triage calls and ScreenLimit screening
\* calls at most, and an outage MaxFailures of them.
THEOREM PollsAreCapped == Spec => []PollIsCapped
<1>1. TiersInv => PollIsCapped
  <2> SUFFICES ASSUME TiersInv PROVE PollIsCapped
    OBVIOUS
  <2>1. Cardinality(todo) \in Nat
    BY PartsAreFinite DEF TiersInv, TypeOK
  <2> QED BY <2>1 DEF PollIsCapped, TiersInv, TypeOK, TriageInv, ScreenInv
<1> QED BY <1>1, TiersAreConsistent, PTL

\* What a poll fetched and will not store was refused by the LLM itself.
THEOREM TriageFailsOpen == Spec => []FailsOpen
<1>1. Init => FailsOpen
  BY DEF Init, FailsOpen
<1>2. TiersInv /\ FailsOpen /\ [Next]_vars => FailsOpen'
  <2> SUFFICES ASSUME TiersInv, FailsOpen, [Next]_vars PROVE FailsOpen'
    OBVIOUS
  <2> USE DEF FailsOpen, Stored
  <2>1. CASE StartPoll
    BY <2>1 DEF StartPoll, rowVars
  <2>2. CASE SendBatch
    BY <2>2 DEF SendBatch, rowVars
  <2>3. CASE BatchAnswered
    BY <2>3 DEF BatchAnswered, BatchDone, rowVars
  <2>4. CASE BatchRetried
    BY <2>4 DEF BatchRetried, rowVars
  <2>5. CASE BatchFailsOpen
    BY <2>5 DEF BatchFailsOpen, BatchDone, rowVars
  <2>6. CASE SkipTriage
    BY <2>6 DEF SkipTriage, rowVars, TiersInv, BatchInv
  <2>7. CASE StoreKept
    <3>1. kept \in SUBSET Ids /\ rest \in SUBSET Ids /\ stage' # "idle"
      BY <2>7 DEF StoreKept, TiersInv, TypeOK
    <3>2. Stored' = Stored \cup kept \cup rest
      BY <2>7, <3>1 DEF StoreKept
    <3> QED BY <2>7, <3>1, <3>2 DEF StoreKept
  <2>8. CASE LoadUnscreened
    BY <2>8 DEF LoadUnscreened, rowVars, triageVars
  <2>9. CASE SkipScreening
    BY <2>9 DEF SkipScreening, rowVars, triageVars
  <2>10. CASE \E x \in Ids : ScreenPosting(x) \/ ScreeningFails(x)
    BY <2>10 DEF ScreenPosting, ScreeningFails, rowVars, triageVars
  <2>11. CASE FinishPoll
    BY <2>11 DEF FinishPoll
  <2>12. CASE Relist
    BY <2>12 DEF Relist, rowVars, triageVars
  <2>13. CASE Crash
    BY <2>13 DEF Crash
  <2>14. CASE PollRaises
    BY <2>14 DEF PollRaises
  <2>15. CASE UNCHANGED vars
    BY <2>15 DEF vars, rowVars, triageVars
  <2> QED BY <2>1, <2>2, <2>3, <2>4, <2>5, <2>6, <2>7, <2>8, <2>9, <2>10,
             <2>11, <2>12, <2>13, <2>14, <2>15 DEF Next, PollStep
<1> QED BY <1>1, <1>2, TiersAreConsistent, PTL DEF Spec

(***************************************************************************)
(* Tokens, and the boards they name                                        *)
(***************************************************************************)

\* What a token is that a source makes of a URL, or the resolver of a name: written
\* in one way, whatever was given; and a board with such a token.
IsToken(k) == k = [words |-> k.words, sep |-> k.sep, capitals |-> FALSE]
IsBoard(p) == /\ p.source \in Sources /\ IsToken(p.token)
              /\ p = Place(p.source, p.token)

\* The first of some sources is one of them, and those before it are not.
LEMMA FirstOfIsFirst ==
  ASSUME NEW S \in SUBSET Sources, S # {}
  PROVE  \E j \in DOMAIN all_sources :
           /\ FirstOf(S) = all_sources[j] /\ all_sources[j] \in S
           /\ \A i \in 1..(j - 1) : all_sources[i] \notin S
<1> DEFINE T == {i \in DOMAIN all_sources : all_sources[i] \in S}
<1>1. DOMAIN all_sources = 1..3 /\ 3 \in Nat
  BY DEF all_sources
<1>2. T \in SUBSET (1..3) /\ T # {}
  BY <1>1 DEF Sources, ToSet
<1>3. PICK j : j = Min(T)
  OBVIOUS
<1>4. j \in T /\ \A y \in T : j <= y
  <2> HIDE DEF T
  <2> QED
    BY <1>1, <1>2, <1>3, MinIsLeast
<1>5. FirstOf(S) = all_sources[j]
  BY <1>3 DEF FirstOf
<1>6. ASSUME NEW i \in 1..(j - 1), all_sources[i] \in S
      PROVE  FALSE
  <2>1. i \in 1..3 /\ j \in 1..3
    BY <1>1, <1>4
  <2>2. i \in T
    BY <1>1, <1>6, <2>1
  <2> QED
    BY <1>4, <2>1, <2>2
<1> QED
  BY <1>4, <1>5, <1>6

\* A URL belongs to one board, or to none.
LEMMA UrlNamesABoard ==
  ASSUME NEW url
  PROVE  board_from_url(url) = <<>> \/ \E p : board_from_url(url) = <<p>> /\ IsBoard(p)
<1> DEFINE matching == {s \in Sources : matches_url(s, url) # NoToken}
<1>1. CASE matching = {}
  BY <1>1 DEF board_from_url
<1>2. CASE matching # {}
  <2>1. PICK s : s = FirstOf(matching)
    OBVIOUS
  <2>2. s \in matching
    <3>1. matching \in SUBSET Sources
      OBVIOUS
    <3> HIDE DEF matching
    <3> QED
      BY <1>2, <2>1, <3>1, FirstOfIsFirst
  <2>3. PICK k : k = matches_url(s, url)
    OBVIOUS
  <2>4. k = Lowered(url.token)
    BY <2>2, <2>3 DEF matches_url
  <2>5. IsToken(k)
    BY <2>4 DEF Lowered, IsToken
  <2>6. board_from_url(url) = <<Place(s, k)>>
    BY <1>2, <2>1, <2>3 DEF board_from_url, Place
  <2>7. IsBoard(Place(s, k))
    BY <2>2, <2>5 DEF IsBoard, Place
  <2> QED
    BY <2>6, <2>7
<1> QED
  BY <1>1, <1>2

\* The board of a query that has a URL is one board.
LEMMA UrlPlaceIsABoard ==
  ASSUME NEW q
  PROVE  UrlPlace(q) = <<>> \/ \E p : UrlPlace(q) = <<p>> /\ IsBoard(p)
BY UrlNamesABoard DEF UrlPlace

\* What is left of candidates without repetitions, one after another.
LEMMA DistinctUnrolls ==
  ASSUME NEW U, NEW s \in Seq(U)
  PROVE  \E acc :
           /\ acc[0] = <<>>
           /\ \A k \in 1..Len(s) :
                acc[k] = IF s[k] \in ToSet(acc[k - 1]) THEN acc[k - 1]
                         ELSE Append(acc[k - 1], s[k])
           /\ Distinct(s) = acc[Len(s)]
<1> DEFINE n == Len(s)
           X == Seq(U)
           step == [p \in (1..n) \X X |->
                      IF s[p[1]] \in ToSet(p[2]) THEN p[2] ELSE Append(p[2], s[p[1]])]
           Is(it) == it = [ss \in SUBSET DOMAIN s |->
                             IF ss = {} THEN <<>>
                             ELSE IF s[Max(ss)] \in ToSet(it[ss \ {Max(ss)}])
                                  THEN it[ss \ {Max(ss)}]
                             ELSE Append(it[ss \ {Max(ss)}], s[Max(ss)])]
<1>1. n \in Nat /\ DOMAIN s = 1..n /\ <<>> \in X
  OBVIOUS
<1>2. IsStep(n, X, step)
  BY DEF IsStep
<1>3. PICK it : IsFold(n, X, <<>>, step, it)
  <2> HIDE DEF step, X, n
  <2> QED
    BY <1>1, <1>2, FoldExists
<1>4. /\ it \in [SUBSET (1..n) -> X]
      /\ \A ss \in SUBSET (1..n) :
           it[ss] = IF ss = {} THEN <<>> ELSE step[<<Max(ss), it[ss \ {Max(ss)}]>>]
  <2> HIDE DEF step, X, n
  <2> QED
    BY <1>3 DEF IsFold
<1>5. ASSUME NEW ss \in SUBSET (1..n), ss # {}
      PROVE  it[ss] = IF s[Max(ss)] \in ToSet(it[ss \ {Max(ss)}]) THEN it[ss \ {Max(ss)}]
                      ELSE Append(it[ss \ {Max(ss)}], s[Max(ss)])
  <2>1. Max(ss) \in 1..n
    BY <1>1, <1>5, MaxIsGreatest
  <2>2. it[ss \ {Max(ss)}] \in X
    BY <1>4
  <2> QED
    BY <1>4, <1>5, <2>1, <2>2
<1>6. Is(it)
  BY <1>1, <1>4, <1>5
<1>7. PICK got : Is(got) /\ Distinct(s) = got[DOMAIN s]
  <2>1. \E got : Is(got)
    BY <1>6
  <2> QED
    BY <2>1 DEF Distinct, FoldLeft, MapThenFoldSet
<1> DEFINE acc == [k \in 0..n |-> got[1..k]]
<1>8. acc[0] = <<>>
  <2>1. 1..0 = {} /\ 0 \in 0..n
    BY <1>1
  <2> QED
    BY <1>7, <2>1
<1>9. ASSUME NEW k \in 1..n
      PROVE  acc[k] = IF s[k] \in ToSet(acc[k - 1]) THEN acc[k - 1]
                      ELSE Append(acc[k - 1], s[k])
  <2>1. /\ 1..k \in SUBSET (1..n) /\ 1..k # {}
        /\ Max(1..k) = k /\ (1..k) \ {k} = 1..(k - 1)
    <3> HIDE DEF n
    <3> QED
      BY <1>1, UpToIsPrefix
  <2>2. acc[k] = got[1..k] /\ acc[k - 1] = got[1..(k - 1)]
    BY <1>1
  <2>3. got[1..k] = IF s[k] \in ToSet(got[1..(k - 1)])
                    THEN got[1..(k - 1)]
                    ELSE Append(got[1..(k - 1)], s[k])
    <3>1. PICK T, R : T = 1..k /\ R = 1..(k - 1)
      OBVIOUS
    <3>2. T \in SUBSET DOMAIN s /\ T # {} /\ Max(T) = k /\ T \ {k} = R
      BY <1>1, <2>1, <3>1
    <3>3. got[T] = IF s[Max(T)] \in ToSet(got[T \ {Max(T)}])
                   THEN got[T \ {Max(T)}]
                   ELSE Append(got[T \ {Max(T)}], s[Max(T)])
      BY <1>7, <3>2
    <3>4. got[T] = IF s[k] \in ToSet(got[R])
                   THEN got[R]
                   ELSE Append(got[R], s[k])
      BY <3>2, <3>3
    <3> QED
      BY <3>1, <3>4
  <2> HIDE DEF acc
  <2> QED
    BY <2>2, <2>3
<1>10. Distinct(s) = acc[n]
  <2>1. Distinct(s) = got[1..n] /\ n \in 0..n
    BY <1>1, <1>7
  <2> QED
    BY <2>1
<1> QED
  BY <1>8, <1>9, <1>10

\* What the folds of slug_candidates leave of a sequence is a sequence of the same.
LEMMA DistinctIsSeq ==
  ASSUME NEW U, NEW s \in Seq(U)
  PROVE  Distinct(s) \in Seq(U)
<1>1. PICK acc :
        /\ acc[0] = <<>>
        /\ \A k \in 1..Len(s) :
             acc[k] = IF s[k] \in ToSet(acc[k - 1]) THEN acc[k - 1]
                      ELSE Append(acc[k - 1], s[k])
        /\ Distinct(s) = acc[Len(s)]
  BY DistinctUnrolls
<1> DEFINE T == {k \in 0..Len(s) : acc[k] \in Seq(U)}
<1>2. 0 \in T
  <2>1. 0 \in 0..Len(s) /\ acc[0] \in Seq(U)
    BY <1>1
  <2> QED
    BY <2>1
<1>3. ASSUME NEW k \in 0..(Len(s) - 1), k \in T
      PROVE  k + 1 \in T
  <2>1. k + 1 \in 1..Len(s) /\ (k + 1) - 1 = k /\ s[k + 1] \in U
    OBVIOUS
  <2>2. PICK a, i : a = acc[k] /\ i = s[k + 1] /\ a \in Seq(U) /\ i \in U
    BY <1>3, <2>1
  <2>3. acc[k + 1] = IF i \in ToSet(a) THEN a ELSE Append(a, i)
    BY <1>1, <2>1, <2>2
  <2>4. acc[k + 1] \in Seq(U)
    BY <2>2, <2>3
  <2> QED
    BY <2>1, <2>4
<1>4. Len(s) \in T
  <2> HIDE DEF T
  <2>1. \A k \in 0..Len(s) : k \in T
    BY <1>2, <1>3, UpTo
  <2> QED
    BY <2>1
<1> QED
  BY <1>1, <1>4

\* The candidates made from a name are tokens, in a sequence.
Tokens(name) == {slug_candidates(name)[i] : i \in DOMAIN slug_candidates(name)}
LEMMA SlugsAreTokens ==
  ASSUME NEW name
  PROVE  /\ slug_candidates(name) \in Seq(Tokens(name))
         /\ \A i \in DOMAIN slug_candidates(name) : IsToken(slug_candidates(name)[i])
<1>1. \A w, sep : IsToken(Token(w, sep))
  BY DEF IsToken, Token
<1>2. PICK w, v : slug_candidates(name) = Spelled(w, v)
  BY DEF slug_candidates
<1>3. PICK a, b, c : a = Token(w, "") /\ b = Token(w, "-") /\ c = Token(v, "")
  OBVIOUS
<1>4. PICK x \in Seq({a, b, c}) :
        slug_candidates(name) = Firsts(Distinct(x), MAX_SLUG_CANDIDATES)
  <2>1. /\ <<>> \in Seq({a, b, c}) /\ <<a>> \in Seq({a, b, c})
        /\ <<b>> \in Seq({a, b, c}) /\ <<c>> \in Seq({a, b, c})
    OBVIOUS
  <2>2. \E l, m, n \in Seq({a, b, c}) :
          slug_candidates(name) = Firsts(Distinct(l \o m \o n), MAX_SLUG_CANDIDATES)
    BY <1>2, <1>3, <2>1, Zenon DEF Spelled
  <2>3. \A l, m, n \in Seq({a, b, c}) : l \o m \o n \in Seq({a, b, c})
    OBVIOUS
  <2> QED
    BY <2>2, <2>3
<1>5. PICK y : y = slug_candidates(name)
  OBVIOUS
<1>6. y \in Seq({a, b, c})
  BY <1>4, <1>5, DistinctIsSeq, FirstsIsSeq, BoardAssumption
<1>7. \A i \in DOMAIN y : y[i] \in {a, b, c}
  BY <1>6
<1>8. y \in Seq({y[i] : i \in DOMAIN y})
  BY <1>6
<1> QED
  BY <1>1, <1>3, <1>5, <1>7, <1>8 DEF Tokens

(***************************************************************************)
(* Answers                                                                 *)
(***************************************************************************)
BoardStates == {"none", "bare", "open"}
Kinds  == {"not_found"} \cup Failures \cup Payloads

\* An honest answer says what the board is.
LEMMA HonestAnswersSay ==
  ASSUME NEW p, p.source \in Sources, At(p) \in BoardStates
  PROVE  Outcome(p, Honest(p)) = At(p) /\ Honest(p).kind \in Kinds
<1>1. p.source \in {"greenhouse", "lever", "ashby"}
  BY DEF Sources, all_sources, ToSet
<1>2. CASE At(p) = "none"
  BY <1>1, <1>2 DEF Outcome, Honest, fetch, fetch_json, Answer, Kinds
<1>3. CASE At(p) = "bare"
  <2>1. ~Usable(p.source, {"id", "title"})
    BY <1>1 DEF Usable, Texts
  <2>2. Honest(p).kind \in {"jobs", "list"} /\ Honest(p).postings = <<{"id", "title"}>>
    BY <1>3, Zenon DEF Honest, Answer
  <2>3. {i \in DOMAIN Honest(p).postings : Usable(p.source, Honest(p).postings[i])} = {}
    BY <2>1, <2>2
  <2>4. Honest(p).kind = IF p.source = "lever" THEN "list" ELSE "jobs"
    BY <1>3 DEF Honest, Answer
  <2> QED
    BY <1>1, <1>3, <2>3, <2>4 DEF Outcome, fetch, fetch_json, Failures, Payloads, Kinds
<1>4. CASE At(p) = "open"
  <2>1. PICK offered : offered = {"id", "title"} \cup Texts[p.source]
    OBVIOUS
  <2>2. Usable(p.source, offered)
    BY <1>1, <2>1 DEF Usable, Texts
  <2>3. /\ Honest(p).postings = <<{"id", "title"}, offered>>
        /\ Honest(p).kind = IF p.source = "lever" THEN "list" ELSE "jobs"
    BY <1>4, <2>1 DEF Honest, Answer
  <2>4. 2 \in {i \in DOMAIN Honest(p).postings : Usable(p.source, Honest(p).postings[i])}
    BY <2>2, <2>3
  <2> QED
    BY <1>1, <1>4, <2>3, <2>4 DEF Outcome, fetch, fetch_json, Failures, Payloads, Kinds
<1> QED
  BY <1>2, <1>3, <1>4 DEF BoardStates

\* What the probe of a source does not take for a board lists no role of it.
LEMMA ProbeMissesNoRole ==
  ASSUME NEW p, p.source \in Sources, NEW answer, answer.kind \in Kinds,
         ~probe(p.source, answer)
  PROVE  Outcome(p, answer) \in {"none", "bare"}
<1>1. p.source \in {"greenhouse", "lever", "ashby"}
  BY DEF Sources, all_sources, ToSet
<1> QED
  BY <1>1 DEF Outcome, fetch, fetch_json, probe, Kinds, Failures, Payloads

LEMMA OutcomeIsState ==
  ASSUME NEW p, NEW answer PROVE Outcome(p, answer) \in BoardStates
BY DEF Outcome, BoardStates

(***************************************************************************)
(* Forms.  What holds of one that has seen what it has                     *)
(***************************************************************************)
FoundItems == UNION {ToSet(a[i].items) : a \in SearchAnswers, i \in 1..3}

IsForm(x) ==
  x \in [stage : {x.stage}, query : {x.query}, slug : {x.slug}, asked : {x.asked},
         hits : {x.hits}, found : {x.found}, next : {x.next}, offer : {x.offer}]
IsTyped(x) ==
  /\ x.stage \in FormStages
  /\ x.stage # "empty" => x.query \in Queries
  /\ x.asked \subseteq Sources /\ x.hits \subseteq x.asked
  /\ x.stage = "probe" => x.slug \in DOMAIN SlugsOf[x.query]
  /\ x.found \in Seq(FoundItems)
  /\ x.next \in 1..(Len(x.found) + 1)

\* What a board has been, and what may be passed over: the board of the URL, a
\* candidate i at the source j, and a result.
SeenAs(known, p, was) ==
  IF p \in Places THEN <<p, was>> \in known ELSE was = "none" \/ <<p, was>> \in known
SeenMissing(known, p)     == SeenAs(known, p, "none") \/ SeenAs(known, p, "bare")
UrlPassed(q, known)       == \A p \in ToSet(UrlPlace(q)) : SeenAs(known, p, "none")
SlugPlace(q, i, j)       == Place(all_sources[j], SlugsOf[q][i])
SlugPassed(q, known, i) ==
  \A j \in DOMAIN all_sources : SeenMissing(known, SlugPlace(q, i, j))
SlugsPassed(q, known)     == \A i \in DOMAIN SlugsOf[q] : SlugPassed(q, known, i)
ResultPassed(f, known, i) == \A p \in ToSet(board_from_url(f[i].page)) : SeenMissing(known, p)

\* Why a board may be offered, for each of the three tiers.
ByUrl(x, known, p, via) ==
  /\ via = "url" /\ UrlPlace(x.query) = <<p>>
  /\ SeenAs(known, p, "open") \/ SeenAs(known, p, "bare")
ByProbe(x, known, p) ==
  /\ SeenAs(known, p, "open") /\ UrlPassed(x.query, known)
  /\ \E i \in DOMAIN SlugsOf[x.query], j \in DOMAIN all_sources :
       /\ p = SlugPlace(x.query, i, j)
       /\ \A k \in 1..(i - 1) : SlugPassed(x.query, known, k)
       /\ \A k \in 1..(j - 1) : SeenMissing(known, SlugPlace(x.query, i, k))
BySearch(x, known, p) ==
  /\ SeenAs(known, p, "open") /\ UrlPassed(x.query, known) /\ SlugsPassed(x.query, known)
  /\ \E i \in DOMAIN x.found :
       /\ board_from_url(x.found[i].page) = <<p>>
       /\ \A k \in 1..(i - 1) : ResultPassed(x.found, known, k)
Sound(x, known, p, via) ==
  IsBoard(p) /\ (ByUrl(x, known, p, via) \/ ByProbe(x, known, p) \/ BySearch(x, known, p))

\* What a form has passed over by the time it is in a stage.
FormInv(x, known) ==
  /\ x.stage = "url" => UrlPlace(x.query) # <<>>
  /\ x.stage \in {"url", "probe", "search"} => x.found = <<>>
  /\ x.stage \in {"probe", "search", "results", "refused"} => UrlPassed(x.query, known)
  /\ x.stage = "probe" =>
       /\ \A i \in 1..(x.slug - 1) : SlugPassed(x.query, known, i)
       /\ \A j \in DOMAIN all_sources :
            all_sources[j] \in x.asked \ x.hits =>
              SeenMissing(known, SlugPlace(x.query, x.slug, j))
  /\ x.stage \in {"search", "results", "refused"} => SlugsPassed(x.query, known)
  /\ x.stage = "results" => \A i \in 1..(x.next - 1) : ResultPassed(x.found, known, i)
  /\ x.stage = "refused" => \A i \in DOMAIN x.found : ResultPassed(x.found, known, i)
  /\ x.stage = "offered" =>
       \E p, via : x.offer = <<p, via>> /\ Sound(x, known, p, via)

\* A form that waits has seen what every board is now.
Watches(x, known, boards) ==
  x.stage \in Waiting => \A p \in Places : <<p, boards[p]>> \in known

\* Who has seen more has seen what it had seen.
LEMMA MoreIsSeen ==
  ASSUME NEW x, NEW known, NEW more, known \subseteq more, FormInv(x, known)
  PROVE  FormInv(x, more)
<1>1. \A p, was : SeenAs(known, p, was) => SeenAs(more, p, was)
  BY DEF SeenAs
<1>2. \A p : SeenMissing(known, p) => SeenMissing(more, p)
  BY <1>1 DEF SeenMissing
<1>3. \A q : UrlPassed(q, known) => UrlPassed(q, more)
  BY <1>1 DEF UrlPassed
<1>4. \A q, i : SlugPassed(q, known, i) => SlugPassed(q, more, i)
  BY <1>2 DEF SlugPassed
<1>5. \A q : SlugsPassed(q, known) => SlugsPassed(q, more)
  BY <1>4 DEF SlugsPassed
<1>6. \A f, i : ResultPassed(f, known, i) => ResultPassed(f, more, i)
  BY <1>2 DEF ResultPassed
<1>7. \A p, via : Sound(x, known, p, via) => Sound(x, more, p, via)
  <2> SUFFICES ASSUME NEW p, NEW via, Sound(x, known, p, via) PROVE Sound(x, more, p, via)
    OBVIOUS
  <2>1. ByUrl(x, known, p, via) => ByUrl(x, more, p, via)
    BY <1>1, Zenon DEF ByUrl
  <2>2. ByProbe(x, known, p) => ByProbe(x, more, p)
    BY <1>1, <1>2, <1>3, <1>4, Zenon DEF ByProbe
  <2>3. BySearch(x, known, p) => BySearch(x, more, p)
    BY <1>1, <1>3, <1>5, <1>6, Zenon DEF BySearch
  <2> QED
    BY <2>1, <2>2, <2>3 DEF Sound
<1> QED
  BY <1>2, <1>3, <1>4, <1>5, <1>6, <1>7, Zenon DEF FormInv

\* A stage begins with the query and the results, and nothing else.
LEMMA TurnedIsForm ==
  ASSUME NEW x, NEW s
  PROVE  /\ IsForm(Turned(x, s))
         /\ Turned(x, s).stage = s /\ Turned(x, s).query = x.query
         /\ Turned(x, s).found = x.found /\ Turned(x, s).slug = 1
         /\ Turned(x, s).asked = {} /\ Turned(x, s).hits = {} /\ Turned(x, s).next = 1
<1> DEFINE y == Turned(x, s)
<1>1. y \in [stage : {s}, query : {x.query}, slug : {1}, asked : {{}}, hits : {{}},
             found : {x.found}, next : {1}, offer : {<<>>}]
  BY DEF Turned, Nothing
<1> HIDE DEF y
<1>2. /\ y.stage = s /\ y.query = x.query /\ y.found = x.found /\ y.slug = 1
      /\ y.asked = {} /\ y.hits = {} /\ y.next = 1 /\ y.offer = <<>>
  BY <1>1
<1> QED
  BY <1>1, <1>2 DEF IsForm, y

\* The values a form in a stage must have for the invariant, put together.
FormOK(x, known, boards) ==
  IsForm(x) /\ IsTyped(x) /\ FormInv(x, known) /\ Watches(x, known, boards)

\* The second tier begins, or the third if there are no candidates, when the board of
\* the URL was not to be read.
LEMMA ProbingIsSound ==
  ASSUME NEW x, NEW known, NEW boards, x.query \in Queries, x.found = <<>>,
         UrlPassed(x.query, known), \A p \in Places : <<p, boards[p]>> \in known
  PROVE  FormOK(Probing(x), known, boards)
<1>1. PICK s : s = IF SlugsOf[x.query] = <<>> THEN "search" ELSE "probe"
  OBVIOUS
<1>2. PICK y : y = Turned(x, s)
  OBVIOUS
<1>3. /\ IsForm(y) /\ y.stage = s /\ y.query = x.query /\ y.found = <<>> /\ y.slug = 1
      /\ y.asked = {} /\ y.hits = {} /\ y.next = 1
  BY <1>2, TurnedIsForm
<1>4. SlugsOf[x.query] \in Seq(Tokens(x.query.name))
  BY SlugsAreTokens DEF SlugsOf
<1>5. s = "probe" => 1 \in DOMAIN SlugsOf[x.query]
  BY <1>1, <1>4
<1>6. s = "search" => SlugsPassed(x.query, known)
  BY <1>1 DEF SlugsPassed
<1>7. s \in {"search", "probe"}
  BY <1>1
<1>8. IsTyped(y)
  <2>1. s \in FormStages /\ <<>> \in Seq(FoundItems) /\ 1 \in 1..(Len(<<>>) + 1)
    BY <1>7 DEF FormStages, Waiting
  <2> QED
    BY <1>3, <1>5, <1>7, <2>1 DEF IsTyped
<1>9. FormInv(y, known)
  <2>1. 1..(1 - 1) = {}
    OBVIOUS
  <2> QED
    BY <1>3, <1>6, <1>7, <2>1 DEF FormInv
<1>10. FormOK(y, known, boards)
  BY <1>3, <1>8, <1>9 DEF FormOK, Watches
<1> QED
  BY <1>1, <1>2, <1>10 DEF Probing

\* A board is offered for one of the three reasons.
LEMMA OfferIsSound ==
  ASSUME NEW x, IsTyped(x), x.stage # "empty", NEW known, NEW boards, NEW p, NEW via,
         Sound(x, known, p, via)
  PROVE  FormOK([Turned(x, "offered") EXCEPT !.offer = <<p, via>>], known, boards)
<1>1. PICK w : w = Turned(x, "offered")
  OBVIOUS
<1>2. /\ IsForm(w) /\ w.stage = "offered" /\ w.query = x.query /\ w.found = x.found
      /\ w.asked = {} /\ w.hits = {} /\ w.next = 1
  BY <1>1, TurnedIsForm
<1>3. PICK y : y = [w EXCEPT !.offer = <<p, via>>]
  OBVIOUS
<1>4. y \in [stage : {w.stage}, query : {w.query}, slug : {w.slug}, asked : {w.asked},
             hits : {w.hits}, found : {w.found}, next : {w.next}, offer : {<<p, via>>}]
  BY <1>2, <1>3 DEF IsForm
<1>5. /\ y.stage = "offered" /\ y.query = x.query /\ y.slug = w.slug /\ y.asked = {}
      /\ y.hits = {} /\ y.found = x.found /\ y.next = 1 /\ y.offer = <<p, via>>
  BY <1>2, <1>4
<1>6. IsForm(y)
  BY <1>2, <1>4, <1>5 DEF IsForm
<1>7. IsTyped(y)
  <2>1. "offered" \in FormStages /\ "offered" # "probe"
    BY DEF FormStages
  <2>2. x.found \in Seq(FoundItems) /\ 1 \in 1..(Len(x.found) + 1) /\ x.query \in Queries
    BY DEF IsTyped
  <2> QED
    BY <1>5, <2>1, <2>2 DEF IsTyped
<1>8. Sound(y, known, p, via)
  BY <1>5 DEF Sound, ByUrl, ByProbe, BySearch
<1>9. FormInv(y, known)
  BY <1>5, <1>8 DEF FormInv
<1>10. Watches(y, known, boards)
  BY <1>5 DEF Watches, Waiting
<1> QED
  BY <1>1, <1>3, <1>6, <1>7, <1>9, <1>10 DEF FormOK

\* Nothing is found when nothing is left.
LEMMA RefusalIsSound ==
  ASSUME NEW x, IsTyped(x), x.stage # "empty", NEW known, NEW boards,
         NEW s \in {"refused", "failed"},
         s = "refused" => /\ UrlPassed(x.query, known) /\ SlugsPassed(x.query, known)
                          /\ \A i \in DOMAIN x.found : ResultPassed(x.found, known, i)
  PROVE  FormOK(Turned(x, s), known, boards)
<1>1. PICK y : y = Turned(x, s)
  OBVIOUS
<1>2. /\ IsForm(y) /\ y.stage = s /\ y.query = x.query /\ y.found = x.found
      /\ y.asked = {} /\ y.hits = {} /\ y.next = 1
  BY <1>1, TurnedIsForm
<1>3. IsTyped(y)
  <2>1. s \in FormStages /\ s # "probe"
    BY DEF FormStages
  <2>2. x.found \in Seq(FoundItems) /\ 1 \in 1..(Len(x.found) + 1) /\ x.query \in Queries
    BY DEF IsTyped
  <2> QED
    BY <1>2, <2>1, <2>2 DEF IsTyped
<1>4. FormInv(y, known)
  BY <1>2 DEF FormInv
<1>5. Watches(y, known, boards)
  BY <1>2 DEF Watches, Waiting
<1> QED
  BY <1>1, <1>2, <1>3, <1>4, <1>5 DEF FormOK

(***************************************************************************)
(* The inductive invariant, and what keeps it                              *)
(***************************************************************************)
CountsInv ==
  /\ listing \in [Places -> BoardStates]
  /\ faults \in 0..MaxFaults /\ changes \in 0..MaxChanges /\ submits \in 0..MaxSubmits
FormsInv ==
  /\ tab = [t \in Tabs |-> tab[t]] /\ observed = [t \in Tabs |-> observed[t]]
  /\ \A t \in Tabs : FormOK(tab[t], observed[t], listing)
BoardsInv == CountsInv /\ FormsInv /\ \A p \in watched : IsBoard(p)

\* No form has seen less than before.
SeesMore == /\ observed' = [t \in Tabs |-> observed'[t]]
            /\ \A t \in Tabs : observed[t] \subseteq observed'[t]

\* One form changes, and the others see more.
LEMMA OneFormChanges ==
  ASSUME FormsInv, NEW t \in Tabs, NEW y, tab' = [tab EXCEPT ![t] = y], listing' = listing,
         observed' = [u \in Tabs |-> observed'[u]],
         \A u \in Tabs \ {t} : observed[u] \subseteq observed'[u],
         FormOK(y, observed'[t], listing)
  PROVE  FormsInv'
<1>1. /\ tab' = [u \in Tabs |-> tab'[u]]
      /\ \A u \in Tabs : tab'[u] = IF u = t THEN y ELSE tab[u]
  BY DEF FormsInv
<1>2. ASSUME NEW u \in Tabs \ {t} PROVE FormOK(tab[u], observed'[u], listing)
  <2>1. FormOK(tab[u], observed[u], listing)
    BY DEF FormsInv
  <2>2. FormInv(tab[u], observed'[u])
    BY <2>1, MoreIsSeen DEF FormOK
  <2>3. Watches(tab[u], observed'[u], listing)
    BY <2>1 DEF FormOK, Watches
  <2> QED
    BY <2>1, <2>2, <2>3 DEF FormOK
<1>3. \A u \in Tabs : FormOK(tab'[u], observed'[u], listing')
  BY <1>1, <1>2
<1> QED
  BY <1>1, <1>3 DEF FormsInv

\* The API was asked for p, and answered.
Told(p, answer) ==
  \/ answer = Honest(p) /\ UNCHANGED <<faults, observed>>
  \/ /\ faults < MaxFaults /\ answer \in BadAnswers
     /\ observed' = Seen(p, Outcome(p, answer))
     /\ faults' = faults + 1

\* Whatever it answers, it is seen, and said of the board.
LEMMA RepliesAreSeen ==
  ASSUME BoardsInv, NEW t \in Tabs, tab[t].stage \in Waiting,
         NEW p, p.source \in Sources, NEW answer, Told(p, answer)
  PROVE  /\ SeesMore /\ faults' \in 0..MaxFaults /\ answer.kind \in Kinds
         /\ SeenAs(observed'[t], p, Outcome(p, answer))
         /\ \A q \in Places : <<q, listing[q]>> \in observed'[t]
<1>0. /\ observed = [u \in Tabs |-> observed[u]] /\ listing \in [Places -> BoardStates]
      /\ faults \in 0..MaxFaults /\ MaxFaults \in Nat
      /\ \A q \in Places : <<q, listing[q]>> \in observed[t]
  BY BoardAssumption DEF BoardsInv, CountsInv, FormsInv, FormOK, Watches
<1>1. CASE answer = Honest(p) /\ UNCHANGED <<faults, observed>>
  <2>1. At(p) \in BoardStates
    BY <1>0 DEF At, BoardStates
  <2>2. Outcome(p, answer) = At(p) /\ answer.kind \in Kinds
    BY <1>1, <2>1, HonestAnswersSay
  <2>3. SeenAs(observed[t], p, At(p))
    BY <1>0 DEF SeenAs, At
  <2> QED
    BY <1>0, <1>1, <2>2, <2>3 DEF SeesMore
<1>2. CASE /\ faults < MaxFaults /\ answer \in BadAnswers
           /\ observed' = Seen(p, Outcome(p, answer))
           /\ faults' = faults + 1
  <2>1. PICK o : o = Outcome(p, answer)
    OBVIOUS
  <2>2. /\ observed' = [u \in Tabs |-> observed'[u]]
        /\ \A u \in Tabs : observed[u] \subseteq observed'[u]
        /\ observed'[t] = observed[t] \cup {<<p, o>>}
    BY <1>2, <2>1 DEF Seen
  <2>3. SeenAs(observed'[t], p, o)
    BY <2>2 DEF SeenAs
  <2>4. answer.kind \in Kinds
    BY <1>2, BoardAssumption DEF Kinds
  <2> QED
    BY <1>0, <1>2, <2>1, <2>2, <2>3, <2>4 DEF SeesMore
<1> QED
  BY <1>1, <1>2 DEF Told

\* A form that waits, and what holds of it.
LEMMA FormInStage ==
  ASSUME BoardsInv, NEW t \in Tabs, tab[t].stage \in Waiting
  PROVE  /\ IsForm(tab[t]) /\ IsTyped(tab[t]) /\ FormInv(tab[t], observed[t])
         /\ tab[t].stage # "empty" /\ tab[t].query \in Queries
BY DEF BoardsInv, FormsInv, FormOK, IsTyped, Waiting

\* A query is submitted.
LEMMA SubmitIsSound ==
  ASSUME BoardsInv, NEW t \in Tabs, Submit(t) PROVE BoardsInv'
<1>1. PICK q \in Queries :
        tab' = [tab EXCEPT ![t] = IF UrlPlace(q) = <<>>
                                  THEN Probing([Nothing EXCEPT !.query = q])
                                  ELSE [[Nothing EXCEPT !.query = q] EXCEPT !.stage = "url"]]
  BY DEF Submit
<1>2. PICK new : new = [Nothing EXCEPT !.query = q]
  OBVIOUS
<1>3. new \in [stage : {"empty"}, query : {q}, slug : {1}, asked : {{}}, hits : {{}},
               found : {<<>>}, next : {1}, offer : {<<>>}]
  BY <1>2 DEF Nothing
<1>4. /\ observed' = [u \in Tabs |-> observed'[u]]
      /\ \A u \in Tabs \ {t} : observed[u] \subseteq observed'[u]
      /\ \A p \in Places : <<p, listing[p]>> \in observed'[t]
      /\ listing' = listing /\ watched' = watched /\ faults' = faults /\ changes' = changes
      /\ submits' = submits + 1 /\ submits < MaxSubmits
  BY DEF Submit, BoardsInv, FormsInv
<1>5. CountsInv'
  BY <1>4, BoardAssumption DEF BoardsInv, CountsInv
<1>6. CASE UrlPlace(q) = <<>>
  <2>1. UrlPassed(q, observed'[t])
    BY <1>6 DEF UrlPassed, ToSet
  <2>2. new.query = q /\ new.found = <<>>
    BY <1>3
  <2>3. FormOK(Probing(new), observed'[t], listing)
    BY <1>4, <2>1, <2>2, ProbingIsSound
  <2>4. tab' = [tab EXCEPT ![t] = Probing(new)]
    BY <1>1, <1>2, <1>6
  <2>5. FormsInv'
    BY <1>4, <2>3, <2>4, OneFormChanges DEF BoardsInv
  <2> QED
    BY <1>4, <1>5, <2>5 DEF BoardsInv
<1>7. CASE UrlPlace(q) # <<>>
  <2>1. PICK y : y = [new EXCEPT !.stage = "url"]
    OBVIOUS
  <2>2. y \in [stage : {"url"}, query : {q}, slug : {1}, asked : {{}}, hits : {{}},
               found : {<<>>}, next : {1}, offer : {<<>>}]
    BY <1>3, <2>1
  <2>3. /\ y.stage = "url" /\ y.query = q /\ y.slug = 1 /\ y.asked = {} /\ y.hits = {}
        /\ y.found = <<>> /\ y.next = 1 /\ y.offer = <<>>
    BY <2>2
  <2>4. IsForm(y)
    BY <2>2, <2>3 DEF IsForm
  <2>5. IsTyped(y)
    <3>1. "url" \in FormStages /\ <<>> \in Seq(FoundItems) /\ 1 \in 1..(Len(<<>>) + 1)
      BY DEF FormStages, Waiting
    <3> QED
      BY <2>3, <3>1 DEF IsTyped
  <2>6. FormOK(y, observed'[t], listing)
    BY <1>4, <1>7, <2>3, <2>4, <2>5 DEF FormOK, FormInv, Watches
  <2>7. tab' = [tab EXCEPT ![t] = y]
    BY <1>1, <1>2, <1>7, <2>1
  <2>8. FormsInv'
    BY <1>4, <2>6, <2>7, OneFormChanges DEF BoardsInv
  <2> QED
    BY <1>4, <1>5, <2>8 DEF BoardsInv
<1> QED
  BY <1>6, <1>7

\* What is left to show of a step that asks the API for a board.
LEMMA AskingIsSound ==
  ASSUME BoardsInv, NEW t \in Tabs, NEW y, tab' = [tab EXCEPT ![t] = y],
         UNCHANGED <<listing, watched, changes, submits>>, SeesMore,
         faults' \in 0..MaxFaults, FormOK(y, observed'[t], listing)
  PROVE  BoardsInv'
<1>1. CountsInv'
  BY DEF BoardsInv, CountsInv
<1>2. FormsInv'
  BY OneFormChanges DEF BoardsInv, SeesMore
<1> QED
  BY <1>1, <1>2 DEF BoardsInv

\* The board of the URL is asked for.
LEMMA AskUrlIsSound ==
  ASSUME BoardsInv, NEW t \in Tabs, AskUrl(t) PROVE BoardsInv'
<1>0. tab[t].stage = "url" /\ "url" \in Waiting
  BY DEF AskUrl, Waiting
<1>1. /\ IsForm(tab[t]) /\ IsTyped(tab[t]) /\ FormInv(tab[t], observed[t])
      /\ tab[t].stage # "empty" /\ tab[t].query \in Queries
  BY <1>0, FormInStage
<1>2. UrlPlace(tab[t].query) # <<>> /\ tab[t].found = <<>>
  BY <1>0, <1>1 DEF FormInv
<1>3. PICK p : UrlPlace(tab[t].query) = <<p>> /\ IsBoard(p)
  BY <1>2, UrlPlaceIsABoard
<1>4. PICK answer :
        /\ Told(p, answer)
        /\ tab' = [tab EXCEPT ![t] = IF Outcome(p, answer) = "none" THEN Probing(tab[t])
                                     ELSE Found(t, p, "url")]
  <2>1. UrlPlace(tab[t].query)[1] = p
    BY <1>3
  <2>2. tab = [u \in Tabs |-> tab[u]]
    BY DEF BoardsInv, FormsInv
  <2> QED
    BY <2>1, <2>2 DEF AskUrl, Replies, Told
<1>5. UNCHANGED <<listing, watched, changes, submits>> /\ p.source \in Sources
  BY <1>3 DEF AskUrl, IsBoard
<1>6. /\ SeesMore /\ faults' \in 0..MaxFaults
      /\ SeenAs(observed'[t], p, Outcome(p, answer))
      /\ \A q \in Places : <<q, listing[q]>> \in observed'[t]
  BY <1>0, <1>4, <1>5, RepliesAreSeen
<1>7. CASE Outcome(p, answer) = "none"
  <2>1. UrlPassed(tab[t].query, observed'[t])
    BY <1>3, <1>6, <1>7 DEF UrlPassed, ToSet
  <2>2. FormOK(Probing(tab[t]), observed'[t], listing)
    BY <1>1, <1>2, <1>6, <2>1, ProbingIsSound
  <2>3. tab' = [tab EXCEPT ![t] = Probing(tab[t])]
    BY <1>4, <1>7
  <2> QED
    BY <1>5, <1>6, <2>2, <2>3, AskingIsSound
<1>8. CASE Outcome(p, answer) # "none"
  <2>1. Outcome(p, answer) \in {"bare", "open"}
    BY <1>8, OutcomeIsState DEF BoardStates
  <2>2. Sound(tab[t], observed'[t], p, "url")
    BY <1>3, <1>6, <2>1 DEF Sound, ByUrl
  <2>3. FormOK(Found(t, p, "url"), observed'[t], listing)
    BY <1>1, <2>2, OfferIsSound DEF Found
  <2>4. tab' = [tab EXCEPT ![t] = Found(t, p, "url")]
    BY <1>4, <1>8
  <2> QED
    BY <1>5, <1>6, <2>3, <2>4, AskingIsSound
<1> QED
  BY <1>7, <1>8

\* The candidate that is tried at a source is the token of a board.
LEMMA SlugPlaceIsABoard ==
  ASSUME NEW x, IsTyped(x), x.stage = "probe", NEW s \in Sources
  PROVE  IsBoard(Place(s, SlugsOf[x.query][x.slug]))
<1>1. x.query \in Queries /\ x.slug \in DOMAIN SlugsOf[x.query]
  BY DEF IsTyped
<1>2. SlugsOf[x.query] = slug_candidates(x.query.name)
  BY <1>1 DEF SlugsOf
<1>3. IsToken(SlugsOf[x.query][x.slug])
  BY <1>1, <1>2, SlugsAreTokens
<1> QED
  BY <1>3 DEF IsBoard, Place

\* A form that probes: what it has asked and who has answered.
LEMMA ProbeIsForm ==
  ASSUME NEW x, IsForm(x), IsTyped(x), x.stage = "probe", NEW known, NEW boards,
         FormInv(x, known), \A p \in Places : <<p, boards[p]>> \in known,
         NEW A \in SUBSET Sources, NEW H \in SUBSET A, NEW i \in DOMAIN SlugsOf[x.query],
         \A k \in 1..(i - 1) : SlugPassed(x.query, known, k),
         \A j \in DOMAIN all_sources :
           all_sources[j] \in A \ H => SeenMissing(known, SlugPlace(x.query, i, j)),
         NEW y, y = [x EXCEPT !.asked = A, !.hits = H, !.slug = i]
  PROVE  FormOK(y, known, boards)
<1>1. /\ y.stage = "probe" /\ y.query = x.query /\ y.slug = i /\ y.asked = A /\ y.hits = H
      /\ y.found = x.found /\ y.next = x.next /\ IsForm(y)
  <2>1. y \in [stage : {x.stage}, query : {x.query}, slug : {i}, asked : {A}, hits : {H},
               found : {x.found}, next : {x.next}, offer : {x.offer}]
    BY DEF IsForm
  <2>2. /\ y.stage = x.stage /\ y.query = x.query /\ y.slug = i /\ y.asked = A /\ y.hits = H
        /\ y.found = x.found /\ y.next = x.next /\ y.offer = x.offer
    BY <2>1
  <2> QED
    BY <2>1, <2>2 DEF IsForm
<1>2. IsTyped(y)
  BY <1>1 DEF IsTyped
<1>3. FormInv(y, known)
  BY <1>1 DEF FormInv
<1> QED
  BY <1>1, <1>2, <1>3 DEF FormOK, Watches

\* A source is probed with the candidate.
LEMMA ProbeIsSound ==
  ASSUME BoardsInv, NEW t \in Tabs, NEW s \in Sources, Probe(t, s) PROVE BoardsInv'
<1>0. tab[t].stage = "probe" /\ "probe" \in Waiting /\ s \notin tab[t].asked
  BY DEF Probe, Waiting
<1> DEFINE x == tab[t]
           q == tab[t].query
<1>1. /\ IsForm(x) /\ IsTyped(x) /\ FormInv(x, observed[t])
      /\ x.query \in Queries
  BY <1>0, FormInStage
<1>2. PICK p : p = Place(s, SlugsOf[q][x.slug])
  OBVIOUS
<1>3. p.source = s /\ p.source \in Sources
  BY <1>2 DEF Place
<1>4. PICK answer :
        /\ Told(p, answer)
        /\ tab' = [tab EXCEPT ![t] =
             [x EXCEPT !.asked = x.asked \cup {s},
                       !.hits = IF probe(s, answer) THEN x.hits \cup {s} ELSE x.hits]]
  <2>1. tab = [u \in Tabs |-> tab[u]]
    BY DEF BoardsInv, FormsInv
  <2> QED
    BY <1>1, <1>2, <2>1 DEF Probe, Replies, Told, Slugs, IsForm
<1>5. UNCHANGED <<listing, watched, changes, submits>>
  BY DEF Probe
<1>6. /\ SeesMore /\ faults' \in 0..MaxFaults /\ answer.kind \in Kinds
      /\ SeenAs(observed'[t], p, Outcome(p, answer))
      /\ \A r \in Places : <<r, listing[r]>> \in observed'[t]
  BY <1>0, <1>3, <1>4, RepliesAreSeen
<1>7. PICK A, H :
        /\ A = x.asked \cup {s}
        /\ H = IF probe(s, answer) THEN x.hits \cup {s} ELSE x.hits
  OBVIOUS
<1>8. A \in SUBSET Sources /\ H \in SUBSET A /\ x.slug \in DOMAIN SlugsOf[q]
  BY <1>0, <1>1, <1>7 DEF IsTyped
<1>9. FormInv(x, observed'[t])
  BY <1>1, <1>6, MoreIsSeen DEF SeesMore
<1>10. ASSUME NEW j \in DOMAIN all_sources, all_sources[j] \in A \ H
       PROVE  SeenMissing(observed'[t], SlugPlace(q, x.slug, j))
  <2>1. CASE all_sources[j] # s
    BY <1>0, <1>7, <1>9, <1>10, <2>1 DEF FormInv
  <2>2. CASE all_sources[j] = s
    <3>1. ~probe(s, answer)
      BY <1>7, <1>10, <2>2
    <3>2. Outcome(p, answer) \in {"none", "bare"}
      BY <1>3, <1>6, <3>1, ProbeMissesNoRole
    <3>3. SlugPlace(q, x.slug, j) = p
      BY <1>2, <2>2 DEF SlugPlace
    <3> QED
      BY <1>6, <3>2, <3>3 DEF SeenMissing
  <2> QED
    BY <2>1, <2>2
<1>11. PICK y : y = [x EXCEPT !.asked = A, !.hits = H]
  OBVIOUS
<1>12. y = [x EXCEPT !.asked = A, !.hits = H, !.slug = x.slug]
  BY <1>1, <1>11 DEF IsForm
<1>13. \A k \in 1..(x.slug - 1) : SlugPassed(q, observed'[t], k)
  BY <1>0, <1>9 DEF FormInv
<1>14. FormOK(y, observed'[t], listing)
  <2> QED
    BY <1>0, <1>1, <1>6, <1>8, <1>9, <1>10, <1>12, <1>13, ProbeIsForm
<1> QED
  BY <1>4, <1>5, <1>6, <1>7, <1>11, <1>14, AskingIsSound

\* The roles of the first source that answered are counted.
LEMMA CountProbedIsSound ==
  ASSUME BoardsInv, NEW t \in Tabs, CountProbed(t) PROVE BoardsInv'
<1>0. /\ tab[t].stage = "probe" /\ "probe" \in Waiting
      /\ tab[t].asked = Sources /\ tab[t].hits # {}
  BY DEF CountProbed, Waiting
<1> DEFINE x == tab[t]
           q == tab[t].query
<1>1. /\ IsForm(x) /\ IsTyped(x) /\ FormInv(x, observed[t])
      /\ x.stage # "empty" /\ x.query \in Queries
  BY <1>0, FormInStage
<1>2. x.hits \in SUBSET Sources /\ x.slug \in DOMAIN SlugsOf[q]
  BY <1>0, <1>1 DEF IsTyped
<1>3. PICK j \in DOMAIN all_sources :
        /\ FirstOf(x.hits) = all_sources[j] /\ all_sources[j] \in x.hits
        /\ \A k \in 1..(j - 1) : all_sources[k] \notin x.hits
  BY <1>0, <1>2, FirstOfIsFirst
<1>4. PICK s, p : s = all_sources[j] /\ p = Place(s, SlugsOf[q][x.slug])
  OBVIOUS
<1>5. /\ s \in x.hits /\ s \in Sources /\ p.source \in Sources
      /\ IsBoard(p) /\ p = SlugPlace(q, x.slug, j)
  <2>1. s \in x.hits /\ s \in Sources
    BY <1>2, <1>3, <1>4
  <2> QED
    BY <1>0, <1>1, <1>4, <2>1, SlugPlaceIsABoard DEF Place, SlugPlace
<1>6. PICK answer :
        /\ Told(p, answer)
        /\ tab' = [tab EXCEPT ![t] = IF HasRoles(Outcome(p, answer)) THEN Found(t, p, "probe")
                                     ELSE [tab[t] EXCEPT !.hits = @ \ {s}]]
  <2>1. Slugs(t) = SlugsOf[q] /\ FirstOf(tab[t].hits) = s
    BY <1>3, <1>4 DEF Slugs
  <2> QED
    BY <1>4, <2>1 DEF CountProbed, Replies, Told
<1>7. UNCHANGED <<listing, watched, changes, submits>>
  BY DEF CountProbed
<1>8. /\ SeesMore /\ faults' \in 0..MaxFaults
      /\ SeenAs(observed'[t], p, Outcome(p, answer))
      /\ \A r \in Places : <<r, listing[r]>> \in observed'[t]
  BY <1>0, <1>5, <1>6, RepliesAreSeen
<1>9. FormInv(x, observed'[t])
  BY <1>1, <1>8, MoreIsSeen DEF SeesMore
<1>10. /\ UrlPassed(q, observed'[t])
       /\ \A k \in 1..(x.slug - 1) : SlugPassed(q, observed'[t], k)
       /\ \A k \in DOMAIN all_sources :
            all_sources[k] \notin x.hits => SeenMissing(observed'[t], SlugPlace(q, x.slug, k))
  <2>1. \A k \in DOMAIN all_sources : all_sources[k] \in Sources
    BY DEF Sources, ToSet
  <2> QED
    BY <1>0, <1>9, <2>1 DEF FormInv
<1>11. CASE Outcome(p, answer) = "open"
  <2>1. \A k \in 1..(j - 1) : SeenMissing(observed'[t], SlugPlace(q, x.slug, k))
    <3>1. DOMAIN all_sources = 1..3
      BY DEF all_sources
    <3>2. \A k \in 1..(j - 1) : k \in DOMAIN all_sources
      BY <3>1
    <3> QED
      BY <1>3, <1>10, <3>2
  <2>2. ByProbe(x, observed'[t], p)
    BY <1>2, <1>5, <1>8, <1>10, <1>11, <2>1 DEF ByProbe
  <2>3. Sound(x, observed'[t], p, "probe")
    BY <1>5, <2>2 DEF Sound
  <2>4. FormOK(Found(t, p, "probe"), observed'[t], listing)
    BY <1>1, <2>3, OfferIsSound DEF Found
  <2>5. tab' = [tab EXCEPT ![t] = Found(t, p, "probe")]
    BY <1>6, <1>11 DEF HasRoles
  <2> QED
    BY <1>7, <1>8, <2>4, <2>5, AskingIsSound
<1>12. CASE Outcome(p, answer) # "open"
  <2>1. SeenMissing(observed'[t], p)
    <3>1. Outcome(p, answer) \in {"none", "bare"}
      BY <1>12, OutcomeIsState DEF BoardStates
    <3> QED
      BY <1>8, <3>1 DEF SeenMissing
  <2>2. PICK H, y : H = x.hits \ {s} /\ y = [x EXCEPT !.hits = H]
    OBVIOUS
  <2>3. y = [x EXCEPT !.asked = Sources, !.hits = H, !.slug = x.slug]
    BY <1>0, <1>1, <2>2 DEF IsForm
  <2>4. ASSUME NEW k \in DOMAIN all_sources, all_sources[k] \in Sources \ H
        PROVE  SeenMissing(observed'[t], SlugPlace(q, x.slug, k))
    <3>1. CASE all_sources[k] = s
      BY <1>4, <2>1, <3>1 DEF SlugPlace
    <3>2. CASE all_sources[k] # s
      BY <1>10, <2>2, <2>4, <3>2
    <3> QED
      BY <3>1, <3>2
  <2>5. H \in SUBSET Sources
    BY <1>2, <2>2
  <2>6. FormOK(y, observed'[t], listing)
    <3> QED
      BY <1>0, <1>1, <1>2, <1>8, <1>9, <1>10, <2>3, <2>4, <2>5, ProbeIsForm
  <2>7. tab' = [tab EXCEPT ![t] = y]
    <3>1. tab = [u \in Tabs |-> tab[u]]
      BY DEF BoardsInv, FormsInv
    <3>2. ~HasRoles(Outcome(p, answer))
      BY <1>12 DEF HasRoles
    <3>3. tab' = [tab EXCEPT ![t] = [tab[t] EXCEPT !.hits = @ \ {s}]]
      BY <1>6, <3>2
    <3> QED
      BY <1>1, <2>2, <3>1, <3>3 DEF IsForm
  <2> QED
    BY <1>7, <1>8, <2>6, <2>7, AskingIsSound
<1> QED
  BY <1>11, <1>12

\* No source has the candidate, and the next one is tried, or the next tier.
LEMMA NextSlugIsSound ==
  ASSUME BoardsInv, NEW t \in Tabs, NextSlug(t) PROVE BoardsInv'
<1>0. /\ tab[t].stage = "probe" /\ "probe" \in Waiting
      /\ tab[t].asked = Sources /\ tab[t].hits = {}
  BY DEF NextSlug, Waiting
<1>1. /\ IsForm(tab[t]) /\ IsTyped(tab[t]) /\ FormInv(tab[t], observed[t])
      /\ tab[t].query \in Queries
      /\ \A p \in Places : <<p, listing[p]>> \in observed[t]
  <2>1. Watches(tab[t], observed[t], listing)
    BY DEF BoardsInv, FormsInv, FormOK
  <2> QED
    BY <1>0, <2>1, FormInStage DEF Watches
<1>2. PICK x, q, known : x = tab[t] /\ q = x.query /\ known = observed[t]
  OBVIOUS
<1>3. SlugPassed(q, known, x.slug)
  <2>1. \A j \in DOMAIN all_sources : all_sources[j] \in Sources
    BY DEF Sources, ToSet
  <2> QED
    BY <1>0, <1>1, <1>2, <2>1 DEF FormInv, SlugPassed
<1>4. \A k \in 1..(x.slug - 1) : SlugPassed(q, known, k)
  BY <1>0, <1>1, <1>2 DEF FormInv
<1>5. SlugsOf[q] \in Seq(Tokens(q.name)) /\ x.slug \in DOMAIN SlugsOf[q]
  BY <1>0, <1>1, <1>2, SlugsAreTokens DEF SlugsOf, IsTyped
<1>6. \A k \in 1..x.slug : SlugPassed(q, known, k)
  <2>1. x.slug \in Nat
    BY <1>5
  <2> QED
    BY <1>3, <1>4, <2>1
<1>7. /\ UNCHANGED <<listing, watched, changes, submits, faults, observed>>
      /\ tab' = [tab EXCEPT ![t] = IF x.slug < Len(SlugsOf[q])
                                   THEN [x EXCEPT !.slug = x.slug + 1, !.asked = {}]
                                   ELSE Turned(x, "search")]
  BY <1>1, <1>2 DEF NextSlug, Slugs, IsForm
<1>8. SeesMore /\ faults' \in 0..MaxFaults
  BY <1>7 DEF SeesMore, BoardsInv, FormsInv, CountsInv
<1>9. CASE x.slug < Len(SlugsOf[q])
  <2>1. PICK y : y = [x EXCEPT !.slug = x.slug + 1, !.asked = {}]
    OBVIOUS
  <2>2. y = [x EXCEPT !.asked = {}, !.hits = {}, !.slug = x.slug + 1]
    BY <1>0, <1>1, <1>2, <2>1 DEF IsForm
  <2>3. x.slug + 1 \in DOMAIN SlugsOf[q] /\ (x.slug + 1) - 1 = x.slug
    BY <1>5, <1>9
  <2>4. FormOK(y, known, listing)
    <3>1. {} \in SUBSET Sources /\ {} \in SUBSET {}
      OBVIOUS
    <3> QED
      BY <1>0, <1>1, <1>2, <1>6, <2>2, <2>3, <3>1, ProbeIsForm
  <2>5. tab' = [tab EXCEPT ![t] = y]
    BY <1>7, <1>9, <2>1
  <2>6. observed'[t] = known
    BY <1>2, <1>7
  <2> QED
    BY <1>7, <1>8, <2>4, <2>5, <2>6, AskingIsSound
<1>10. CASE ~(x.slug < Len(SlugsOf[q]))
  <2>1. SlugsPassed(q, known)
    <3>1. DOMAIN SlugsOf[q] = 1..x.slug
      BY <1>5, <1>10
    <3> QED
      BY <1>6, <3>1 DEF SlugsPassed
  <2>2. PICK y : y = Turned(x, "search")
    OBVIOUS
  <2>3. /\ IsForm(y) /\ y.stage = "search" /\ y.query = q /\ y.found = x.found
        /\ y.asked = {} /\ y.hits = {} /\ y.next = 1
    BY <1>2, <2>2, TurnedIsForm
  <2>4. x.found = <<>> /\ UrlPassed(q, known)
    BY <1>0, <1>1, <1>2 DEF FormInv
  <2>5. IsTyped(y)
    <3>1. "search" \in FormStages /\ <<>> \in Seq(FoundItems) /\ 1 \in 1..(Len(<<>>) + 1)
      BY DEF FormStages, Waiting
    <3> QED
      BY <1>1, <1>2, <2>3, <2>4, <3>1 DEF IsTyped
  <2>6. FormInv(y, known)
    BY <2>1, <2>3, <2>4 DEF FormInv
  <2>7. FormOK(y, observed'[t], listing)
    BY <1>1, <1>2, <1>7, <2>3, <2>5, <2>6 DEF FormOK, Watches
  <2>8. tab' = [tab EXCEPT ![t] = y]
    BY <1>7, <1>10, <2>2
  <2> QED
    BY <1>7, <1>8, <2>7, <2>8, AskingIsSound
<1> QED
  BY <1>9, <1>10

\* What a search may find is a sequence of what the providers may answer.
LEMMA SearchesFindItems ==
  ASSUME NEW got \in SearchOutcomes PROVE got.items \in Seq(FoundItems)
<1>1. PICK a \in SearchAnswers : got = SearchOutcome(a[1], a[2], a[3], MAX_SEARCH_RESULTS)
  BY DEF SearchOutcomes
<1>2. ASSUME NEW i \in 1..3 PROVE a[i].items \in Seq(FoundItems)
  <2>1. a[i].items \in Seq(ToSet(a[i].items))
    BY BoardAssumption
  <2>2. ToSet(a[i].items) \subseteq FoundItems
    BY DEF FoundItems
  <2> QED
    BY <2>1, <2>2
<1>3. /\ a[1].items \in Seq(FoundItems) /\ a[2].items \in Seq(FoundItems)
      /\ a[3].items \in Seq(FoundItems)
  BY <1>2
<1> QED
  BY <1>1, <1>3, SearchIsSeq, BoardAssumption

\* The web is searched for the name.
LEMMA SearchWebIsSound ==
  ASSUME BoardsInv, NEW t \in Tabs, SearchWeb(t) PROVE BoardsInv'
<1>0. tab[t].stage = "search" /\ "search" \in Waiting
  BY DEF SearchWeb, Waiting
<1>1. /\ IsForm(tab[t]) /\ IsTyped(tab[t]) /\ FormInv(tab[t], observed[t])
      /\ tab[t].stage # "empty" /\ tab[t].query \in Queries
      /\ \A p \in Places : <<p, listing[p]>> \in observed[t]
  <2>1. Watches(tab[t], observed[t], listing)
    BY DEF BoardsInv, FormsInv, FormOK
  <2> QED
    BY <1>0, <2>1, FormInStage DEF Watches
<1>2. /\ tab[t].found = <<>> /\ UrlPassed(tab[t].query, observed[t])
      /\ SlugsPassed(tab[t].query, observed[t])
  BY <1>0, <1>1 DEF FormInv
<1>3. PICK got \in SearchOutcomes :
        tab' = [tab EXCEPT ![t] =
          CASE got.raised = "none"        -> [tab[t] EXCEPT !.stage = "results",
                                                            !.found = got.items]
            [] got.raised = "SearchError" -> Turned(tab[t], "refused")
            [] OTHER                      -> Turned(tab[t], "failed")]
  BY DEF SearchWeb
<1>4. PICK y : /\ tab' = [tab EXCEPT ![t] = y]
               /\ \/ y = [tab[t] EXCEPT !.stage = "results", !.found = got.items]
                  \/ y = Turned(tab[t], "refused") \/ y = Turned(tab[t], "failed")
  BY <1>3, Zenon
<1>5. UNCHANGED <<listing, watched, changes, submits, faults, observed>>
  BY DEF SearchWeb
<1>6. SeesMore /\ faults' \in 0..MaxFaults /\ observed'[t] = observed[t]
  BY <1>5 DEF SeesMore, BoardsInv, FormsInv, CountsInv
<1>7. CASE y = Turned(tab[t], "refused") \/ y = Turned(tab[t], "failed")
  <2>1. PICK s \in {"refused", "failed"} : y = Turned(tab[t], s)
    BY <1>7
  <2>2. \A i \in DOMAIN tab[t].found : ResultPassed(tab[t].found, observed[t], i)
    BY <1>2
  <2>3. FormOK(y, observed'[t], listing)
    BY <1>1, <1>2, <1>6, <2>1, <2>2, RefusalIsSound
  <2> QED
    BY <1>4, <1>5, <1>6, <2>3, AskingIsSound
<1>8. CASE y = [tab[t] EXCEPT !.stage = "results", !.found = got.items]
  <2>1. PICK x, f : x = tab[t] /\ f = got.items
    OBVIOUS
  <2>2. f \in Seq(FoundItems)
    BY <2>1, SearchesFindItems
  <2>3. y \in [stage : {"results"}, query : {x.query}, slug : {x.slug}, asked : {x.asked},
               hits : {x.hits}, found : {f}, next : {x.next}, offer : {x.offer}]
    BY <1>1, <1>8, <2>1 DEF IsForm
  <2>4. /\ y.stage = "results" /\ y.query = x.query /\ y.slug = x.slug /\ y.asked = x.asked
        /\ y.hits = x.hits /\ y.found = f /\ y.next = x.next /\ y.offer = x.offer
    BY <2>3
  <2>5. x.next = 1
    BY <1>1, <1>2, <2>1 DEF IsTyped
  <2>6. IsForm(y)
    BY <2>3, <2>4 DEF IsForm
  <2>7. IsTyped(y)
    <3>1. "results" \in FormStages /\ "results" # "probe" /\ 1 \in 1..(Len(f) + 1)
      BY <2>2 DEF FormStages, Waiting
    <3> QED
      BY <1>1, <2>1, <2>2, <2>4, <2>5, <3>1 DEF IsTyped
  <2>8. FormInv(y, observed[t])
    <3>1. 1..(1 - 1) = {}
      OBVIOUS
    <3> QED
      BY <1>2, <2>1, <2>4, <2>5, <3>1 DEF FormInv
  <2>9. FormOK(y, observed'[t], listing)
    BY <1>1, <1>6, <2>6, <2>7, <2>8 DEF FormOK, Watches
  <2> QED
    BY <1>4, <1>5, <1>6, <2>9, AskingIsSound
<1> QED
  BY <1>4, <1>7, <1>8

\* The next result is looked at.
LEMMA CountResultIsSound ==
  ASSUME BoardsInv, NEW t \in Tabs, CountResult(t) PROVE BoardsInv'
<1>0. /\ tab[t].stage = "results" /\ "results" \in Waiting
      /\ tab[t].next <= Len(tab[t].found)
  BY DEF CountResult, Waiting
<1>1. /\ IsForm(tab[t]) /\ IsTyped(tab[t]) /\ FormInv(tab[t], observed[t])
      /\ tab[t].stage # "empty" /\ tab[t].query \in Queries
      /\ \A p \in Places : <<p, listing[p]>> \in observed[t]
  <2>1. Watches(tab[t], observed[t], listing)
    BY DEF BoardsInv, FormsInv, FormOK
  <2> QED
    BY <1>0, <2>1, FormInStage DEF Watches
<1>2. PICK x, i, match : x = tab[t] /\ i = x.next /\ match = board_from_url(x.found[i].page)
  OBVIOUS
<1>3. i \in DOMAIN x.found /\ x.found \in Seq(FoundItems) /\ i \in 1..Len(x.found)
  BY <1>0, <1>1, <1>2 DEF IsTyped
<1>4. PICK on : on = [x EXCEPT !.next = i + 1]
  OBVIOUS
<1>5. UNCHANGED <<listing, watched, changes, submits>>
  BY DEF CountResult
\* The form that goes on, when the result may be passed over.
<1>6. ASSUME NEW known, observed[t] \subseteq known, ResultPassed(x.found, known, i)
      PROVE  FormOK(on, known, listing)
  <2>1. on \in [stage : {x.stage}, query : {x.query}, slug : {x.slug}, asked : {x.asked},
                hits : {x.hits}, found : {x.found}, next : {i + 1}, offer : {x.offer}]
    BY <1>1, <1>2, <1>4 DEF IsForm
  <2>2. /\ on.stage = "results" /\ on.query = x.query /\ on.slug = x.slug
        /\ on.asked = x.asked /\ on.hits = x.hits /\ on.found = x.found
        /\ on.next = i + 1 /\ on.offer = x.offer
    BY <1>0, <1>2, <2>1
  <2>3. IsForm(on)
    BY <2>1, <2>2, <1>0, <1>2 DEF IsForm
  <2>4. IsTyped(on)
    <3>1. i + 1 \in 1..(Len(x.found) + 1) /\ "results" \in FormStages /\ "results" # "probe"
      BY <1>3 DEF FormStages, Waiting
    <3> QED
      BY <1>1, <1>2, <2>2, <3>1 DEF IsTyped
  <2>5. FormInv(x, known)
    BY <1>1, <1>2, <1>6, MoreIsSeen
  <2>6. \A k \in 1..((i + 1) - 1) : ResultPassed(x.found, known, k)
    <3>1. \A k \in 1..(i - 1) : ResultPassed(x.found, known, k)
      BY <1>0, <1>2, <2>5 DEF FormInv
    <3> QED
      BY <1>3, <1>6, <3>1
  <2>7. FormInv(on, known)
    BY <1>0, <1>2, <2>2, <2>5, <2>6 DEF FormInv
  <2> QED
    BY <1>1, <1>6, <2>3, <2>4, <2>7 DEF FormOK, Watches
<1>7. CASE match = <<>>
  <2>1. tab' = [tab EXCEPT ![t] = on] /\ UNCHANGED <<faults, observed>>
    BY <1>2, <1>4, <1>7 DEF CountResult
  <2>2. SeesMore /\ faults' \in 0..MaxFaults
    BY <2>1 DEF SeesMore, BoardsInv, FormsInv, CountsInv
  <2>3. ResultPassed(x.found, observed[t], i)
    BY <1>2, <1>7 DEF ResultPassed, ToSet
  <2>4. FormOK(on, observed'[t], listing)
    BY <1>6, <2>1, <2>3
  <2> QED
    BY <1>5, <2>1, <2>2, <2>4, AskingIsSound
<1>8. CASE match # <<>>
  <2>1. PICK p : match = <<p>> /\ IsBoard(p)
    BY <1>2, <1>8, UrlNamesABoard
  <2>2. p.source \in Sources /\ match[1] = p
    BY <2>1 DEF IsBoard
  <2>3. PICK answer :
          /\ Told(p, answer)
          /\ tab' = [tab EXCEPT ![t] = IF HasRoles(Outcome(p, answer))
                                       THEN Found(t, p, "search") ELSE on]
    BY <1>2, <1>4, <1>8, <2>2 DEF CountResult, Replies, Told
  <2>4. /\ SeesMore /\ faults' \in 0..MaxFaults
        /\ SeenAs(observed'[t], p, Outcome(p, answer))
    BY <1>0, <2>2, <2>3, RepliesAreSeen
  <2>5. observed[t] \subseteq observed'[t]
    BY <2>4 DEF SeesMore
  <2>6. CASE Outcome(p, answer) = "open"
    <3>1. FormInv(x, observed'[t])
      BY <1>1, <1>2, <2>5, MoreIsSeen
    <3>2. /\ UrlPassed(x.query, observed'[t]) /\ SlugsPassed(x.query, observed'[t])
          /\ \A k \in 1..(i - 1) : ResultPassed(x.found, observed'[t], k)
      BY <1>0, <1>2, <3>1 DEF FormInv
    <3>3. BySearch(x, observed'[t], p)
      BY <1>2, <1>3, <2>1, <2>4, <2>6, <3>2 DEF BySearch
    <3>4. Sound(x, observed'[t], p, "search")
      BY <2>1, <3>3 DEF Sound
    <3>5. FormOK(Found(t, p, "search"), observed'[t], listing)
      BY <1>1, <1>2, <3>4, OfferIsSound DEF Found
    <3>6. tab' = [tab EXCEPT ![t] = Found(t, p, "search")]
      BY <2>3, <2>6 DEF HasRoles
    <3> QED
      BY <1>5, <2>4, <3>5, <3>6, AskingIsSound
  <2>7. CASE Outcome(p, answer) # "open"
    <3>1. Outcome(p, answer) \in {"none", "bare"}
      BY <2>7, OutcomeIsState DEF BoardStates
    <3>2. SeenMissing(observed'[t], p)
      BY <2>4, <3>1 DEF SeenMissing
    <3>3. ResultPassed(x.found, observed'[t], i)
      BY <1>2, <2>1, <3>2 DEF ResultPassed, ToSet
    <3>4. FormOK(on, observed'[t], listing)
      BY <1>6, <2>5, <3>3
    <3>5. tab' = [tab EXCEPT ![t] = on]
      BY <2>3, <2>7 DEF HasRoles
    <3> QED
      BY <1>5, <2>4, <3>4, <3>5, AskingIsSound
  <2> QED
    BY <2>6, <2>7
<1> QED
  BY <1>7, <1>8

\* No result is left.
LEMMA GiveUpIsSound ==
  ASSUME BoardsInv, NEW t \in Tabs, GiveUp(t) PROVE BoardsInv'
<1>0. /\ tab[t].stage = "results" /\ "results" \in Waiting
      /\ tab[t].next > Len(tab[t].found)
  BY DEF GiveUp, Waiting
<1>1. /\ IsTyped(tab[t]) /\ FormInv(tab[t], observed[t]) /\ tab[t].stage # "empty"
  BY <1>0, FormInStage
<1>2. DOMAIN tab[t].found = 1..(tab[t].next - 1)
  <2>1. PICK f, n : f = tab[t].found /\ n = tab[t].next
    OBVIOUS
  <2>2. f \in Seq(FoundItems) /\ n \in 1..(Len(f) + 1) /\ n > Len(f)
    BY <1>0, <1>1, <2>1 DEF IsTyped
  <2>3. n - 1 = Len(f)
    BY <2>2
  <2> QED
    BY <2>1, <2>2, <2>3
<1>3. /\ UrlPassed(tab[t].query, observed[t]) /\ SlugsPassed(tab[t].query, observed[t])
      /\ \A i \in DOMAIN tab[t].found : ResultPassed(tab[t].found, observed[t], i)
  BY <1>0, <1>1, <1>2 DEF FormInv
<1>4. /\ UNCHANGED <<listing, watched, changes, submits, faults, observed>>
      /\ tab' = [tab EXCEPT ![t] = Turned(tab[t], "refused")]
  BY DEF GiveUp
<1>5. SeesMore /\ faults' \in 0..MaxFaults
  BY <1>4 DEF SeesMore, BoardsInv, FormsInv, CountsInv
<1>6. FormOK(Turned(tab[t], "refused"), observed'[t], listing)
  BY <1>1, <1>3, <1>4, RefusalIsSound
<1> QED
  BY <1>4, <1>5, <1>6, AskingIsSound

\* An empty form has seen nothing, and needs nothing.
LEMMA EmptyIsSound ==
  ASSUME NEW known, NEW boards PROVE FormOK(Nothing, known, boards)
<1>1. PICK y : y = Nothing
  OBVIOUS
<1>2. y \in [stage : {"empty"}, query : {<<>>}, slug : {1}, asked : {{}}, hits : {{}},
             found : {<<>>}, next : {1}, offer : {<<>>}]
  BY <1>1 DEF Nothing
<1>3. /\ y.stage = "empty" /\ y.query = <<>> /\ y.slug = 1 /\ y.asked = {} /\ y.hits = {}
      /\ y.found = <<>> /\ y.next = 1 /\ y.offer = <<>>
  BY <1>2
<1>4. IsForm(y)
  BY <1>2, <1>3 DEF IsForm
<1>5. IsTyped(y)
  <2>1. "empty" \in FormStages /\ <<>> \in Seq(FoundItems) /\ 1 \in 1..(Len(<<>>) + 1)
    BY DEF FormStages
  <2> QED
    BY <1>3, <2>1 DEF IsTyped
<1> QED
  BY <1>1, <1>3, <1>4, <1>5 DEF FormOK, FormInv, Watches, Waiting

\* The user takes the offer.
LEMMA ConfirmIsSound ==
  ASSUME BoardsInv, NEW t \in Tabs, Confirm(t) PROVE BoardsInv'
<1>1. PICK p, via : tab[t].offer = <<p, via>> /\ IsBoard(p)
  BY DEF Confirm, BoardsInv, FormsInv, FormOK, FormInv, Sound
<1>2. /\ tab[t].offer[1] = p
      /\ UNCHANGED <<listing, faults, changes, submits>> /\ watched' = watched \cup {p}
  BY <1>1 DEF Confirm
<1>3. CountsInv' /\ \A q \in watched' : IsBoard(q)
  BY <1>1, <1>2 DEF BoardsInv, CountsInv
<1>4. FormsInv'
  <2>1. CASE UNCHANGED <<tab, observed>>
    BY <1>2, <2>1 DEF BoardsInv, FormsInv
  <2>2. CASE /\ tab' = [tab EXCEPT ![t] = Nothing]
             /\ observed' = [observed EXCEPT ![t] = {}]
    <3>1. /\ observed' = [u \in Tabs |-> observed'[u]]
          /\ \A u \in Tabs \ {t} : observed[u] \subseteq observed'[u]
      BY <2>2 DEF BoardsInv, FormsInv
    <3> QED
      BY <1>2, <2>2, <3>1, EmptyIsSound, OneFormChanges DEF BoardsInv
  <2> QED
    BY <2>1, <2>2 DEF Confirm
<1> QED
  BY <1>3, <1>4 DEF BoardsInv

\* A board opens or closes, in front of the forms that wait.
LEMMA BoardChangesAreSeen ==
  ASSUME BoardsInv, NEW p \in Places, BoardChanges(p) PROVE BoardsInv'
<1>1. PICK s \in BoardStates :
        /\ listing' = [listing EXCEPT ![p] = s] /\ observed' = Seen(p, s)
        /\ changes < MaxChanges /\ changes' = changes + 1
        /\ UNCHANGED <<tab, watched, faults, submits>>
  BY DEF BoardChanges, BoardStates
<1>2. CountsInv'
  BY <1>1, BoardAssumption DEF BoardsInv, CountsInv
<1>3. ASSUME NEW t \in Tabs PROVE FormOK(tab'[t], observed'[t], listing')
  <2>1. FormOK(tab[t], observed[t], listing) /\ tab'[t] = tab[t]
    BY <1>1 DEF BoardsInv, FormsInv
  <2>2. observed'[t] = IF tab[t].stage \in Waiting THEN observed[t] \cup {<<p, s>>}
                       ELSE observed[t]
    BY <1>1 DEF Seen
  <2>3. FormInv(tab[t], observed'[t])
    BY <2>1, <2>2, MoreIsSeen DEF FormOK
  <2>4. Watches(tab[t], observed'[t], listing')
    <3> SUFFICES ASSUME tab[t].stage \in Waiting, NEW q \in Places
                 PROVE  <<q, listing'[q]>> \in observed'[t]
      BY DEF Watches
    <3>1. listing'[q] = IF q = p THEN s ELSE listing[q]
      BY <1>1 DEF BoardsInv, CountsInv
    <3>2. <<q, listing[q]>> \in observed[t]
      BY <2>1 DEF FormOK, Watches
    <3> QED
      BY <2>2, <3>1, <3>2
  <2> QED
    BY <2>1, <2>3, <2>4 DEF FormOK
<1>4. tab' = [t \in Tabs |-> tab'[t]] /\ observed' = [t \in Tabs |-> observed'[t]]
  BY <1>1 DEF Seen, BoardsInv, FormsInv
<1> QED
  BY <1>1, <1>2, <1>3, <1>4 DEF BoardsInv, FormsInv

(***************************************************************************)
(* The theorems                                                            *)
(***************************************************************************)
LEMMA BoardsInitSound == BoardsInit => BoardsInv
<1> SUFFICES ASSUME BoardsInit PROVE BoardsInv
  OBVIOUS
<1>1. \A t \in Tabs : FormOK(tab[t], observed[t], listing)
  BY EmptyIsSound DEF BoardsInit
<1> QED
  BY <1>1, BoardAssumption DEF BoardsInit, BoardsInv, CountsInv, FormsInv, BoardStates

LEMMA BoardsNextSound == BoardsInv /\ [BoardsNext]_formVars => BoardsInv'
<1> SUFFICES ASSUME BoardsInv, [BoardsNext]_formVars PROVE BoardsInv'
  OBVIOUS
<1>1. ASSUME NEW t \in Tabs, Submit(t) PROVE BoardsInv'
  BY <1>1, SubmitIsSound
<1>2. ASSUME NEW t \in Tabs, Resolving(t) PROVE BoardsInv'
  BY <1>2, AskUrlIsSound, ProbeIsSound, CountProbedIsSound, NextSlugIsSound,
     SearchWebIsSound, CountResultIsSound, GiveUpIsSound DEF Resolving
<1>3. ASSUME NEW t \in Tabs, Confirm(t) PROVE BoardsInv'
  BY <1>3, ConfirmIsSound
<1>4. ASSUME NEW p \in Places, RemoveCompany(p) PROVE BoardsInv'
  BY <1>4 DEF RemoveCompany, BoardsInv, CountsInv, FormsInv
<1>5. ASSUME NEW p \in Places, BoardChanges(p) PROVE BoardsInv'
  BY <1>5, BoardChangesAreSeen
<1>6. ASSUME UNCHANGED formVars PROVE BoardsInv'
  BY <1>6 DEF formVars, BoardsInv, CountsInv, FormsInv
<1> QED
  BY <1>1, <1>2, <1>3, <1>4, <1>5, <1>6 DEF BoardsNext

THEOREM BoardsInvAlways == BoardsSpec => []BoardsInv
BY BoardsInitSound, BoardsNextSound, PTL DEF BoardsSpec

\* What is stored of a form, a board and a bound has the kind the code gives it.
THEOREM BoardsTypeCorrect == BoardsSpec => []BoardsTypeOK
<1>1. BoardsInv => BoardsTypeOK
  BY DEF BoardsInv, CountsInv, FormsInv, FormOK, IsTyped, BoardsTypeOK, BoardStates, Slugs
<1> QED
  BY <1>1, BoardsInvAlways, PTL

\* Two boards that the unique constraint tells apart are two boards: a token is
\* written in one way by the time it is stored.
THEOREM OneRow == BoardsSpec => []OneRowPerBoard
<1>1. ASSUME BoardsInv, NEW p \in watched, NEW q \in watched,
             p.source = q.source, p.token.words = q.token.words, p.token.sep = q.token.sep
      PROVE  p = q
  <2>1. IsBoard(p) /\ IsBoard(q)
    BY <1>1 DEF BoardsInv
  <2>2. p.token = q.token
    BY <1>1, <2>1 DEF IsBoard, IsToken
  <2> QED
    BY <1>1, <2>1, <2>2 DEF IsBoard
<1>2. BoardsInv => OneRowPerBoard
  BY <1>1 DEF OneRowPerBoard
<1> QED
  BY <1>2, BoardsInvAlways, PTL

(***************************************************************************)
(* The offers, in the words of the property                                *)
(***************************************************************************)

\* What a form has is one of the ranks of a board, and each rank names its board.
LEMMA RanksAre ==
  ASSUME NEW t \in Tabs, NEW r \in Ranks(t)
  PROVE  \/ \E i \in DOMAIN UrlPlace(tab[t].query) : r = <<1, i, 1>>
         \/ \E i \in DOMAIN Slugs(t), j \in DOMAIN all_sources : r = <<2, i, j>>
         \/ \E i \in DOMAIN tab[t].found : r = <<3, i, 1>>
BY DEF Ranks

\* What a rank's board has been is what the invariant says of it.
LEMMA UrlRankPassed ==
  ASSUME NEW t \in Tabs, UrlPassed(tab[t].query, observed[t]), NEW i
  PROVE  PassedOver(t, <<1, i, 1>>)
<1>1. BoardAt(t, <<1, i, 1>>) = UrlPlace(tab[t].query)
  BY DEF BoardAt
<1> QED
  BY <1>1 DEF PassedOver, Was, UrlPassed, SeenAs

LEMMA SlugRankPassed ==
  ASSUME NEW t \in Tabs, tab[t].query \in Queries, NEW i, NEW j,
         SeenMissing(observed[t], SlugPlace(tab[t].query, i, j))
  PROVE  PassedOver(t, <<2, i, j>>)
<1>1. BoardAt(t, <<2, i, j>>) = <<SlugPlace(tab[t].query, i, j)>>
  BY DEF BoardAt, SlugPlace, Slugs
<1>2. PICK p : p = SlugPlace(tab[t].query, i, j)
  OBVIOUS
<1>3. ToSet(BoardAt(t, <<2, i, j>>)) = {p}
  BY <1>1, <1>2 DEF ToSet
<1> QED
  BY <1>2, <1>3 DEF PassedOver, Was, SeenMissing, SeenAs

LEMMA ResultRankPassed ==
  ASSUME NEW t \in Tabs, NEW i, ResultPassed(tab[t].found, observed[t], i)
  PROVE  PassedOver(t, <<3, i, 1>>)
<1>1. BoardAt(t, <<3, i, 1>>) = board_from_url(tab[t].found[i].page)
  BY DEF BoardAt
<1>2. \A p \in ToSet(BoardAt(t, <<3, i, 1>>)) : Was(t, p, "none") \/ Was(t, p, "bare")
  BY <1>1, Zenon DEF Was, ResultPassed, SeenMissing, SeenAs
<1>3. <<3, i, 1>>[1] # 1
  OBVIOUS
<1> QED
  BY <1>2, <1>3, Zenon DEF PassedOver

\* An offer is of a board at a rank, and the better ones were passed over.
Justified(t, p, via) ==
  \E r \in Ranks(t) :
    /\ BoardAt(t, r) = <<p>>
    /\ Was(t, p, "open") \/ (via = "url" /\ Was(t, p, "bare"))
    /\ \A b \in Ranks(t) : Better(b, r) => PassedOver(t, b)

LEMMA SoundIsJustified ==
  ASSUME BoardsInv, NEW t \in Tabs, tab[t].stage # "empty", NEW p, NEW via,
         Sound(tab[t], observed[t], p, via)
  PROVE  Justified(t, p, via)
<1>1. /\ tab[t].query \in Queries /\ tab[t].found \in Seq(FoundItems)
      /\ DOMAIN tab[t].found \subseteq Nat
  BY DEF BoardsInv, FormsInv, FormOK, IsTyped
<1>2. /\ DOMAIN Slugs(t) \subseteq Nat /\ DOMAIN all_sources = 1..3
      /\ Slugs(t) = SlugsOf[tab[t].query]
  <2>1. Slugs(t) = slug_candidates(tab[t].query.name)
    BY <1>1 DEF Slugs, SlugsOf
  <2> QED
    BY <2>1, SlugsAreTokens DEF all_sources, Slugs
<1>3. \A how : Was(t, p, how) <=> SeenAs(observed[t], p, how)
  BY DEF Was, SeenAs
<1>4. CASE ByUrl(tab[t], observed[t], p, via)
  <2>1. UrlPlace(tab[t].query) = <<p>> /\ DOMAIN UrlPlace(tab[t].query) = {1}
    BY <1>4 DEF ByUrl
  <2>2. <<1, 1, 1>> \in Ranks(t) /\ BoardAt(t, <<1, 1, 1>>) = <<p>>
    BY <2>1 DEF Ranks, BoardAt
  <2>3. ASSUME NEW b \in Ranks(t) PROVE ~Better(b, <<1, 1, 1>>)
    <3>1. PICK k, i, j :
            b = <<k, i, j>> /\ k \in 1..3 /\ j \in Nat /\ j >= 1 /\ (k = 1 => i = 1)
      BY <1>2, <2>1, RanksAre
    <3> QED
      BY <3>1 DEF Better
  <2>4. Was(t, p, "open") \/ (via = "url" /\ Was(t, p, "bare"))
    BY <1>3, <1>4 DEF ByUrl
  <2> QED
    BY <2>2, <2>3, <2>4 DEF Justified
<1>5. CASE ByProbe(tab[t], observed[t], p)
  <2>1. PICK i \in DOMAIN Slugs(t), j \in DOMAIN all_sources :
          /\ p = SlugPlace(tab[t].query, i, j)
          /\ \A k \in 1..(i - 1) : SlugPassed(tab[t].query, observed[t], k)
          /\ \A k \in 1..(j - 1) : SeenMissing(observed[t], SlugPlace(tab[t].query, i, k))
    BY <1>2, <1>5 DEF ByProbe
  <2>2. <<2, i, j>> \in Ranks(t) /\ BoardAt(t, <<2, i, j>>) = <<p>>
    BY <2>1 DEF Ranks, BoardAt, SlugPlace, Slugs
  <2>3. ASSUME NEW b \in Ranks(t), Better(b, <<2, i, j>>) PROVE PassedOver(t, b)
    <3>1. CASE \E k \in DOMAIN UrlPlace(tab[t].query) : b = <<1, k, 1>>
      BY <1>5, <3>1, UrlRankPassed DEF ByProbe
    <3>2. CASE \E k \in DOMAIN Slugs(t), l \in DOMAIN all_sources : b = <<2, k, l>>
      <4>1. PICK k \in DOMAIN Slugs(t), l \in DOMAIN all_sources : b = <<2, k, l>>
        BY <3>2
      <4>2. \/ k \in 1..(i - 1)
            \/ k = i /\ l \in 1..(j - 1)
        <5>1. k \in Nat /\ i \in Nat /\ l \in 1..3 /\ j \in 1..3 /\ k >= 1
          BY <1>1, <1>2, <2>1, <4>1, SlugsAreTokens DEF Slugs, SlugsOf
        <5>2. k < i \/ (k = i /\ l < j)
          BY <2>3, <4>1, <5>1 DEF Better
        <5> QED
          BY <5>1, <5>2
      <4>3. SeenMissing(observed[t], SlugPlace(tab[t].query, k, l))
        BY <2>1, <4>1, <4>2 DEF SlugPassed
      <4> QED
        BY <1>1, <4>1, <4>3, SlugRankPassed
    <3>3. CASE \E k \in DOMAIN tab[t].found : b = <<3, k, 1>>
      BY <2>3, <3>3 DEF Better
    <3> QED
      BY <3>1, <3>2, <3>3, RanksAre
  <2>4. Was(t, p, "open")
    BY <1>3, <1>5 DEF ByProbe
  <2> QED
    BY <2>2, <2>3, <2>4 DEF Justified
<1>6. CASE BySearch(tab[t], observed[t], p)
  <2>1. PICK i \in DOMAIN tab[t].found :
          /\ board_from_url(tab[t].found[i].page) = <<p>>
          /\ \A k \in 1..(i - 1) : ResultPassed(tab[t].found, observed[t], k)
    BY <1>6 DEF BySearch
  <2>2. <<3, i, 1>> \in Ranks(t) /\ BoardAt(t, <<3, i, 1>>) = <<p>>
    BY <2>1 DEF Ranks, BoardAt
  <2>3. ASSUME NEW b \in Ranks(t), Better(b, <<3, i, 1>>) PROVE PassedOver(t, b)
    <3>1. CASE \E k \in DOMAIN UrlPlace(tab[t].query) : b = <<1, k, 1>>
      BY <1>6, <3>1, UrlRankPassed DEF BySearch
    <3>2. CASE \E k \in DOMAIN Slugs(t), l \in DOMAIN all_sources : b = <<2, k, l>>
      BY <1>1, <1>2, <1>6, <3>2, SlugRankPassed DEF BySearch, SlugsPassed, SlugPassed
    <3>3. CASE \E k \in DOMAIN tab[t].found : b = <<3, k, 1>>
      <4>1. PICK k \in DOMAIN tab[t].found : b = <<3, k, 1>>
        BY <3>3
      <4>2. k < i
        BY <1>1, <2>1, <2>3, <4>1 DEF Better
      <4>3. k \in 1..(i - 1)
        <5>1. PICK f : f = tab[t].found
          OBVIOUS
        <5> QED
          BY <1>1, <2>1, <4>1, <4>2, <5>1
      <4> QED
        BY <2>1, <4>1, <4>3, ResultRankPassed
    <3> QED
      BY <3>1, <3>2, <3>3, RanksAre
  <2>4. Was(t, p, "open")
    BY <1>3, <1>6 DEF BySearch
  <2> QED
    BY <2>2, <2>3, <2>4 DEF Justified
<1> QED
  BY <1>4, <1>5, <1>6 DEF Sound

\* Nothing is found only if every board that could be meant was passed over.
LEMMA RefusalIsJustified ==
  ASSUME BoardsInv, NEW t \in Tabs, tab[t].stage = "refused", NEW r \in Ranks(t)
  PROVE  PassedOver(t, r)
<1>1. IsTyped(tab[t]) /\ FormInv(tab[t], observed[t])
  BY DEF BoardsInv, FormsInv, FormOK
<1>2. /\ tab[t].query \in Queries /\ UrlPassed(tab[t].query, observed[t])
      /\ SlugsPassed(tab[t].query, observed[t])
      /\ \A i \in DOMAIN tab[t].found : ResultPassed(tab[t].found, observed[t], i)
  BY <1>1 DEF IsTyped, FormInv
<1>3. Slugs(t) = SlugsOf[tab[t].query]
  BY DEF Slugs
<1> QED
  BY <1>2, <1>3, RanksAre, UrlRankPassed, SlugRankPassed, ResultRankPassed
     DEF SlugsPassed, SlugPassed

\* An offer is explained by what boards were, or answered, while it was sought; so is
\* the answer that there is none.
THEOREM OffersJustified == BoardsSpec => []OffersAreJustified
<1>1. ASSUME BoardsInv, NEW t \in Tabs, tab[t].stage = "offered"
      PROVE  Justified(t, tab[t].offer[1], tab[t].offer[2])
  <2>1. PICK p, via : tab[t].offer = <<p, via>> /\ Sound(tab[t], observed[t], p, via)
    BY <1>1 DEF BoardsInv, FormsInv, FormOK, FormInv
  <2>2. tab[t].stage # "empty" /\ tab[t].offer[1] = p /\ tab[t].offer[2] = via
    BY <1>1, <2>1
  <2> QED
    BY <1>1, <2>1, <2>2, SoundIsJustified
<1>2. BoardsInv => OffersAreJustified
  BY <1>1, RefusalIsJustified DEF OffersAreJustified, Justified
<1> QED
  BY <1>2, BoardsInvAlways, PTL
=============================================================================
