--------------------------- MODULE OperatorProofs ---------------------------
(***************************************************************************)
(* What the operators that several components are built from compute, for  *)
(* every input: folds over sequences, which merge the results of searches, *)
(* and cap_cover_letter_body, which is made of maxima of sets of positions.*)
(* That such maxima and folds exist follows from < being well-founded.     *)
(***************************************************************************)
EXTENDS CoverLetter, Search, WellFoundedInduction, SequenceTheorems, TLAPS

(***************************************************************************)
(* Least and greatest positions                                            *)
(***************************************************************************)

\* A set of natural numbers that is not empty has a least one.
LEMMA LeastExists ==
  ASSUME NEW T \in SUBSET Nat, T # {}
  PROVE  \E x \in T : \A y \in T : x <= y
<1> DEFINE Less == {ss \in Nat \X Nat : ss[1] < ss[2]}
<1>1. IsWellFoundedOn(Less, Nat)
  BY NatLessThanWellFounded, Zenon DEF OpToRel
<1> HIDE DEF Less
<1>2. PICK x \in T : \A y \in T : <<y, x>> \notin Less
  BY <1>1, WFMin, Zenon
<1>3. \A y \in T : ~(y < x)
  BY <1>2 DEF Less
<1> QED
  BY <1>3

\* A set of positions that is not empty has a greatest one, and Max is that one.
LEMMA MaxIsGreatest ==
  ASSUME NEW n \in Nat, NEW T \in SUBSET (1..n), T # {}
  PROVE  Max(T) \in T /\ \A y \in T : y <= Max(T)
<1> DEFINE U == {x \in 0..n : n - x \in T}
<1>1. PICK t \in T : TRUE
  OBVIOUS
<1>2. n - t \in U
  BY <1>1
<1>3. U \in SUBSET Nat /\ U # {}
  <2>1. U \in SUBSET Nat
    OBVIOUS
  <2> HIDE DEF U
  <2> QED
    BY <1>2, <2>1
<1>4. PICK x \in U : \A y \in U : x <= y
  <2> HIDE DEF U
  <2> QED
    BY <1>3, LeastExists
<1>5. \A y \in T : y <= n - x
  <2> SUFFICES ASSUME NEW y \in T PROVE y <= n - x
    OBVIOUS
  <2>1. n - y \in U
    OBVIOUS
  <2> QED
    BY <1>4, <2>1
<1>6. n - x \in T /\ \A y \in T : n - x >= y
  BY <1>4, <1>5
<1> QED
  BY <1>6 DEF Max

\* A set of positions that is not empty has a least one, and Min is that one.
LEMMA MinIsLeast ==
  ASSUME NEW n \in Nat, NEW T \in SUBSET (1..n), T # {}
  PROVE  Min(T) \in 1..n /\ Min(T) \in T /\ \A y \in T : Min(T) <= y
<1>0. T \in SUBSET Nat
  OBVIOUS
<1>1. PICK x \in T : \A y \in T : x <= y
  BY <1>0, LeastExists
<1>2. Min(T) \in T /\ \A y \in T : Min(T) <= y
  BY <1>1 DEF Min
<1> QED
  BY <1>2

\* What holds of 0, and of each next number up to n, holds up to n.
LEMMA UpTo ==
  ASSUME NEW n \in Nat, NEW T, 0 \in T, \A k \in 0..(n - 1) : k \in T => k + 1 \in T
  PROVE  \A k \in 0..n : k \in T
<1> DEFINE U == {k \in 0..n : k \notin T}
<1> SUFFICES ASSUME U # {} PROVE FALSE
  OBVIOUS
<1>1. U \in SUBSET Nat
  OBVIOUS
<1>2. PICK x \in U : \A y \in U : x <= y
  <2> HIDE DEF U
  <2> QED
    BY <1>1, LeastExists
<1>3. x \in 0..n /\ x # 0 /\ x \notin T
  BY <1>2
<1>4. x - 1 \in 0..(n - 1) /\ x - 1 \in 0..n /\ ~(x <= x - 1) /\ (x - 1) + 1 = x
  BY <1>3
<1>5. x - 1 \notin U
  BY <1>2, <1>4
<1>6. x - 1 \in T
  BY <1>4, <1>5
<1> QED
  BY <1>3, <1>4, <1>6

\* The greatest of a set of positions that has the last one is that one.
LEMMA MaxOfNext ==
  ASSUME NEW k \in Nat, NEW s \in SUBSET (1..(k + 1)), k + 1 \in s
  PROVE  Max(s) = k + 1
<1>1. k + 1 \in Nat /\ s # {}
  OBVIOUS
<1>2. PICK m : m = Max(s)
  OBVIOUS
<1>3. m \in s /\ k + 1 <= m
  BY <1>1, <1>2, MaxIsGreatest
<1> QED
  BY <1>2, <1>3

(***************************************************************************)
(* Folds                                                                   *)
(***************************************************************************)

\* A step of a fold over n positions, with values in X; and such a fold, over sets of
\* positions as FoldLeft is.
IsStep(n, X, step) == step \in [(1..n) \X X -> X]
IsFold(n, X, base, step, it) ==
  /\ it \in [SUBSET (1..n) -> X]
  /\ \A s \in SUBSET (1..n) :
       it[s] = IF s = {} THEN base ELSE step[<<Max(s), it[s \ {Max(s)}]>>]

\* There is such a fold for every step.
LEMMA FoldExists ==
  ASSUME NEW n \in Nat, NEW X, NEW base \in X, NEW step, IsStep(n, X, step)
  PROVE  \E it : IsFold(n, X, base, step, it)
<1> DEFINE T == {k \in 0..n : \E it : IsFold(k, X, base, step, it)}
<1>0. step \in [(1..n) \X X -> X]
  BY DEF IsStep
<1>1. 0 \in T
  <2> DEFINE it == [s \in SUBSET (1..0) |-> base]
  <2>0. 1..0 = {} /\ 0 \in 0..n
    OBVIOUS
  <2>1. IsFold(0, X, base, step, it)
    BY <2>0 DEF IsFold
  <2> QED
    BY <2>0, <2>1
<1>2. ASSUME NEW k \in 0..(n - 1), k \in T
      PROVE  k + 1 \in T
  <2>0. PICK it : IsFold(k, X, base, step, it)
    BY <1>2
  <2>1. /\ it \in [SUBSET (1..k) -> X]
        /\ \A s \in SUBSET (1..k) :
             it[s] = IF s = {} THEN base ELSE step[<<Max(s), it[s \ {Max(s)}]>>]
    BY <2>0 DEF IsFold
  <2> DEFINE new == [s \in SUBSET (1..(k + 1)) |->
                       IF k + 1 \in s THEN step[<<k + 1, it[s \ {k + 1}]>>] ELSE it[s]]
  <2>2. ASSUME NEW s \in SUBSET (1..(k + 1)), k + 1 \in s
        PROVE  /\ s \ {k + 1} \in SUBSET (1..k) /\ Max(s) = k + 1 /\ new[s] \in X
               /\ new[s] = step[<<Max(s), new[s \ {Max(s)}]>>]
    <3>1. s \ {k + 1} \in SUBSET (1..k) /\ k + 1 \in 1..n
      BY <2>2
    <3>2. Max(s) = k + 1
      BY <2>2, MaxOfNext
    <3>3. it[s \ {k + 1}] \in X
      BY <2>1, <3>1
    <3>4. step[<<k + 1, it[s \ {k + 1}]>>] \in X
      BY <1>0, <3>1, <3>3
    <3>5. new[s \ {k + 1}] = it[s \ {k + 1}]
      BY <3>1
    <3> QED
      BY <2>2, <3>1, <3>2, <3>4, <3>5
  <2>3. ASSUME NEW s \in SUBSET (1..(k + 1)), k + 1 \notin s
        PROVE  /\ s \in SUBSET (1..k) /\ new[s] \in X
               /\ new[s] = IF s = {} THEN base ELSE step[<<Max(s), new[s \ {Max(s)}]>>]
    <3>1. s \in SUBSET (1..k)
      BY <2>3
    <3>2. new[s] = it[s] /\ new[s \ {Max(s)}] = it[s \ {Max(s)}]
      BY <2>3, <3>1
    <3> QED
      BY <2>1, <3>1, <3>2
  <2>4. IsFold(k + 1, X, base, step, new)
    <3>1. \A s \in SUBSET (1..(k + 1)) : k + 1 \in s => s # {}
      OBVIOUS
    <3>2. new \in [SUBSET (1..(k + 1)) -> X]
      BY <2>2, <2>3
    <3> HIDE DEF new
    <3> QED
      BY <2>2, <2>3, <3>1, <3>2 DEF IsFold
  <2>5. k + 1 \in 0..n
    OBVIOUS
  <2> HIDE DEF new
  <2> QED
    BY <2>4, <2>5
<1>3. n \in T
  <2> HIDE DEF T
  <2>1. \A k \in 0..n : k \in T
    BY <1>1, <1>2, UpTo
  <2> QED
    BY <2>1
<1> QED
  BY <1>3

\* The positions up to k, without k, are those up to the one before it.
LEMMA UpToIsPrefix ==
  ASSUME NEW n \in Nat, NEW k \in 1..n
  PROVE  /\ 1..k \in SUBSET (1..n) /\ 1..k # {}
         /\ Max(1..k) = k /\ (1..k) \ {k} = 1..(k - 1)
<1>1. (1..k) \ {k} = 1..(k - 1) /\ k \in 1..k /\ k \in Nat /\ (k - 1) \in Nat
  OBVIOUS
<1>2. PICK j \in Nat : j = k - 1
  BY <1>1
<1>3. k = j + 1 /\ 1..k \in SUBSET (1..(j + 1)) /\ j + 1 \in 1..k
  BY <1>2
<1>4. Max(1..k) = j + 1
  BY <1>3, MaxOfNext
<1>5. 1..k \in SUBSET (1..n)
  OBVIOUS
<1> QED
  BY <1>1, <1>3, <1>4, <1>5

(***************************************************************************)
(* Searches                                                                *)
(***************************************************************************)

\* What the whole items of an answer are, one item after another.
LEMMA WholeUnrolls ==
  ASSUME NEW U, NEW s \in Seq(U)
  PROVE  \E acc :
           /\ acc[0] = <<>>
           /\ \A k \in 1..Len(s) :
                acc[k] = IF s[k].shape # "incomplete" THEN Append(acc[k - 1], s[k])
                         ELSE acc[k - 1]
           /\ Whole(s) = acc[Len(s)]
<1> DEFINE n == Len(s)
           X == Seq(U)
           step == [p \in (1..n) \X X |->
                      IF s[p[1]].shape # "incomplete" THEN Append(p[2], s[p[1]]) ELSE p[2]]
           Is(it) == it = [ss \in SUBSET DOMAIN s |->
                             IF ss = {} THEN <<>>
                             ELSE IF s[Max(ss)].shape # "incomplete"
                                  THEN Append(it[ss \ {Max(ss)}], s[Max(ss)])
                                  ELSE it[ss \ {Max(ss)}]]
<1>1. n \in Nat /\ DOMAIN s = 1..n /\ <<>> \in X
  OBVIOUS
<1>2. IsStep(n, X, step)
  BY DEF IsStep
<1>3. PICK it : IsFold(n, X, <<>>, step, it)
  <2> HIDE DEF step, X, n
  <2> QED
    BY <1>1, <1>2, FoldExists
<1>4. /\ it \in [SUBSET (1..n) -> X]
      /\ \A ss \in SUBSET (1..n) :
           it[ss] = IF ss = {} THEN <<>> ELSE step[<<Max(ss), it[ss \ {Max(ss)}]>>]
  <2> HIDE DEF step, X, n
  <2> QED
    BY <1>3 DEF IsFold
<1>5. ASSUME NEW ss \in SUBSET (1..n), ss # {}
      PROVE  it[ss] = IF s[Max(ss)].shape # "incomplete"
                      THEN Append(it[ss \ {Max(ss)}], s[Max(ss)])
                      ELSE it[ss \ {Max(ss)}]
  <2>1. Max(ss) \in 1..n
    BY <1>1, <1>5, MaxIsGreatest
  <2>2. it[ss \ {Max(ss)}] \in X
    BY <1>4
  <2> QED
    BY <1>4, <1>5, <2>1, <2>2
<1>6. Is(it)
  BY <1>1, <1>4, <1>5
<1>7. PICK got : Is(got) /\ Whole(s) = got[DOMAIN s]
  <2>1. \E got : Is(got)
    BY <1>6
  <2> QED
    BY <2>1 DEF Whole, FoldLeft, MapThenFoldSet
<1> DEFINE acc == [k \in 0..n |-> got[1..k]]
<1>8. acc[0] = <<>>
  <2>1. 1..0 = {} /\ 0 \in 0..n
    BY <1>1
  <2> QED
    BY <1>7, <2>1
<1>9. ASSUME NEW k \in 1..n
      PROVE  acc[k] = IF s[k].shape # "incomplete" THEN Append(acc[k - 1], s[k])
                      ELSE acc[k - 1]
  <2>1. /\ 1..k \in SUBSET (1..n) /\ 1..k # {}
        /\ Max(1..k) = k /\ (1..k) \ {k} = 1..(k - 1)
    <3> HIDE DEF n
    <3> QED
      BY <1>1, UpToIsPrefix
  <2>2. acc[k] = got[1..k] /\ acc[k - 1] = got[1..(k - 1)]
    BY <1>1
  <2>3. got[1..k] = IF s[k].shape # "incomplete"
                    THEN Append(got[1..(k - 1)], s[k])
                    ELSE got[1..(k - 1)]
    <3>1. PICK T, R : T = 1..k /\ R = 1..(k - 1)
      OBVIOUS
    <3>2. T \in SUBSET DOMAIN s /\ T # {} /\ Max(T) = k /\ T \ {k} = R
      BY <1>1, <2>1, <3>1
    <3>3. got[T] = IF s[Max(T)].shape # "incomplete"
                   THEN Append(got[T \ {Max(T)}], s[Max(T)])
                   ELSE got[T \ {Max(T)}]
      BY <1>7, <3>2
    <3>4. got[T] = IF s[k].shape # "incomplete"
                   THEN Append(got[R], s[k])
                   ELSE got[R]
      BY <3>2, <3>3
    <3> QED
      BY <3>1, <3>4
  <2> HIDE DEF acc
  <2> QED
    BY <2>2, <2>3
<1>10. Whole(s) = acc[n]
  <2>1. Whole(s) = got[1..n] /\ n \in 0..n
    BY <1>1, <1>7
  <2> QED
    BY <2>1
<1> QED
  BY <1>8, <1>9, <1>10

\* What is left without repetitions, one item after another.
LEMMA DedupedUnrolls ==
  ASSUME NEW U, NEW s \in Seq(U)
  PROVE  \E acc :
           /\ acc[0] = <<>>
           /\ \A k \in 1..Len(s) :
                acc[k] = IF \E j \in ToSet(acc[k - 1]) : j.page = s[k].page THEN acc[k - 1]
                         ELSE Append(acc[k - 1], s[k])
           /\ Deduped(s) = acc[Len(s)]
<1> DEFINE n == Len(s)
           X == Seq(U)
           step == [p \in (1..n) \X X |->
                      IF \E j \in ToSet(p[2]) : j.page = s[p[1]].page THEN p[2]
                      ELSE Append(p[2], s[p[1]])]
           Is(it) == it = [ss \in SUBSET DOMAIN s |->
                             IF ss = {} THEN <<>>
                             ELSE IF \E j \in ToSet(it[ss \ {Max(ss)}]) : j.page = s[Max(ss)].page
                                  THEN it[ss \ {Max(ss)}]
                                  ELSE Append(it[ss \ {Max(ss)}], s[Max(ss)])]
<1>1. n \in Nat /\ DOMAIN s = 1..n /\ <<>> \in X
  OBVIOUS
<1>2. IsStep(n, X, step)
  BY DEF IsStep
<1>3. PICK it : IsFold(n, X, <<>>, step, it)
  <2> HIDE DEF step, X, n
  <2> QED
    BY <1>1, <1>2, FoldExists
<1>4. /\ it \in [SUBSET (1..n) -> X]
      /\ \A ss \in SUBSET (1..n) :
           it[ss] = IF ss = {} THEN <<>> ELSE step[<<Max(ss), it[ss \ {Max(ss)}]>>]
  <2> HIDE DEF step, X, n
  <2> QED
    BY <1>3 DEF IsFold
<1>5. ASSUME NEW ss \in SUBSET (1..n), ss # {}
      PROVE  it[ss] = IF \E j \in ToSet(it[ss \ {Max(ss)}]) : j.page = s[Max(ss)].page
                      THEN it[ss \ {Max(ss)}]
                      ELSE Append(it[ss \ {Max(ss)}], s[Max(ss)])
  <2>1. Max(ss) \in 1..n
    BY <1>1, <1>5, MaxIsGreatest
  <2>2. it[ss \ {Max(ss)}] \in X
    BY <1>4
  <2> QED
    BY <1>4, <1>5, <2>1, <2>2
<1>6. Is(it)
  BY <1>1, <1>4, <1>5
<1>7. PICK got : Is(got) /\ Deduped(s) = got[DOMAIN s]
  <2>1. \E got : Is(got)
    BY <1>6
  <2> QED
    BY <2>1 DEF Deduped, FoldLeft, MapThenFoldSet
<1> DEFINE acc == [k \in 0..n |-> got[1..k]]
<1>8. acc[0] = <<>>
  <2>1. 1..0 = {} /\ 0 \in 0..n
    BY <1>1
  <2> QED
    BY <1>7, <2>1
<1>9. ASSUME NEW k \in 1..n
      PROVE  acc[k] = IF \E j \in ToSet(acc[k - 1]) : j.page = s[k].page THEN acc[k - 1]
                      ELSE Append(acc[k - 1], s[k])
  <2>1. /\ 1..k \in SUBSET (1..n) /\ 1..k # {}
        /\ Max(1..k) = k /\ (1..k) \ {k} = 1..(k - 1)
    <3> HIDE DEF n
    <3> QED
      BY <1>1, UpToIsPrefix
  <2>2. acc[k] = got[1..k] /\ acc[k - 1] = got[1..(k - 1)]
    BY <1>1
  <2>3. got[1..k] = IF \E j \in ToSet(got[1..(k - 1)]) : j.page = s[k].page
                    THEN got[1..(k - 1)]
                    ELSE Append(got[1..(k - 1)], s[k])
    <3>1. PICK T, R : T = 1..k /\ R = 1..(k - 1)
      OBVIOUS
    <3>2. T \in SUBSET DOMAIN s /\ T # {} /\ Max(T) = k /\ T \ {k} = R
      BY <1>1, <2>1, <3>1
    <3>3. got[T] = IF \E j \in ToSet(got[T \ {Max(T)}]) : j.page = s[Max(T)].page
                   THEN got[T \ {Max(T)}]
                   ELSE Append(got[T \ {Max(T)}], s[Max(T)])
      BY <1>7, <3>2
    <3>4. got[T] = IF \E j \in ToSet(got[R]) : j.page = s[k].page
                   THEN got[R]
                   ELSE Append(got[R], s[k])
      BY <3>2, <3>3
    <3> QED
      BY <3>1, <3>4
  <2> HIDE DEF acc
  <2> QED
    BY <2>2, <2>3
<1>10. Deduped(s) = acc[n]
  <2>1. Deduped(s) = got[1..n] /\ n \in 0..n
    BY <1>1, <1>7
  <2> QED
    BY <2>1
<1> QED
  BY <1>8, <1>9, <1>10

\* The whole items of an answer are items of it, in a sequence.
LEMMA WholeIsSeq ==
  ASSUME NEW U, NEW s \in Seq(U)
  PROVE  Whole(s) \in Seq(U)
<1>1. PICK acc :
        /\ acc[0] = <<>>
        /\ \A k \in 1..Len(s) :
             acc[k] = IF s[k].shape # "incomplete" THEN Append(acc[k - 1], s[k])
                      ELSE acc[k - 1]
        /\ Whole(s) = acc[Len(s)]
  BY WholeUnrolls
<1> DEFINE T == {k \in 0..Len(s) : acc[k] \in Seq(U)}
<1>2. 0 \in T
  <2>1. 0 \in 0..Len(s) /\ acc[0] \in Seq(U)
    BY <1>1
  <2> QED
    BY <2>1
<1>3. ASSUME NEW k \in 0..(Len(s) - 1), k \in T
      PROVE  k + 1 \in T
  <2>1. k + 1 \in 1..Len(s) /\ (k + 1) - 1 = k /\ s[k + 1] \in U
    OBVIOUS
  <2>2. PICK a, i : a = acc[k] /\ i = s[k + 1] /\ a \in Seq(U) /\ i \in U
    BY <1>3, <2>1
  <2>3. acc[k + 1] = IF i.shape # "incomplete" THEN Append(a, i) ELSE a
    BY <1>1, <2>1, <2>2
  <2>4. acc[k + 1] \in Seq(U)
    BY <2>2, <2>3
  <2> QED
    BY <2>1, <2>4
<1>4. Len(s) \in T
  <2> HIDE DEF T
  <2>1. \A k \in 0..Len(s) : k \in T
    BY <1>2, <1>3, UpTo
  <2> QED
    BY <2>1
<1> QED
  BY <1>1, <1>4

\* A page is named once.
PagesDiffer(items) == \A i, j \in DOMAIN items : items[i].page = items[j].page => i = j

\* What is left without its repetitions is a sequence of the same items, and names
\* every page once.
LEMMA DedupedIsDistinct ==
  ASSUME NEW U, NEW s \in Seq(U)
  PROVE  Deduped(s) \in Seq(U) /\ PagesDiffer(Deduped(s))
<1>1. PICK acc :
        /\ acc[0] = <<>>
        /\ \A k \in 1..Len(s) :
             acc[k] = IF \E j \in ToSet(acc[k - 1]) : j.page = s[k].page
                      THEN acc[k - 1] ELSE Append(acc[k - 1], s[k])
        /\ Deduped(s) = acc[Len(s)]
  BY DedupedUnrolls
<1> DEFINE T == {k \in 0..Len(s) : acc[k] \in Seq(U) /\ PagesDiffer(acc[k])}
<1>2. 0 \in T
  <2>1. 0 \in 0..Len(s) /\ acc[0] \in Seq(U)
    BY <1>1
  <2>2. PagesDiffer(acc[0])
    BY <1>1 DEF PagesDiffer
  <2> QED
    BY <2>1, <2>2
<1>3. ASSUME NEW k \in 0..(Len(s) - 1), k \in T
      PROVE  k + 1 \in T
  <2>1. k + 1 \in 1..Len(s) /\ (k + 1) - 1 = k /\ s[k + 1] \in U
    OBVIOUS
  <2>2. PICK a, i : a = acc[k] /\ i = s[k + 1] /\ a \in Seq(U) /\ PagesDiffer(a) /\ i \in U
    BY <1>3, <2>1
  <2>3. acc[k + 1] = IF \E j \in ToSet(a) : j.page = i.page THEN a ELSE Append(a, i)
    BY <1>1, <2>1, <2>2
  <2>4. ASSUME \A j \in ToSet(a) : j.page # i.page
        PROVE  Append(a, i) \in Seq(U) /\ PagesDiffer(Append(a, i))
    <3>1. \A j \in 1..Len(a) : a[j].page # i.page
      BY <2>4 DEF ToSet
    <3> QED
      BY <2>2, <3>1 DEF PagesDiffer
  <2> HIDE DEF T
  <2>5. acc[k + 1] \in Seq(U) /\ PagesDiffer(acc[k + 1])
    BY <2>2, <2>3, <2>4
  <2> QED
    BY <2>1, <2>5 DEF T
<1>4. Len(s) \in T
  <2> HIDE DEF T
  <2>1. \A k \in 0..Len(s) : k \in T
    BY <1>2, <1>3, UpTo
  <2> QED
    BY <2>1
<1> QED
  BY <1>1, <1>4

\* The first items of a sequence are a sequence of the same items.
LEMMA FirstsIsSeq ==
  ASSUME NEW U, NEW s \in Seq(U), NEW n \in Nat
  PROVE  Firsts(s, n) \in Seq(U)
<1>1. PICK k \in 0..Len(s) : Firsts(s, n) = SubSeq(s, 1, k)
  BY DEF Firsts
<1>2. \A i \in 1..k : s[i] \in U
  OBVIOUS
<1> QED
  BY <1>1, <1>2, SubSeqProperties

\* Whatever the providers answer, a search comes to a sequence of items of theirs.
LEMMA SearchIsSeq ==
  ASSUME NEW U, NEW raw, NEW first, NEW second, NEW n \in Nat,
         raw.items \in Seq(U), first.items \in Seq(U), second.items \in Seq(U)
  PROVE  SearchOutcome(raw, first, second, n).items \in Seq(U)
<1>1. \A how : Raised(how).items \in Seq(U)
  BY DEF Raised
<1>2. \A items \in Seq(U) : Results(items).items \in Seq(U)
  BY DEF Results
<1>3. TavilySearch(raw, n).items \in Seq(U)
  BY <1>1, <1>2, FirstsIsSeq, WholeIsSeq DEF TavilySearch
<1>4. SearchSync(first, second).items \in Seq(U)
  BY DEF SearchSync
<1>5. DuckDuckGoSearch(first, second, n).items \in Seq(U)
  BY <1>1, <1>2, <1>4, WholeIsSeq DEF DuckDuckGoSearch
<1>6. ASSUME NEW a, NEW b, a.items \in Seq(U), b.items \in Seq(U)
      PROVE  CompositeSearch(a, b, n).items \in Seq(U)
  <2>1. SafeSearch(a).items \in Seq(U) /\ SafeSearch(b).items \in Seq(U)
    <3>1. Results(<<>>).items \in Seq(U)
      BY DEF Results
    <3>2. \A o : SafeSearch(o) = o \/ SafeSearch(o) = Results(<<>>)
      BY DEF SafeSearch
    <3> QED
      BY <1>6, <3>1, <3>2
  <2>2. PICK x, y : x = SafeSearch(a) /\ y = SafeSearch(b)
    OBVIOUS
  <2>3. Results(Firsts(Deduped(x.items \o y.items), n)).items \in Seq(U)
    <3>1. x.items \o y.items \in Seq(U)
      BY <2>1, <2>2
    <3> QED
      BY <1>2, <3>1, DedupedIsDistinct, FirstsIsSeq
  <2> QED
    BY <2>1, <2>2, <2>3 DEF CompositeSearch
<1> QED
  BY <1>3, <1>5, <1>6 DEF SearchOutcome

(***************************************************************************)
(* What is stripped                                                        *)
(***************************************************************************)

\* A beginning of a text is a text of that length, with the same characters.
LEMMA Beginning ==
  ASSUME NEW S, NEW s \in Seq(S), NEW k \in 0..Len(s)
  PROVE  /\ SubSeq(s, 1, k) \in Seq(S)
         /\ Len(SubSeq(s, 1, k)) = k
         /\ \A i \in 1..k : SubSeq(s, 1, k)[i] = s[i]
<1>1. \A i \in 1..k : s[i] \in S
  OBVIOUS
<1> QED
  BY <1>1, SubSeqProperties

\* RStripped takes the characters of cs from the end, all of them and no others.
LEMMA RStrippedIsBeginning ==
  ASSUME NEW S, NEW s \in Seq(S), NEW cs
  PROVE  \E k \in 0..Len(s) :
           /\ RStripped(s, cs) = SubSeq(s, 1, k)
           /\ \A i \in (k + 1)..Len(s) : s[i] \in cs
           /\ k > 0 => s[k] \notin cs
<1> DEFINE kept == {i \in DOMAIN s : s[i] \notin cs}
<1>1. CASE kept = {}
  <2>1. SubSeq(s, 1, 0) = <<>>
    BY SubSeqEmpty
  <2> QED
    BY <1>1, <2>1 DEF RStripped
<1>2. CASE kept # {}
  <2>0. kept \in SUBSET (1..Len(s)) /\ Len(s) \in Nat
    OBVIOUS
  <2>1. PICK m : m = Max(kept)
    OBVIOUS
  <2>2. m \in kept /\ \A y \in kept : y <= m
    <3> HIDE DEF kept
    <3> QED
      BY <1>2, <2>0, <2>1, MaxIsGreatest
  <2>3. RStripped(s, cs) = SubSeq(s, 1, m)
    BY <1>2, <2>1 DEF RStripped
  <2>4. m \in 1..Len(s) /\ s[m] \notin cs
    BY <2>2
  <2>5. ASSUME NEW i \in (m + 1)..Len(s)
        PROVE  s[i] \in cs
    <3>1. i \in 1..Len(s) /\ ~(i <= m)
      BY <2>0, <2>4
    <3> QED
      BY <2>2, <3>1
  <2>6. m \in 0..Len(s) /\ m > 0
    BY <2>0, <2>4
  <2> QED
    BY <2>3, <2>4, <2>5, <2>6
<1> QED
  BY <1>1, <1>2

\* What is left of a text without its leading blanks is a text.
LEMMA LStrippedIsText ==
  ASSUME NEW S, NEW r \in Seq(S)
  PROVE  LStripped(r) \in Seq(S)
<1> DEFINE kept == {i \in DOMAIN r : r[i] \notin Whitespace}
<1>1. CASE kept = {}
  <2>1. LStripped(r) = <<>>
    BY <1>1 DEF LStripped
  <2> QED
    BY <2>1
<1>2. CASE kept # {}
  <2>0. DOMAIN r = 1..Len(r) /\ Len(r) \in Nat
    OBVIOUS
  <2>1. kept \in SUBSET (1..Len(r)) /\ Len(r) \in Nat
    BY <2>0, Zenon
  <2>2. PICK m \in 1..Len(r) : m = Min(kept)
    <3> HIDE DEF kept
    <3> QED
      BY <1>2, <2>1, MinIsLeast
  <2>3. LStripped(r) = SubSeq(r, m, Len(r))
    BY <1>2, <2>2 DEF LStripped
  <2>4. \A i \in m..Len(r) : r[i] \in S
    OBVIOUS
  <2>5. SubSeq(r, m, Len(r)) \in Seq(S)
    BY <2>4, SubSeqProperties
  <2> QED
    BY <2>3, <2>5
<1> QED
  BY <1>1, <1>2

\* What is stripped of a text is a text.
LEMMA StrippedIsText ==
  ASSUME NEW S, NEW body \in Seq(S)
  PROVE  Stripped(body) \in Seq(S)
<1>1. PICK k \in 0..Len(body) : RStripped(body, Whitespace) = SubSeq(body, 1, k)
  BY RStrippedIsBeginning
<1>2. RStripped(body, Whitespace) \in Seq(S)
  BY <1>1, Beginning
<1> QED
  BY <1>2, LStrippedIsText DEF Stripped

(***************************************************************************)
(* Where sentences end                                                     *)
(***************************************************************************)

\* EndsSentence for any kinds of character.
EndsIn(s, i, spaces, stop, quote) ==
  /\ i = Len(s) \/ s[i + 1] \in spaces
  /\ \E j \in 1..i : s[j] = stop /\ \A k \in (j + 1)..i : s[k] = quote

\* Whitespace at the end of a text does not change where its sentences end.
LEMMA EndsInBeginning ==
  ASSUME NEW S, NEW w \in Seq(S), NEW t \in Seq(S), Len(t) <= Len(w),
         NEW spaces, NEW stop, NEW quote, stop \notin spaces, quote \notin spaces,
         \A i \in 1..Len(t) : t[i] = w[i],
         \A i \in (Len(t) + 1)..Len(w) : w[i] \in spaces
  PROVE  \A i : i \in 1..Len(t) /\ EndsIn(t, i, spaces, stop, quote)
                  <=> i \in 1..Len(w) /\ EndsIn(w, i, spaces, stop, quote)
<1> DEFINE m == Len(t)
<1>1. m \in 0..Len(w)
  OBVIOUS
<1>2. ASSUME NEW i \in 1..m
      PROVE  EndsIn(t, i, spaces, stop, quote) <=> EndsIn(w, i, spaces, stop, quote)
  <2>1. (i = Len(t) \/ t[i + 1] \in spaces) <=> (i = Len(w) \/ w[i + 1] \in spaces)
    <3>1. CASE i = m
      BY <3>1
    <3>2. CASE i < m
      BY <3>2
    <3> QED
      BY <3>1, <3>2
  <2>3. (\E j \in 1..i : t[j] = stop /\ \A k \in (j + 1)..i : t[k] = quote)
          <=> (\E j \in 1..i : w[j] = stop /\ \A k \in (j + 1)..i : w[k] = quote)
    <3>1. \A j \in 1..i : \A k \in (j + 1)..i : k \in 1..m
      OBVIOUS
    <3>2. \A j \in 1..i : j \in 1..m
      OBVIOUS
    <3> QED
      BY <3>1, <3>2
  <2> QED
    BY <2>1, <2>3 DEF EndsIn
<1>3. ASSUME NEW i \in (m + 1)..Len(w)
      PROVE  ~EndsIn(w, i, spaces, stop, quote)
  <2>1. w[i] \in spaces
    OBVIOUS
  <2>2. ASSUME NEW j \in 1..i, w[j] = stop, \A k \in (j + 1)..i : w[k] = quote
        PROVE  FALSE
    <3>1. CASE j = i
      BY <2>1, <2>2, <3>1
    <3>2. CASE j < i
      <4>1. w[i] = quote
        BY <2>2, <3>2
      <4> QED
        BY <2>1, <4>1
    <3> QED
      BY <3>1, <3>2
  <2> QED
    BY <2>2 DEF EndsIn
<1>4. \A i : i \in 1..Len(w) <=> i \in 1..m \/ i \in (m + 1)..Len(w)
  OBVIOUS
<1> QED
  BY <1>1, <1>2, <1>3, <1>4, Zenon

\* A beginning of a beginning is a beginning.
LEMMA BeginningOfBeginning ==
  ASSUME NEW S, NEW s \in Seq(S), NEW m \in 0..Len(s), NEW k \in 0..m
  PROVE  SubSeq(SubSeq(s, 1, m), 1, k) = SubSeq(s, 1, k)
<1>1. PICK t \in Seq(S) : /\ t = SubSeq(s, 1, m)
                         /\ Len(t) = m
                         /\ \A i \in 1..m : t[i] = s[i]
  BY Beginning
<1>2. /\ SubSeq(t, 1, k) \in Seq(S)
      /\ Len(SubSeq(t, 1, k)) = k
      /\ \A i \in 1..k : SubSeq(t, 1, k)[i] = t[i]
  BY <1>1, Beginning
<1>3. /\ SubSeq(s, 1, k) \in Seq(S)
      /\ Len(SubSeq(s, 1, k)) = k
      /\ \A i \in 1..k : SubSeq(s, 1, k)[i] = s[i]
  BY Beginning
<1>4. \A i \in 1..k : SubSeq(t, 1, k)[i] = SubSeq(s, 1, k)[i]
  BY <1>1, <1>2, <1>3
<1> QED
  BY <1>1, <1>2, <1>3, <1>4, SeqEqual

(***************************************************************************)
(* Where a text is cut                                                     *)
(***************************************************************************)

\* Before the character at b, and without the commas before it, a text is cut at one
\* of these.
LEMMA CutAtWord ==
  ASSUME NEW S, NEW s \in Seq(S), NEW b \in 1..Len(s), NEW commas
  PROVE  \E k \in 0..(b - 1) :
           /\ RStripped(SubSeq(s, 1, b - 1), commas) = SubSeq(s, 1, k)
           /\ s[k + 1] \in commas \cup {s[b]}
<1>1. b - 1 \in 0..Len(s) /\ b - 1 \in Nat
  OBVIOUS
<1>2. PICK u : u = SubSeq(s, 1, b - 1)
  OBVIOUS
<1>3. u \in Seq(S) /\ Len(u) = b - 1 /\ \A i \in 1..(b - 1) : u[i] = s[i]
  BY <1>1, <1>2, Beginning
<1>4. PICK k \in 0..(b - 1) : /\ RStripped(u, commas) = SubSeq(u, 1, k)
                             /\ \A i \in (k + 1)..(b - 1) : u[i] \in commas
  BY <1>3, RStrippedIsBeginning
<1>5. SubSeq(u, 1, k) = SubSeq(s, 1, k)
  BY <1>1, <1>2, BeginningOfBeginning
<1>6. s[k + 1] \in commas \cup {s[b]}
  <2>1. CASE k = b - 1
    BY <2>1
  <2>2. CASE k < b - 1
    <3>1. k + 1 \in (k + 1)..(b - 1) /\ k + 1 \in 1..(b - 1)
      BY <1>1, <2>2
    <3> QED
      BY <1>3, <1>4, <3>1
  <2> QED
    BY <1>1, <2>1, <2>2
<1> QED
  BY <1>2, <1>4, <1>5, <1>6

\* When an end of sentence is late enough, so is the last one.
LEMMA LastEndIsLate ==
  ASSUME NEW m \in Nat, NEW ends \in SUBSET (1..m), NEW limit \in Nat,
         NEW i \in ends, 10 * i > 4 * limit
  PROVE  10 * (IF Max(ends) = m THEN Max(ends) ELSE Max(ends) + 1) > 4 * limit
<1>1. PICK best : best = Max(ends)
  OBVIOUS
<1>2. best \in ends /\ i <= best
  BY <1>1, MaxIsGreatest
<1>3. i \in Nat /\ best \in Nat
  BY <1>2
<1> QED
  BY <1>1, <1>2, <1>3

\* A text that is too long is cut to a beginning of itself: at the last end of a
\* sentence, if it is late enough, and else at a blank or a comma, if there is a blank.
LEMMA LongTextIsCut ==
  ASSUME NEW body \in Seq(Characters), NEW limit \in Nat,
         NEW s, s = Stripped(body), Len(s) > limit
  PROVE  LET full == {i \in 1..limit :
                        i <= Len(s) /\ EndsSentence(SubSeq(s, 1, limit), i)}
         IN  \E n \in 0..limit :
               /\ cap_cover_letter_body(body, limit) = SubSeq(s, 1, n)
               /\ (\E i \in full : 10 * i > 4 * limit) => n = Max(full)
               /\ s[n + 1] \in {"w", "q"} => n \in full \/ \A i \in 1..limit : s[i] # " "
<1> DEFINE full == {i \in 1..limit : i <= Len(s) /\ EndsSentence(SubSeq(s, 1, limit), i)}
<1> SUFFICES \E n \in 0..limit :
               /\ cap_cover_letter_body(body, limit) = SubSeq(s, 1, n)
               /\ (\E i \in full : 10 * i > 4 * limit) => n = Max(full)
               /\ s[n + 1] \in {"w", "q"} => n \in full \/ \A i \in 1..limit : s[i] # " "
  OBVIOUS
<1>0. s \in Seq(Characters)
  BY StrippedIsText
<1>1. PICK blank, spaces, stop, quote, commas :
        /\ blank = " " /\ spaces = Whitespace
        /\ stop = "." /\ quote = "q" /\ commas = {".", ","}
  OBVIOUS
<1>2. stop \notin spaces /\ quote \notin spaces /\ blank \in spaces
  BY <1>1, Zenon DEF Whitespace
<1>3. PICK w, t, cut :
        /\ w = SubSeq(s, 1, limit)
        /\ t = RStripped(w, spaces)
        /\ cut = cap_cover_letter_body(body, limit)
  OBVIOUS
<1>4. PICK ends, blanks :
        /\ ends = {i \in DOMAIN t : EndsIn(t, i, spaces, stop, quote)}
        /\ blanks = {i \in DOMAIN t : t[i] = blank}
  OBVIOUS
<1>5. PICK late :
        late = (/\ ends # {}
                /\ 10 * (IF Max(ends) = Len(t) THEN Max(ends) ELSE Max(ends) + 1)
                     > 4 * limit)
  OBVIOUS
<1>6. \A x, i : EndsSentence(x, i) <=> EndsIn(x, i, spaces, stop, quote)
  BY <1>1, Zenon DEF EndsSentence, EndsIn
<1>7. /\ late => cut = SubSeq(t, 1, Max(ends))
      /\ ~late /\ blanks = {} => cut = t
      /\ ~late /\ blanks # {} => cut = RStripped(SubSeq(t, 1, Max(blanks) - 1), commas)
  <2>1. ends = {i \in DOMAIN t : EndsSentence(t, i)}
    BY <1>4, <1>6, Zenon
  <2>2. blanks = {i \in DOMAIN t : t[i] = " "}
    BY <1>1, <1>4, Zenon
  <2>3. t = RStripped(SubSeq(s, 1, limit), Whitespace)
    BY <1>1, <1>3, Zenon
  <2>4. ~(Len(s) <= limit)
    BY <1>0
  <2>5. cut = CASE Len(s) <= limit -> s
                [] Len(s) > limit /\ late -> SubSeq(t, 1, Max(ends))
                [] OTHER -> IF blanks = {} THEN t
                            ELSE RStripped(SubSeq(t, 1, Max(blanks) - 1), commas)
    BY <1>1, <1>3, <1>5, <2>1, <2>2, <2>3, Zenon DEF cap_cover_letter_body
  <2> QED
    BY <2>4, <2>5, Zenon
<1>8. full = {i \in 1..limit : EndsIn(w, i, spaces, stop, quote)}
  BY <1>0, <1>3, <1>6
<1> HIDE DEF full
<1>9. /\ w \in Seq(Characters) /\ Len(w) = limit
      /\ \A i \in 1..limit : w[i] = s[i]
  BY <1>0, <1>3, Beginning
<1>10. PICK m \in 0..limit : /\ t = SubSeq(w, 1, m)
                            /\ \A i \in (m + 1)..limit : w[i] \in spaces
  <2>1. PICK m \in 0..Len(w) : /\ RStripped(w, spaces) = SubSeq(w, 1, m)
                              /\ \A i \in (m + 1)..Len(w) : w[i] \in spaces
    BY <1>9, RStrippedIsBeginning
  <2> QED
    BY <1>3, <1>9, <2>1
<1>11. /\ t \in Seq(Characters) /\ Len(t) = m /\ DOMAIN t = 1..m
       /\ \A i \in 1..m : t[i] = w[i]
  BY <1>9, <1>10, Beginning
<1>12. t = SubSeq(s, 1, m)
  <2>1. w = SubSeq(s, 1, limit) /\ limit \in 0..Len(s)
    BY <1>3
  <2>2. SubSeq(SubSeq(s, 1, limit), 1, m) = SubSeq(s, 1, m)
    BY <1>0, <2>1, BeginningOfBeginning
  <2> QED
    BY <1>10, <2>1, <2>2, Zenon
<1>13. ends = full
  <2>1. Len(t) <= Len(w) /\ \A i \in 1..Len(t) : t[i] = w[i]
    BY <1>9, <1>11
  <2>2. \A i \in (Len(t) + 1)..Len(w) : w[i] \in spaces
    BY <1>9, <1>10, <1>11
  <2>3. \A i : i \in 1..Len(t) /\ EndsIn(t, i, spaces, stop, quote)
                 <=> i \in 1..Len(w) /\ EndsIn(w, i, spaces, stop, quote)
    BY <1>2, <1>9, <1>11, <2>1, <2>2, EndsInBeginning
  <2> QED
    BY <1>4, <1>8, <1>9, <1>11, <2>3, Zenon
<1>14. ends \in SUBSET (1..m) /\ m \in Nat
  BY <1>4, <1>11
<1>15. CASE late
  <2>1. PICK best \in 1..m : best = Max(ends) /\ best \in ends
    BY <1>5, <1>14, <1>15, MaxIsGreatest
  <2>2. cut = SubSeq(s, 1, best)
    BY <1>0, <1>7, <1>12, <1>15, <2>1, BeginningOfBeginning
  <2>3. best \in 0..limit
    OBVIOUS
  <2> QED
    BY <1>3, <1>13, <2>1, <2>2, <2>3, Zenon
<1>16. CASE ~late
  <2>1. ~(\E i \in full : 10 * i > 4 * limit)
    <3> SUFFICES ASSUME NEW i \in ends, 10 * i > 4 * limit PROVE FALSE
      BY <1>13
    <3>1. late
      BY <1>5, <1>11, <1>14, LastEndIsLate
    <3> QED
      BY <1>16, <3>1
  <2>2. blanks = {i \in 1..m : s[i] = blank}
    BY <1>4, <1>9, <1>11
  <2>3. \A i \in (m + 1)..limit : s[i] \in spaces
    BY <1>9, <1>10
  <2> DEFINE Good(n) ==
        /\ cut = SubSeq(s, 1, n)
        /\ s[n + 1] \in commas \cup spaces \/ \A i \in 1..limit : s[i] # blank
  <2>4. ASSUME blanks = {}
        PROVE  \E n \in 0..limit : Good(n)
    <3>1. m < limit => s[m + 1] \in commas \cup spaces
      BY <2>3
    <3>2. m = limit => \A i \in 1..limit : s[i] # blank
      BY <2>2, <2>4
    <3>3. cut = SubSeq(s, 1, m)
      BY <1>7, <1>12, <1>16, <2>4
    <3> QED
      BY <3>1, <3>2, <3>3
  <2>5. ASSUME blanks # {}
        PROVE  \E n \in 0..limit : Good(n)
    <3>1. blanks \in SUBSET (1..m)
      BY <2>2
    <3>2. PICK b \in 1..m : b = Max(blanks) /\ b \in blanks
      BY <1>14, <2>5, <3>1, MaxIsGreatest
    <3>3. b - 1 \in 0..m /\ b \in 1..Len(s) /\ s[b] = blank
      BY <2>2, <3>2
    <3>4. SubSeq(t, 1, b - 1) = SubSeq(s, 1, b - 1)
      BY <1>0, <1>12, <3>3, BeginningOfBeginning
    <3>5. cut = RStripped(SubSeq(s, 1, b - 1), commas)
      BY <1>7, <1>16, <2>5, <3>2, <3>4
    <3>6. PICK k \in 0..(b - 1) : /\ cut = SubSeq(s, 1, k)
                                 /\ s[k + 1] \in commas \cup {blank}
      BY <1>0, <3>3, <3>5, CutAtWord
    <3>7. k \in 0..limit
      OBVIOUS
    <3> QED
      BY <1>2, <3>6, <3>7
  <2>6. PICK n \in 0..limit : Good(n)
    BY <2>4, <2>5
  <2>7. s[n + 1] \in commas \cup spaces => s[n + 1] \notin {"w", "q"}
    BY <1>1, Zenon DEF Whitespace
  <2> QED
    BY <1>1, <1>3, <2>1, <2>6, <2>7, Zenon
<1> QED
  BY <1>15, <1>16

(***************************************************************************)
(* The theorem                                                             *)
(***************************************************************************)

\* Every text is cut as CutsFit asks: cap_cover_letter_body keeps one that fits, and
\* cuts one that does not at the last end of a sentence, at a blank or at a comma.
THEOREM CutsAlwaysFit ==
  ASSUME NEW texts \in SUBSET Seq(Characters), NEW limit \in Nat
  PROVE  CutsFit(texts, limit)
<1> SUFFICES ASSUME NEW body \in texts
             PROVE  CutsFit({body}, limit)
  BY DEF CutsFit
<1>1. PICK s, cut : s = Stripped(body) /\ cut = cap_cover_letter_body(body, limit)
  OBVIOUS
<1>2. s \in Seq(Characters) /\ Len(s) \in Nat
  BY <1>1, StrippedIsText
<1> DEFINE full == {i \in 1..limit : i <= Len(s) /\ EndsSentence(SubSeq(s, 1, limit), i)}
<1>3. CASE Len(s) <= limit
  <2>0. ~(Len(s) > limit)
    BY <1>2, <1>3
  <2>1. cut = s
    BY <1>1, <1>3, <2>0, Zenon DEF cap_cover_letter_body
  <2>2. IsPrefix(cut, s) /\ Len(cut) <= limit
    BY <1>2, <1>3, <2>1 DEF IsPrefix
  <2> QED
    BY <1>1, <1>3, <2>0, <2>1, <2>2, Zenon DEF CutsFit
<1>4. CASE Len(s) > limit
  <2>1. PICK n \in 0..limit :
          /\ cut = SubSeq(s, 1, n)
          /\ (\E i \in full : 10 * i > 4 * limit) => n = Max(full)
          /\ s[n + 1] \in {"w", "q"} => n \in full \/ \A i \in 1..limit : s[i] # " "
    BY <1>1, <1>4, LongTextIsCut
  <2> HIDE DEF full
  <2>2. n \in 0..Len(s) /\ n <= limit /\ ~(Len(s) <= limit)
    BY <1>2, <1>4
  <2>3. cut \in Seq(Characters) /\ Len(cut) = n
    BY <1>2, <2>1, <2>2, Beginning
  <2>4. IsPrefix(cut, s)
    <3>1. SubSeq(cut, 1, Len(cut)) = cut
      BY <2>3, SubSeqFull
    <3>2. Len(cut) <= Len(s)
      BY <1>2, <2>2, <2>3
    <3>3. SubSeq(s, 1, Len(cut)) = cut
      BY <2>1, <2>3, Zenon
    <3> QED
      BY <3>1, <3>2, <3>3, Zenon DEF IsPrefix
  <2> QED
    BY <1>1, <2>1, <2>2, <2>3, <2>4, Zenon DEF CutsFit, full
<1> QED
  BY <1>2, <1>3, <1>4
=============================================================================
