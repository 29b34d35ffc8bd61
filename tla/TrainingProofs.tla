--------------------------- MODULE TrainingProofs ---------------------------
(***************************************************************************)
(* Proofs, for any number of keys below the bound and any errors of the    *)
(* regression, that the bulk load divides the keys into models, stays      *)
(* within them, and that the assertion of backward_train fails only for    *)
(* the segments AbortsExplained describes.                                 *)
(*                                                                         *)
(* The argument: backward_train is entered with the whole segment, which   *)
(* does not fit and has more than ten keys, and a step that is a power of  *)
(* ten below its length.  What it tries is congruent to the length modulo  *)
(* the step.  It reaches zero or less only if the last piece it tried, of  *)
(* at most a step, did not fit: so the step is 100 or more.  At zero the   *)
(* recursive call tries nine keys, which fit; below zero it fails.         *)
(***************************************************************************)
EXTENDS Training, TLAPS

-----------------------------------------------------------------------------
(* The inductive invariant *)

\* The steps of backward_train.
Steps == {0, 1} \cup Powers

\* A first step with which the segment is not used up without a rest.
Explained ==
    \E p \in Powers : /\ 100 <= p /\ 10 * p <= learning_step
                      /\ p < end - start /\ (end - start) % p > Fit

\* The segment that train works on.
Segment ==
    /\ start <= n
    /\ pc # "done" => end = n \/ (start + 10 <= end /\ end <= n)
    /\ pc = "done" => end <= n

\* A call of backward_train: for the segment, for nothing, for a negative rest.
Called ==
    \/ /\ size = end - start /\ size > Fit
       /\ step > 0 /\ 10 * step <= learning_step
    \/ size = 0 /\ 10 <= end - start
    \/ size < 0 /\ Explained

\* Its loop: for the segment, for ten keys, for a negative rest.
Shrinking ==
    \/ /\ step > 0 /\ 10 * step <= learning_step
       /\ step < end - start /\ -step < back /\ back < end - start
       /\ (end - start - back) % step = 0
       /\ back <= 0 => back + step > Fit
       /\ end - start > Fit
    \/ step = 1 /\ back = 9 /\ 10 <= end - start
    \/ size < 0 /\ back < 0 /\ Explained

IInv ==
    /\ TypeOK
    /\ variant = "Kanva" => n \in KanvaSizes
    /\ Segment
    /\ Partition
    /\ step \in Steps
    /\ pc = "call" => Called
    /\ pc = "shrink" => Shrinking
    /\ pc = "aborted" => Explained

-----------------------------------------------------------------------------
(* Arithmetic *)

LEMMA StepValues ==
    /\ Powers = {10, 100, 1000, 10000, 100000, 1000000, 10000000, 100000000}
    /\ Powers \subseteq Nat /\ Steps \subseteq Nat
    /\ \A p \in Powers : p >= 10 /\ p \div 10 \in Steps /\ p \div 10 > 0 /\ 10 * (p \div 10) = p
    /\ \A p \in Steps : p \div 10 \in Steps /\ (p > 1 => p \div 10 > 0 /\ p \div 10 < p)
    /\ \A p \in Steps : p > 10 => 100 <= p
BY SMT DEF Powers, Steps

\* Cutting a step off keeps the rest modulo the step, and a rest between -step and
\* zero says what the length is modulo the step.
LEMMA StepModulo ==
    ASSUME NEW p \in Steps, p > 0, NEW L \in Nat, NEW b \in Int
    PROVE  /\ p % p = 0
           /\ (L - b) % p = 0 => (L - (b - p)) % p = 0
           /\ (L - b) % p = 0 /\ -p < b /\ b < 0 => L % p = b + p
BY SMT DEF Steps, Powers

\* learning_step after a model of k keys.
LEMMA ScaleChosen ==
    ASSUME NEW k, \E p \in Powers : (p <= k \/ p = 10) /\ k < 10 * p
    PROVE  Scale(k) \in Powers
BY Zenon DEF Scale

LEMMA ScaleValue ==
    ASSUME NEW k \in Nat, k <= 999999999
    PROVE  Scale(k) \in Powers
<1> DEFINE Q(p) == (p <= k \/ p = 10) /\ k < 10 * p
<1>1. \/ Q(10) \/ Q(100) \/ Q(1000) \/ Q(10000)
      \/ Q(100000) \/ Q(1000000) \/ Q(10000000) \/ Q(100000000)
  BY SMT
<1>2. \A p \in {10, 100, 1000, 10000, 100000, 1000000, 10000000, 100000000} : p \in Powers
  BY SMT DEF Powers
<1>3. \E p \in Powers : Q(p)
  BY <1>1, <1>2, SMT
<1> QED BY <1>3, ScaleChosen, SMT

\* What the first k keys of a segment may err by.
LEMMA ErrorsOf ==
    ASSUME NEW k \in Int
    PROVE  /\ Errors(k) \subseteq {"less", "equal", "more"}
           /\ "more" \in Errors(k) => k > Fit
           /\ "equal" \in Errors(k) => k > Fit
           /\ k <= Fit => Errors(k) = {"less"}
BY TrainingAssumption, SMT DEF Errors

LEMMA SizeBound == IInv /\ variant = "Kanva" => n <= 999999999
<1> SUFFICES ASSUME IInv, variant = "Kanva" PROVE n <= 999999999
  OBVIOUS
<1>1. n \in KanvaSizes
  BY SMT DEF IInv
<1> QED BY <1>1, TrainingAssumption, SMT

LEMMA Numbers == IInv => /\ start \in Nat /\ end \in Nat /\ n \in Nat /\ covered \in Nat
                         /\ learning_step \in Nat /\ learning_step >= 10
                         /\ step \in Nat /\ size \in Int /\ back \in Int
BY TrainingAssumption, StepValues, SMT DEF IInv, TypeOK

-----------------------------------------------------------------------------
(* The initial state, and what append_model and NextSegment do *)

LEMMA InitIInv == Init => IInv
<1> SUFFICES ASSUME Init PROVE IInv
  OBVIOUS
<1>1. 1000 \in Powers /\ 0 \in Steps
  BY SMT DEF Powers, Steps
<1>2. n \in KanvaSizes \cup RSSizes /\ (variant = "Kanva" => n \in KanvaSizes)
  BY SMT DEF Init
<1>3. n \in Nat
  BY <1>2, TrainingAssumption, SMT
<1> QED BY <1>1, <1>2, <1>3, SMT DEF Init, IInv, TypeOK, Segment, Partition, Smaller

\* A model of the first k keys of the segment, after which train goes on.
LEMMA Appended ==
    ASSUME IInv, NEW k \in Nat, k > 0, start + k <= n, start = covered,
           append_model(k), NextSegment(start + k), UNCHANGED input,
           step' \in Steps, size' \in Int, back' \in Int
    PROVE  IInv'
<1>1. learning_step' \in Powers
  <2>1. CASE variant = "Kanva"
    <3>1. k <= 999999999
      BY <2>1, SizeBound, Numbers, SMT
    <3> QED BY <2>1, <3>1, ScaleValue, SMT DEF append_model
  <2> QED BY <2>1, SMT DEF append_model, IInv, TypeOK
<1>2. learning_step' \in Nat /\ learning_step' >= 10 /\ step' \in Nat
  BY <1>1, StepValues, SMT
<1>3. start' = start + k /\ covered' = start + k /\ pc' = "train" /\ fitted' = 0 /\ n' = n /\ variant' = variant
  BY SMT DEF append_model, NextSegment, input
<1>4. end' \in Nat /\ (end' = n \/ (start' + 10 <= end' /\ end' <= n))
  BY <1>2, <1>3, Numbers, SMT DEF NextSegment, Smaller
<1>5. TypeOK'
  BY <1>1, <1>2, <1>3, <1>4, Numbers, SMT DEF IInv, TypeOK
<1>6. Segment' /\ Partition'
  BY <1>3, <1>4, Numbers, SMT DEF Segment, Partition
<1> QED BY <1>3, <1>5, <1>6, SMT DEF IInv

-----------------------------------------------------------------------------
(* Every action keeps the invariant *)

LEMMA TakeIInv == IInv /\ Take => IInv'
<1> SUFFICES ASSUME IInv, Take PROVE IInv'
  OBVIOUS
<1> DEFINE k == end - start
<1>1. k \in Nat /\ k > 0 /\ start + k <= n /\ start + k = end /\ start = covered
  BY Numbers, SMT DEF IInv, Take, Segment, Partition
<1>2. append_model(k) /\ NextSegment(start + k) /\ UNCHANGED input
  BY <1>1, SMT DEF Take
<1>3. step' \in Steps /\ size' \in Int /\ back' \in Int
  BY SMT DEF Take, backward, IInv, TypeOK
<1> HIDE DEF k
<1> QED BY <1>1, <1>2, <1>3, Appended, SMT

LEMMA TakeShrunkIInv == IInv /\ TakeShrunk => IInv'
<1> SUFFICES ASSUME IInv, TakeShrunk PROVE IInv'
  OBVIOUS
<1>1. back \in Nat /\ back > 0 /\ start + back <= n /\ start = covered
  BY Numbers, SMT DEF IInv, TakeShrunk, ShrunkTo, Shrinking, Segment, Partition
<1>2. append_model(back) /\ NextSegment(start + back) /\ UNCHANGED input
  BY SMT DEF TakeShrunk, ShrunkTo
<1>3. step' \in Steps /\ size' \in Int /\ back' \in Int
  BY SMT DEF TakeShrunk, ShrunkTo, Steps
<1> QED BY <1>1, <1>2, <1>3, Appended, SMT

LEMMA ExtendIInv == IInv /\ Extend => IInv'
BY Numbers, SMT DEF IInv, TypeOK, Segment, Partition, Extend, ExtendTo, Smaller, input, backward

LEMMA TakeLastIInv == IInv /\ TakeLast => IInv'
<1> SUFFICES ASSUME IInv, TakeLast PROVE IInv'
  OBVIOUS
<1>1. end - start \in Nat /\ end - start <= 999999999
  BY SizeBound, Numbers, SMT DEF IInv, TakeLast, Segment
<1>2. learning_step' \in Powers
  BY <1>1, ScaleValue, SMT DEF TakeLast, append_model
<1>3. /\ covered' = end /\ covered' = n /\ end = n
      /\ UNCHANGED <<variant, n, start, end, fitted, size, step, back>> /\ pc' = "done"
  BY Numbers, SMT DEF IInv, TakeLast, append_model, Segment, Partition, input, segment, backward
<1> QED BY <1>2, <1>3, Numbers, SMT DEF IInv, TypeOK, Segment, Partition

LEMMA CutBackIInv == IInv /\ CutBack => IInv'
<1> SUFFICES ASSUME IInv, CutBack PROVE IInv'
  OBVIOUS
<1>1. end - start \in Int /\ end - start > Fit
  BY Numbers, ErrorsOf, SMT DEF CutBack
<1>2. step' \in Steps /\ step' \in Nat /\ step' > 0 /\ 10 * step' <= learning_step
  BY StepValues, SMT DEF CutBack, IInv, TypeOK
<1>3. Called'
  BY <1>1, <1>2, SMT DEF CutBack, Called, segment
<1> QED BY <1>1, <1>2, <1>3, SMT DEF IInv, TypeOK, Segment, Partition, CutBack, input, segment

LEMMA FinishIInv == IInv /\ Finish => IInv'
BY Numbers, SMT DEF IInv, TypeOK, Segment, Partition, Finish, input, segment, backward

LEMMA ReduceIInv == IInv /\ Reduce => IInv'
<1> SUFFICES ASSUME IInv, Reduce PROVE IInv'
  OBVIOUS
<1>1. size > 10 /\ size <= step
  BY Numbers, SMT DEF Reduce, AtMost
<1>2. step' \in Steps /\ step' \in Nat /\ step' > 0 /\ step' < step
  BY <1>1, Numbers, StepValues, SMT DEF Reduce, IInv
<1>3. Called'
  BY <1>1, <1>2, Numbers, SMT DEF Called, Reduce, IInv, segment
<1> QED BY <1>2, <1>3, SMT DEF IInv, TypeOK, Segment, Partition, Reduce, input, segment

LEMMA EnterSmallIInv == IInv /\ EnterSmall => IInv'
<1> SUFFICES ASSUME IInv, EnterSmall PROVE IInv'
  OBVIOUS
<1>1. 10 <= end - start
  BY TrainingAssumption, Numbers, SMT DEF IInv, EnterSmall, AtMost, Called
<1>2. step' = 1 /\ back' = 9 /\ pc' = "shrink" /\ UNCHANGED <<input, learning_step, segment, size, covered>>
  BY SMT DEF EnterSmall, Enter
<1>3. Shrinking' /\ 1 \in Steps
  BY <1>1, <1>2, SMT DEF Shrinking, segment, Steps
<1> QED BY <1>2, <1>3, SMT DEF IInv, TypeOK, Segment, Partition, EnterSmall, input, segment

LEMMA EnterLargeIInv == IInv /\ EnterLarge => IInv'
<1> SUFFICES ASSUME IInv, EnterLarge PROVE IInv'
  OBVIOUS
<1>1. /\ step' = step /\ back' = size - step /\ pc' = (IF step > 0 THEN "shrink" ELSE "aborted")
      /\ UNCHANGED <<input, learning_step, segment, size, covered>>
  BY SMT DEF EnterLarge, Enter
<1>2. size < 0 \/ (size > 10 /\ size > step)
  BY Numbers, SMT DEF EnterLarge, AtMost
<1>3. CASE size < 0
  <2>1. Explained /\ UNCHANGED <<learning_step, start, end>>
    BY <1>1, <1>3, Numbers, TrainingAssumption, SMT DEF IInv, Called, EnterLarge, segment
  <2>2. Explained'
    BY <2>1, SMT DEF Explained
  <2>3. step > 0 => Shrinking'
    BY <1>1, <1>3, <2>2, Numbers, SMT DEF Shrinking
  <2> QED BY <1>1, <1>3, <2>2, <2>3, Numbers, SMT DEF IInv, TypeOK, Segment, Partition, EnterLarge, input, segment
<1>4. CASE size > 10 /\ size > step
  <2>1. size = end - start /\ size > Fit /\ step > 0 /\ 10 * step <= learning_step
    BY <1>4, Numbers, SMT DEF IInv, Called, EnterLarge
  <2>2. (end - start - back') % step = 0
    <3>1. end - start - back' = step
      BY <1>1, <2>1, Numbers, SMT
    <3> QED BY <2>1, <3>1, StepModulo, SMT DEF IInv
  <2>3. Shrinking'
    BY <1>1, <1>4, <2>1, <2>2, Numbers, SMT DEF Shrinking, segment
  <2> QED BY <1>1, <2>1, <2>3, Numbers, SMT DEF IInv, TypeOK, Segment, Partition, EnterLarge, input, segment
<1> QED BY <1>2, <1>3, <1>4

LEMMA ShrinkIInv == IInv /\ Shrink => IInv'
<1> SUFFICES ASSUME IInv, Shrink PROVE IInv'
  OBVIOUS
<1>1. /\ back > Fit /\ back' = back - step /\ pc' = pc /\ pc = "shrink"
      /\ UNCHANGED <<input, learning_step, segment, size, step, covered>>
  BY Numbers, ErrorsOf, SMT DEF Shrink
<1>2. /\ step > 0 /\ 10 * step <= learning_step /\ step < end - start /\ back < end - start
      /\ (end - start - back) % step = 0 /\ end - start > Fit
  BY <1>1, TrainingAssumption, Numbers, SMT DEF IInv, Shrinking
<1>3. (end - start - back') % step = 0
  BY <1>1, <1>2, Numbers, StepModulo, SMT DEF IInv
<1>4. Shrinking'
  BY <1>1, <1>2, <1>3, TrainingAssumption, Numbers, SMT DEF Shrinking, Shrink, segment
<1> QED BY <1>1, <1>4, Numbers, SMT DEF IInv, TypeOK, Segment, Partition, input, segment

LEMMA AgainIInv == IInv /\ Again => IInv'
<1> SUFFICES ASSUME IInv, Again PROVE IInv'
  OBVIOUS
<1>1. /\ size' = back /\ step' = step \div 10 /\ pc' = "call" /\ pc = "shrink" /\ back <= 0
      /\ UNCHANGED <<input, learning_step, segment, back, covered>>
  BY SMT DEF Again, AgainWith
<1>2. step' \in Steps /\ step' \in Nat
  BY <1>1, StepValues, SMT DEF IInv
<1>3. Called'
  <2>1. CASE size < 0 /\ back < 0 /\ Explained
    BY <1>1, <2>1, SMT DEF Called, Explained, segment
  <2>2. CASE /\ step > 0 /\ 10 * step <= learning_step
             /\ step < end - start /\ -step < back
             /\ (end - start - back) % step = 0
             /\ back + step > Fit
    <3>1. step \in Steps /\ step > 10
      BY <1>1, <2>2, TrainingAssumption, Numbers, SMT DEF IInv
    <3>2. step \in Powers /\ 100 <= step
      BY <3>1, StepValues, SMT DEF Steps
    <3>3. CASE back = 0
      BY <1>1, <2>2, <3>3, <3>1, Numbers, SMT DEF Called, segment
    <3>4. CASE back < 0
      <4>1. (end - start) % step = back + step
        BY <2>2, <3>1, <3>4, Numbers, StepModulo, SMT
      <4>2. Explained
        BY <2>2, <3>2, <4>1, SMT DEF Explained
      <4> QED BY <1>1, <3>4, <4>2, SMT DEF Called, Explained, segment
    <3> QED BY <1>1, <3>3, <3>4, Numbers, SMT
  <2> QED BY <1>1, <2>1, <2>2, SMT DEF IInv, Shrinking
<1> QED BY <1>1, <1>2, <1>3, Numbers, SMT DEF IInv, TypeOK, Segment, Partition, input, segment

LEMMA NextIInv == IInv /\ [Next]_vars => IInv'
<1> SUFFICES ASSUME IInv, [Next]_vars PROVE IInv'
  OBVIOUS
<1>1. CASE UNCHANGED vars
  BY <1>1, SMT DEF vars, input, segment, backward, IInv, TypeOK, Segment, Partition, Called,
                   Shrinking, Explained
<1> QED
  BY <1>1, TakeIInv, ExtendIInv, TakeLastIInv, CutBackIInv, FinishIInv, ReduceIInv, EnterSmallIInv,
     EnterLargeIInv, ShrinkIInv, TakeShrunkIInv, AgainIInv DEF Next

LEMMA Invariance == Spec => []IInv
<1> QED BY InitIInv, NextIInv, PTL DEF Spec

-----------------------------------------------------------------------------
(* The theorems *)

\* Divides: train and backward_train divide the keys into models: each begins where
\* the one before ended, and when train returns every key has its model.
THEOREM Divides == Spec => []Partition
<1>1. IInv => Partition
  BY DEF IInv
<1> QED BY <1>1, Invariance, PTL

\* InBounds: no segment that train or backward_train fits reaches past the last key.
THEOREM InBounds == Spec => []ReadsInBounds
<1>1. IInv => ReadsInBounds
  BY Numbers, SMT DEF IInv, ReadsInBounds, Segment, Shrinking
<1> QED BY <1>1, Invariance, PTL

\* Aborts: the assertion step>0 of backward_train fails for no other segments than
\* those with a rest that does not fit modulo a power of ten from 100 on.
THEOREM Aborts == Spec => []AbortsExplained
<1>1. IInv => AbortsExplained
  BY DEF IInv, AbortsExplained, Explained
<1> QED BY <1>1, Invariance, PTL

=============================================================================
