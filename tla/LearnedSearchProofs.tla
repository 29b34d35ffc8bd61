------------------------- MODULE LearnedSearchProofs -------------------------
(***************************************************************************)
(* Proofs, for arrays of any length and any keys, that the searches of     *)
(* LearnedSearch stay inside their array, that the two searches in a model *)
(* find the keys of the model, and that the search for a model returns the *)
(* lower bound.  The loop invariants of the former say that the key lies   *)
(* between lo and hi if the array has it; that of the latter that the      *)
(* bound lies in a window behind pos whose width is a power of two.        *)
(***************************************************************************)
EXTENDS LearnedSearch, TLAPS

-----------------------------------------------------------------------------
(* The inductive invariant *)

\* The array, the key and the error bound of the model.
InputOK ==
    /\ cap \in Nat \ {0}
    /\ arr \in [Index -> Int]
    /\ \A i, j \in Index : i < j => arr[i] < arr[j]
    /\ key \in Int
    /\ maxErr \in Nat
    /\ search \in {"window", "gallop", "branchless"}

LocalsOK ==
    /\ pos \in Int /\ lo \in Int /\ hi \in Int /\ step \in Nat /\ result \in Int
    /\ pc \in {"window", "windowLoop", "gallop", "gallopRight", "gallopLeft", "halve",
               "branchless", "branchlessLoop", "done"}
    /\ pc \in {"window", "windowLoop"} => search = "window"
    /\ pc \in {"gallop", "gallopRight", "gallopLeft", "halve"} => search = "gallop"
    /\ pc \in {"branchless", "branchlessLoop"} => search = "branchless"

\* If the array has the key, it is between a and b.
Within(a, b) == \A i \in Index : arr[i] = key => a <= i /\ i <= b

\* What is left to binary_search_branchless when step positions are tried next.
Width(s) == IF s = 0 THEN 1 ELSE 2 * s

\* The keys up to position p are below the key, and those from p + w on are not,
\* unless p + w is the last position.
Window(p, w) ==
    /\ p >= -1 /\ p + w <= Last
    /\ p >= 0 => arr[p] < key
    /\ p + w = Last \/ arr[p + w] >= key

Loops ==
    /\ pc = "window" => pos \in Index /\ Within(pos - maxErr, pos + maxErr)
    /\ pc = "windowLoop" => lo \in Index /\ hi \in Index /\ lo <= hi /\ Within(lo, hi)
    /\ pc = "gallop" => pos \in Index
    /\ pc = "gallopRight" => lo >= 0
    /\ pc = "gallopLeft" => hi \in Index /\ lo <= hi /\ Within(0, hi)
    /\ pc = "halve" => lo >= 0 /\ hi <= Last /\ Within(lo, hi)
    /\ pc = "branchlessLoop" => (step = 0 \/ PowerOfTwo(step)) /\ Window(pos, Width(step))

IInv == InputOK /\ LocalsOK /\ Loops /\ KeyFound /\ LowerBound

LEMMA InitIInv == Init => IInv
<1> SUFFICES ASSUME Init PROVE IInv
  OBVIOUS
<1>1. InputOK
  BY BoundsAssumption DEF Init, InputOK, Index, Last
<1>2. LocalsOK
  BY DEF Init, LocalsOK, Index
<1>3. Loops
  BY <1>1 DEF Init, Loops, Within, Near
<1>4. KeyFound /\ LowerBound
  BY DEF Init, KeyFound, LowerBound
<1> QED BY <1>1, <1>2, <1>3, <1>4 DEF IInv

\* The inputs do not change.
LEMMA InputStays == IInv /\ [Next]_vars => InputOK' /\ UNCHANGED input
<1> SUFFICES ASSUME IInv, [Next]_vars PROVE InputOK' /\ UNCHANGED input
  OBVIOUS
<1>1. UNCHANGED input
  BY DEF Next, WindowRight, WindowLeft, WindowFrom, WindowLoop, WindowEnd, GallopStart, GallopRight,
         GallopTurn, GallopLeft, GallopStop, HalveFound, Halve, HalveEnd, BranchlessOne,
         BranchlessStart, BranchlessLoop, BranchlessEnd, vars
<1>2. Index' = Index
  BY <1>1 DEF input, Index
<1> QED BY <1>1, <1>2 DEF IInv, InputOK, input

\* The window contains the key, and halving it does not lose the key.
LEMMA WindowStep ==
    ASSUME IInv, InputOK', UNCHANGED input,
           WindowRight \/ WindowLeft \/ WindowLoop \/ WindowEnd
    PROVE  IInv'
<1> USE DEF IInv, InputOK, LocalsOK, Loops, Index, Last, input
<1>1. CASE WindowRight
  <2>1. pos + 1 <= Last \/ pos = Last
    BY <1>1 DEF WindowRight, WindowFrom
  <2>2. \A i \in Index : arr[i] = key => pos < i /\ i <= pos + maxErr
    BY <1>1 DEF WindowRight, WindowFrom, Within
  <2> QED BY <1>1, <2>1, <2>2 DEF WindowRight, WindowFrom, Smaller, Within, KeyFound, LowerBound
<1>2. CASE WindowLeft
  <2>1. \A i \in Index : arr[i] = key => i <= pos /\ pos - maxErr <= i
    BY <1>2 DEF WindowLeft, WindowFrom, Within
  <2> QED BY <1>2, <2>1 DEF WindowLeft, WindowFrom, Within, KeyFound, LowerBound
<1>3. CASE WindowLoop
  <2>1. PICK mid \in Index : mid = (hi + lo + 2) \div 2 /\ lo < mid /\ mid <= hi
    BY <1>3 DEF WindowLoop
  <2>2. CASE arr[mid] <= key /\ lo' = mid /\ hi' = hi
    <3>1. \A i \in Index : arr[i] = key => mid <= i
      BY <2>2
    <3> QED BY <1>3, <2>1, <2>2, <3>1 DEF WindowLoop, Within, KeyFound, LowerBound
  <2>3. CASE arr[mid] > key /\ hi' = mid - 1 /\ lo' = lo
    <3>1. \A i \in Index : arr[i] = key => i < mid
      BY <2>3
    <3> QED BY <1>3, <2>1, <2>3, <3>1 DEF WindowLoop, Within, KeyFound, LowerBound
  <2> QED BY <1>3, <2>1, <2>2, <2>3 DEF WindowLoop
<1>4. CASE WindowEnd
  BY <1>4 DEF WindowEnd, Return, Within, KeyFound, LowerBound
<1> QED BY <1>1, <1>2, <1>3, <1>4

\* The gallop stops to the right and to the left of the key.
LEMMA GallopStep ==
    ASSUME IInv, InputOK', UNCHANGED input,
           GallopStart \/ GallopRight \/ GallopTurn \/ GallopLeft \/ GallopStop
    PROVE  IInv'
<1> USE DEF IInv, InputOK, LocalsOK, Loops, Index, Last, input
<1>1. CASE GallopStart \/ GallopRight
  BY <1>1 DEF GallopStart, GallopRight, KeyFound, LowerBound
<1>2. CASE GallopTurn
  <2>1. \A i \in Index : arr[i] = key => i <= Smaller(lo, Last)
    BY <1>2 DEF GallopTurn, Smaller
  <2> QED BY <1>2, <2>1 DEF GallopTurn, Smaller, Within, KeyFound, LowerBound
<1>3. CASE GallopLeft
  BY <1>3 DEF GallopLeft, Within, KeyFound, LowerBound
<1>4. CASE GallopStop
  <2>1. lo > 0 => \A i \in Index : arr[i] = key => lo <= i
    BY <1>4 DEF GallopStop
  <2> QED BY <1>4, <2>1 DEF GallopStop, Within, KeyFound, LowerBound
<1> QED BY <1>1, <1>2, <1>3, <1>4

\* The binary search between the two ends.
LEMMA HalveStep ==
    ASSUME IInv, InputOK', UNCHANGED input, HalveFound \/ Halve \/ HalveEnd
    PROVE  IInv'
<1> USE DEF IInv, InputOK, LocalsOK, Loops, Index, Last, input
<1>1. ASSUME pc = "halve", lo <= hi PROVE Middle \in Index /\ lo <= Middle /\ Middle <= hi
  BY <1>1 DEF Middle
<1>2. CASE HalveFound
  <2>1. \A i \in Index : arr[i] = key => i = Middle
    BY <1>1, <1>2 DEF HalveFound
  <2> QED BY <1>1, <1>2, <2>1 DEF HalveFound, Return, KeyFound, LowerBound
<1>3. CASE Halve
  <2>1. PICK m \in Index : m = Middle /\ lo <= m /\ m <= hi
    BY <1>1, <1>3 DEF Halve
  <2>2. CASE arr[m] < key /\ lo' = m + 1 /\ hi' = hi
    <3>1. \A i \in Index : arr[i] = key => m < i
      BY <2>2
    <3> QED BY <1>3, <2>1, <2>2, <3>1 DEF Halve, Within, KeyFound, LowerBound
  <2>3. CASE arr[m] > key /\ hi' = m - 1 /\ lo' = lo
    <3>1. \A i \in Index : arr[i] = key => i < m
      BY <2>3
    <3> QED BY <1>3, <2>1, <2>3, <3>1 DEF Halve, Within, KeyFound, LowerBound
  <2> QED BY <1>3, <2>1, <2>2, <2>3 DEF Halve
<1>4. CASE HalveEnd
  BY <1>4 DEF HalveEnd, Return, Within, KeyFound, LowerBound
<1> QED BY <1>2, <1>3, <1>4

\* Halving a power of two gives a power of two, or zero.
LEMMA HalfPower ==
    ASSUME NEW s \in Nat \ {0}, PowerOfTwo(s)
    PROVE  /\ s \div 2 \in Nat /\ Width(s \div 2) = s
           /\ s \div 2 = 0 \/ PowerOfTwo(s \div 2)
<1>1. CASE s = 1
  BY <1>1 DEF Width
<1>2. CASE s # 1
  <2>1. s % 2 = 0
    BY <1>2 DEF PowerOfTwo
  <2>2. PICK h \in Nat \ {0} : h = s \div 2 /\ 2 * h = s
    BY <1>2, <2>1
  <2>3. ASSUME NEW d \in 1 .. h, h % d = 0 PROVE d = 1 \/ d % 2 = 0
    <3>1. PICK q \in Int : h = q * d
      BY <2>3
    <3>2. s = (2 * q) * d
      BY <2>2, <3>1
    <3>3. s % d = 0
      BY <3>2
    <3>4. d \in 1 .. s
      BY <2>2
    <3> QED BY <3>3, <3>4 DEF PowerOfTwo
  <2>4. PowerOfTwo(s \div 2)
    BY <2>2, <2>3 DEF PowerOfTwo
  <2> QED BY <2>2, <2>4 DEF Width
<1> QED BY <1>1, <1>2

\* Every read of binary_search_branchless is inside the array, and the bound
\* stays in the window.
LEMMA BranchlessStep ==
    ASSUME IInv, InputOK', UNCHANGED input,
           BranchlessOne \/ BranchlessStart \/ BranchlessLoop \/ BranchlessEnd
    PROVE  IInv'
<1> USE DEF IInv, InputOK, LocalsOK, Index, Last, input
<1>1. CASE BranchlessOne
  BY <1>1 DEF BranchlessOne, Return, Loops, KeyFound, LowerBound
<1>2. ASSUME NEW s \in Nat \ {0}, PowerOfTwo(s), step' = s \div 2, pos' \in Int, Window(pos, s)',
             pc' = "branchlessLoop", search' = "branchless", UNCHANGED <<lo, hi, result>>
      PROVE  IInv'
  <2>1. step' \in Nat /\ Width(step') = s /\ (step' = 0 \/ PowerOfTwo(step'))
    BY <1>2, HalfPower
  <2> QED BY <1>2, <2>1 DEF Loops, KeyFound, LowerBound, Width, PowerOfTwo
<1>3. CASE BranchlessStart
  <2>1. PICK s \in 1 .. cap - 1 :
           /\ IsTopPower(s)
           /\ pos' = IF arr[cap - 1 - s] < key THEN cap - 1 - s ELSE -1
           /\ step' = s \div 2
    BY <1>3 DEF BranchlessStart
  <2>2. PowerOfTwo(s) /\ cap - 1 < 2 * s
    BY <2>1 DEF IsTopPower
  <2>3. CASE arr[cap - 1 - s] < key
    <3>1. Window(pos, s)'
      BY <2>1, <2>3 DEF Window
    <3> QED BY <1>2, <1>3, <2>1, <2>2, <3>1 DEF BranchlessStart
  <2>4. CASE ~ (arr[cap - 1 - s] < key)
    <3>1. cap - 1 - s \in Index /\ s - 1 \in Index /\ cap - 1 - s <= s - 1
      BY <2>2
    <3>2. arr[s - 1] >= key
      BY <2>4, <3>1
    <3>3. Window(pos, s)'
      BY <2>1, <2>4, <3>2 DEF Window
    <3> QED BY <1>2, <1>3, <2>1, <2>2, <3>3 DEF BranchlessStart
  <2> QED BY <2>3, <2>4
<1>4. CASE BranchlessLoop
  <2>1. PICK s \in Nat \ {0} : s = step /\ PowerOfTwo(s) /\ Window(pos, 2 * s)
    BY <1>4 DEF BranchlessLoop, Loops, Width
  <2>2. pos' = IF arr[pos + s] < key THEN pos + s ELSE pos
    BY <1>4, <2>1 DEF BranchlessLoop
  <2>3. Window(pos, s)'
    BY <2>1, <2>2 DEF Window
  <2> QED BY <1>2, <1>4, <2>1, <2>2, <2>3 DEF BranchlessLoop
<1>5. CASE BranchlessEnd
  <2>1. Window(pos, 1)
    BY <1>5 DEF BranchlessEnd, Loops, Width
  <2>2. pos + 1 \in Index /\ \A i \in Index : i <= pos => arr[i] < key
    BY <2>1 DEF Window
  <2>3. CASE arr[pos + 1] >= key
    <3>1. \A i \in Index : i >= pos + 1 => arr[i] >= key
      BY <2>2, <2>3
    <3> QED BY <1>5, <2>2, <2>3, <3>1 DEF BranchlessEnd, Return, Loops, KeyFound, LowerBound
  <2>4. CASE arr[pos + 1] < key
    <3>1. pos + 1 = Last
      BY <2>1, <2>2, <2>4 DEF Window
    <3> QED BY <1>5, <2>2, <2>4, <3>1 DEF BranchlessEnd, Return, Loops, KeyFound, LowerBound
  <2> QED BY <2>2, <2>3, <2>4
<1> QED BY <1>1, <1>3, <1>4, <1>5

LEMMA NextIInv == IInv /\ [Next]_vars => IInv'
<1> SUFFICES ASSUME IInv, [Next]_vars PROVE IInv'
  OBVIOUS
<1>1. InputOK' /\ UNCHANGED input
  BY InputStays
<1>2. CASE UNCHANGED vars
  BY <1>1, <1>2 DEF IInv, LocalsOK, Loops, Within, Width, Window, PowerOfTwo, KeyFound, LowerBound, Index,
                  Last, vars, input
<1> QED BY <1>1, <1>2, WindowStep, GallopStep, HalveStep, BranchlessStep DEF Next

-----------------------------------------------------------------------------
(* Theorems *)

THEOREM Invariant == Spec => []IInv
BY InitIInv, NextIInv, PTL DEF Spec

\* No search reads outside its array, for arrays of every length, and the
\* assertion begin <= end of the window never fails.
THEOREM InBounds == Spec => []ReadsInBounds
<1>1. IInv => ReadsInBounds
  BY DEF IInv, InputOK, LocalsOK, Loops, Width, Window, ReadsInBounds, Index, Last
<1> QED BY <1>1, Invariant, PTL

\* A key of a model is found by the window search and by the gallop, whatever
\* position within maxErr the regression predicts.
THEOREM Found == Spec => []KeyFound
<1>1. IInv => KeyFound
  BY DEF IInv
<1> QED BY <1>1, Invariant, PTL

\* find_model gets the position of the first model whose largest key is not below
\* the key, or the number of models, however many models there are.
THEOREM Bound == Spec => []LowerBound
<1>1. IInv => LowerBound
  BY DEF IInv
<1> QED BY <1>1, Invariant, PTL

=============================================================================
