---------------------------- MODULE LearnedSearch ----------------------------
(***************************************************************************)
(* The three searches of the index in sorted arrays of keys:               *)
(*   - find_model looks for the model of a key with                        *)
(*     binary_search_branchless, among the largest keys of the models;     *)
(*   - a model of Kanva predicts the position of a key by a linear         *)
(*     function and corrects the prediction by a binary search in a window *)
(*     of maxErr positions (locate_in_levelbin);                           *)
(*   - a model of Kanva_RS corrects it by a gallop to the right and back   *)
(*     to the left and a binary search between the two ends.               *)
(*                                                                         *)
(* The regression is left out: a prediction is any position that is at     *)
(* most maxErr away from the one of the key, if the array has the key.     *)
(* maxErr is the largest error over the keys of the array (get_maxErr) or  *)
(* a larger number.  For a key the array does not have, any position may   *)
(* be predicted.                                                           *)
(***************************************************************************)
EXTENDS Integers

CONSTANTS
    MaxCap,         \* bound: the keys of an array
    MaxKey          \* bound: the keys of arrays are 1 .. MaxKey

ASSUME BoundsAssumption == MaxCap \in Nat \ {0} /\ MaxKey \in Nat \ {0}

VARIABLES
    cap,            \* capacity, or the number of models
    arr,            \* keys, model_keys or the keys of model_array
    key,            \* the key to find
    search,         \* which of the three searches is called
    maxErr,         \* KanvaModel::maxErr
    pos,            \* the predicted position; pos of binary_search_branchless
    lo, hi,         \* begin and end; left (or i) and right
    step,           \* step of binary_search_branchless, pow(2, e) of the gallop
    pc,             \* the loop that is executed
    result          \* the position that is returned

input == <<cap, arr, key, search, maxErr>>
vars == <<input, pos, lo, hi, step, pc, result>>

Index == 0 .. cap - 1
Last == cap - 1                 \* upbound

\* |pos - i| <= maxErr
Near(i) == pos - maxErr <= i /\ i <= pos + maxErr

Init ==
    /\ cap \in 1 .. MaxCap
    /\ arr \in {f \in [Index -> 1 .. MaxKey] : \A i, j \in Index : i < j => f[i] < f[j]}
    /\ key \in 0 .. MaxKey + 1
    /\ maxErr \in 0 .. MaxCap
    /\ pos \in Index
    /\ \A i \in Index : arr[i] = key => Near(i)
    /\ lo = 0 /\ hi = 0 /\ step = 0 /\ result = 0
    /\ search \in {"window", "gallop", "branchless"}
    /\ pc = search

Return(i) ==
    /\ result' = i
    /\ pc' = "done"

-----------------------------------------------------------------------------
(* KanvaModel::locate_in_levelbin *)

WindowFrom(right, begin, end) ==
    /\ pc = "window"
    /\ arr[pos] < key <=> right
    /\ lo' = begin
    /\ hi' = end
    /\ pc' = "windowLoop"
    /\ UNCHANGED <<input, pos, step, result>>

Smaller(a, b) == IF a < b THEN a ELSE b

\* Mutant: the window to the right starts one position late.
WindowRightLate ==
    LET begin == Smaller(pos + 2, Last) IN WindowFrom(TRUE, begin, Smaller(begin + maxErr, Last))

WindowRight ==
    LET begin == Smaller(pos + 1, Last) IN WindowFrom(TRUE, begin, Smaller(begin + maxErr, Last))

WindowLeft == WindowFrom(FALSE, IF pos > maxErr THEN pos - maxErr ELSE 0, pos)

WindowLoop ==
    LET mid == (hi + lo + 2) \div 2 IN
    /\ pc = "windowLoop" /\ lo # hi
    /\ \/ arr[mid] <= key /\ lo' = mid /\ UNCHANGED hi
       \/ arr[mid] > key /\ hi' = mid - 1 /\ UNCHANGED lo
    /\ UNCHANGED <<input, pos, step, pc, result>>

WindowEnd ==
    /\ pc = "windowLoop" /\ lo = hi
    /\ Return(lo)
    /\ UNCHANGED <<input, pos, lo, hi, step>>

-----------------------------------------------------------------------------
(* Kanva_RSModel::locate_in_levelbin *)

GallopStart ==
    /\ pc = "gallop"
    /\ lo' = pos
    /\ step' = 1
    /\ pc' = "gallopRight"
    /\ UNCHANGED <<input, pos, hi, result>>

GallopRight ==
    /\ pc = "gallopRight"
    /\ lo <= Last /\ arr[lo] < key
    /\ lo' = lo + step
    /\ step' = 2 * step
    /\ UNCHANGED <<input, pos, hi, pc, result>>

\* The right end, from which the gallop to the left starts.
GallopTurn ==
    /\ pc = "gallopRight"
    /\ lo <= Last => arr[lo] >= key
    /\ lo' = Smaller(lo, Last)
    /\ hi' = lo'
    /\ step' = 2
    /\ pc' = "gallopLeft"
    /\ UNCHANGED <<input, pos, result>>

GallopLeft ==
    /\ pc = "gallopLeft"
    /\ lo > 0 /\ arr[lo] > key
    /\ lo' = lo - step
    /\ step' = 2 * step
    /\ UNCHANGED <<input, pos, hi, pc, result>>

\* Mutant: the left end is not cut off at 0.
GallopStopUncut ==
    /\ pc = "gallopLeft"
    /\ lo > 0 => arr[lo] <= key
    /\ pc' = "halve"
    /\ UNCHANGED <<input, pos, lo, hi, step, result>>

GallopStop ==
    /\ pc = "gallopLeft"
    /\ lo > 0 => arr[lo] <= key
    /\ lo' = IF lo < 0 THEN 0 ELSE lo
    /\ pc' = "halve"
    /\ UNCHANGED <<input, pos, hi, step, result>>

Middle == lo + (hi - lo) \div 2

HalveFound ==
    /\ pc = "halve" /\ lo <= hi
    /\ arr[Middle] = key
    /\ Return(Middle)
    /\ UNCHANGED <<input, pos, lo, hi, step>>

Halve ==
    /\ pc = "halve" /\ lo <= hi
    /\ \/ arr[Middle] < key /\ lo' = Middle + 1 /\ UNCHANGED hi
       \/ arr[Middle] > key /\ hi' = Middle - 1 /\ UNCHANGED lo
    /\ UNCHANGED <<input, pos, step, pc, result>>

HalveEnd ==
    /\ pc = "halve" /\ lo > hi
    /\ Return(0)
    /\ UNCHANGED <<input, pos, lo, hi, step>>

-----------------------------------------------------------------------------
(* binary_search_branchless *)

\* A power of two has no odd divisor but 1.
PowerOfTwo(s) == \A d \in 1 .. s : s % d = 0 => d = 1 \/ d % 2 = 0

\* s = 1 << bsr(n - 1): the largest power of two up to n - 1.
IsTopPower(s) == PowerOfTwo(s) /\ cap - 1 < 2 * s

BranchlessOne ==
    /\ pc = "branchless" /\ cap = 1
    /\ Return(IF arr[0] >= key THEN 0 ELSE 1)
    /\ UNCHANGED <<input, pos, lo, hi, step>>

\* The first step makes the rest of the array a power of two long.
BranchlessStart ==
    /\ pc = "branchless" /\ cap > 1
    /\ \E s \in 1 .. cap - 1 :
          /\ IsTopPower(s)
          /\ pos' = IF arr[cap - 1 - s] < key THEN cap - 1 - s ELSE -1
          /\ step' = s \div 2
    /\ pc' = "branchlessLoop"
    /\ UNCHANGED <<input, lo, hi, result>>

BranchlessLoop ==
    /\ pc = "branchlessLoop" /\ step > 0
    /\ pos' = IF arr[pos + step] < key THEN pos + step ELSE pos
    /\ step' = step \div 2
    /\ UNCHANGED <<input, lo, hi, pc, result>>

\* Mutant: the last comparison is missing.
BranchlessEndUnchecked ==
    /\ pc = "branchlessLoop" /\ step = 0
    /\ Return(pos + 1)
    /\ UNCHANGED <<input, pos, lo, hi, step>>

BranchlessEnd ==
    /\ pc = "branchlessLoop" /\ step = 0
    /\ Return(IF arr[pos + 1] >= key THEN pos + 1 ELSE cap)
    /\ UNCHANGED <<input, pos, lo, hi, step>>

-----------------------------------------------------------------------------
Next ==
    \/ WindowRight \/ WindowLeft \/ WindowLoop \/ WindowEnd
    \/ GallopStart \/ GallopRight \/ GallopTurn \/ GallopLeft \/ GallopStop
    \/ HalveFound \/ Halve \/ HalveEnd
    \/ BranchlessOne \/ BranchlessStart \/ BranchlessLoop \/ BranchlessEnd

Spec == Init /\ [][Next]_vars

-----------------------------------------------------------------------------
(* Properties *)

\* No search reads outside its array, and the assertion begin <= end of the
\* window holds.
ReadsInBounds ==
    /\ pc \in {"window", "gallop"} => pos \in Index
    /\ pc = "windowLoop" => lo \in Index /\ hi \in Index /\ lo <= hi
    /\ pc = "gallopRight" => lo >= 0
    /\ pc = "gallopLeft" => lo <= Last
    /\ pc = "halve" => lo >= 0 /\ hi <= Last
    /\ pc = "branchlessLoop" => pos >= -1 /\ pos + step <= Last /\ pos + 1 <= Last

\* A key of the model is found, wherever the model predicts it within maxErr.
KeyFound ==
    pc = "done" /\ search # "branchless" => \A i \in Index : arr[i] = key => result = i

\* find_model finds the first model whose largest key is not below the key, or
\* the number of models.
LowerBound ==
    pc = "done" /\ search = "branchless" =>
        result \in 0 .. cap /\ \A i \in Index : arr[i] < key <=> i < result

=============================================================================
