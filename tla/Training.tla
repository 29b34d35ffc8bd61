------------------------------ MODULE Training ------------------------------
(***************************************************************************)
(* How the bulk load of the index divides the sorted keys into models.     *)
(* Kanva::train grows a segment by learning_step keys as long as its       *)
(* regression errs by less than maxErr; when it errs by more,              *)
(* backward_train cuts it back step by step, and calls itself with a       *)
(* smaller step when nothing is left.  append_model makes a model of the   *)
(* segment and derives the next learning_step from its length.             *)
(* Kanva_RS::train cuts the keys into pieces of learning_step keys.        *)
(*                                                                         *)
(* The regression is left out: the error of a segment is any of the three  *)
(* classes the code distinguishes, except that a segment that was trained  *)
(* before errs as it did then, and that short segments always fit: the     *)
(* error of a least-squares line over k positions is at most the square    *)
(* root of k(k^2-1)/12, which is below the 32 of the benchmarks for k up   *)
(* to 23.                                                                  *)
(***************************************************************************)
EXTENDS Integers

CONSTANTS
    KanvaSizes,     \* the numbers of keys to train an index of Kanva with
    RSSizes,        \* the same for Kanva_RS
    Fit             \* a segment of up to Fit keys errs by less than maxErr

\* The assumption on Fit holds for maxErr >= 10.  The bound on the sizes keeps
\* learning_step, which is an int, among the powers of ten below.
ASSUME TrainingAssumption ==
    /\ KanvaSizes \subseteq Nat /\ RSSizes \subseteq Nat
    /\ \A k \in KanvaSizes : k <= 999999999
    /\ Fit \in Nat /\ Fit >= 10

VARIABLES
    variant,        \* which of the two indexes is trained
    n,              \* keys.size()
    learning_step,
    start, end,     \* of train: the segment
    fitted,         \* a shorter segment from start was trained and fits: its length
    size, step,     \* the arguments of backward_train
    back,           \* end of backward_train
    pc,
    covered         \* where the model that was appended last ends

input == <<variant, n>>
segment == <<start, end, fitted>>
backward == <<size, step, back>>
vars == <<input, learning_step, segment, backward, pc, covered>>

Smaller(a, b) == IF a < b THEN a ELSE b

\* The constructors and the first lines of train.
Init ==
    /\ \/ variant = "Kanva" /\ n \in KanvaSizes
       \/ variant = "Kanva_RS" /\ n \in RSSizes
    /\ learning_step = 1000
    /\ start = 0 /\ end = Smaller(1000, n) /\ fitted = 0
    /\ size = 0 /\ step = 0 /\ back = 0
    /\ pc = "train"
    /\ covered = 0

\* get_maxErr against maxErr, for the first k keys of the segment.
Errors(k) == IF k <= Fit \/ k = fitted THEN {"less"} ELSE {"less", "equal", "more"}

Powers == {10, 100, 1000, 10000, 100000, 1000000, 10000000, 100000000}

\* Mutant: learning_step stays 1 after a short model.
ScaleFromOne(k) == CHOOSE p \in {1} \cup Powers : (p <= k \/ p = 1) /\ k < 10 * p

\* The loop of append_model: the largest power of ten that is not above k, at least 10.
Scale(k) == CHOOSE p \in Powers : (p <= k \/ p = 10) /\ k < 10 * p

\* append_model for the first k keys from start on.
append_model(k) ==
    /\ covered' = start + k
    /\ learning_step' = IF variant = "Kanva" THEN Scale(k) ELSE learning_step

\* The end of the loop of train: the next segment begins at i.
NextSegment(i) ==
    /\ start' = i
    /\ end' = Smaller(i + learning_step', n)
    /\ fitted' = 0
    /\ pc' = "train"

-----------------------------------------------------------------------------
(* train *)

\* A segment becomes a model: its error is maxErr, or its variant does not ask.
Take ==
    /\ pc = "train" /\ start < end
    /\ variant = "Kanva" => "equal" \in Errors(end - start)
    /\ append_model(end - start)
    /\ NextSegment(end)
    /\ UNCHANGED <<input, backward>>

ExtendTo(e) ==
    /\ pc = "train" /\ start < end
    /\ variant = "Kanva" /\ "less" \in Errors(end - start)
    /\ end < n
    /\ end' = e
    /\ fitted' = end - start
    /\ UNCHANGED <<input, learning_step, start, backward, pc, covered>>

\* Mutant: the longer segment is not cut at the last key.
ExtendUncut == ExtendTo(end + learning_step)

\* The segment fits: make it longer.
Extend == ExtendTo(Smaller(end + learning_step, n))

\* The segment fits and the keys are used up.
TakeLast ==
    /\ pc = "train" /\ start < end
    /\ variant = "Kanva" /\ "less" \in Errors(end - start)
    /\ end >= n
    /\ append_model(end - start)
    /\ pc' = "done"
    /\ UNCHANGED <<input, segment, backward>>

\* The segment does not fit.
CutBack ==
    /\ pc = "train" /\ start < end
    /\ variant = "Kanva" /\ "more" \in Errors(end - start)
    /\ size' = end - start
    /\ step' = learning_step \div 10
    /\ pc' = "call"
    /\ UNCHANGED <<input, learning_step, segment, back, covered>>

\* The condition of the loop fails.
Finish ==
    /\ pc = "train" /\ start >= end
    /\ pc' = "done"
    /\ UNCHANGED <<input, learning_step, segment, backward, covered>>

-----------------------------------------------------------------------------
(* backward_train *)

\* size is a uint32_t: a negative argument is larger than every step.
AtMost(k) == 0 <= size /\ size <= k

\* The body of the loop while(size<=step).
Reduce ==
    /\ pc = "call" /\ ~AtMost(10)
    /\ AtMost(step)
    /\ step' = step \div 10
    /\ UNCHANGED <<input, learning_step, segment, size, back, pc, covered>>

\* assert(step>0), and the first end.
Enter(s, t) ==
    /\ step' = t
    /\ back' = s - t
    /\ pc' = IF t > 0 THEN "shrink" ELSE "aborted"
    /\ UNCHANGED <<input, learning_step, segment, size, covered>>

\* Ten keys or fewer are taken for ten.
EnterSmall ==
    /\ pc = "call" /\ AtMost(10)
    /\ Enter(10, 1)

EnterLarge ==
    /\ pc = "call" /\ ~AtMost(10) /\ ~AtMost(step)
    /\ Enter(size, step)

\* The loop while(end>0): the first back keys do not fit.
Shrink ==
    /\ pc = "shrink" /\ back > 0
    /\ "more" \in Errors(back)
    /\ back' = back - step
    /\ UNCHANGED <<input, learning_step, segment, size, step, pc, covered>>

ShrunkTo(i) ==
    /\ pc = "shrink" /\ back > 0
    /\ Errors(back) \cap {"less", "equal"} # {}
    /\ append_model(back)
    /\ NextSegment(i)
    /\ size' = 0 /\ step' = 0 /\ back' = 0
    /\ UNCHANGED input

\* Mutant: train goes on after the keys it wanted, not after those that were used.
TakeShrunkSkips == ShrunkTo(end)

\* They fit, backward_train returns their number, and train goes on after them.
TakeShrunk == ShrunkTo(start + back)

AgainWith(s, t) ==
    /\ pc = "shrink" /\ back <= 0
    /\ size' = s
    /\ step' = t
    /\ pc' = "call"
    /\ UNCHANGED <<input, learning_step, segment, back, covered>>

\* Mutant: the recursive call has the arguments of the call.
AgainSame == AgainWith(size, step)

\* Nothing is left: the recursive call, with what is left as the size.
Again == AgainWith(back, step \div 10)

-----------------------------------------------------------------------------
Next ==
    \/ Take \/ Extend \/ TakeLast \/ CutBack \/ Finish
    \/ Reduce \/ EnterSmall \/ EnterLarge \/ Shrink \/ TakeShrunk \/ Again

Spec == Init /\ [][Next]_vars

\* train is sequential code that is not interrupted for ever.
FairSpec == Spec /\ WF_vars(Next)

-----------------------------------------------------------------------------
(* Properties *)

\* TypeOK: every variable has its type; learning_step is a power of ten.
TypeOK ==
    /\ variant \in {"Kanva", "Kanva_RS"} /\ n \in KanvaSizes \cup RSSizes
    /\ learning_step \in Powers
    /\ covered \in Nat /\ start \in Nat /\ end \in Nat /\ fitted \in Nat
    /\ size \in Int /\ step \in Nat /\ back \in Int
    /\ pc \in {"train", "call", "shrink", "done", "aborted"}

\* Partition: the models divide the keys: every model begins where the one before
\* ended, in whichever way its segment was cut back, and when train returns
\* every key has its model.
Partition ==
    /\ pc \in {"train", "call", "shrink"} => start = covered
    /\ pc = "done" => covered = n

\* ReadsInBounds: neither the segments of train nor the ones backward_train tries
\* reach past the last key, though it takes a size below ten for ten.
ReadsInBounds ==
    /\ end <= n
    /\ pc = "shrink" => start + back <= n

\* AbortsExplained: the assertion step>0 of backward_train fails only for a segment
\* that is longer than a first step of 100 or more, and of which more keys than
\* fit are left over when it is cut back in such steps: the last step then leads
\* past zero, and the recursive calls take the negative rest for a large number.
AbortsExplained ==
    pc = "aborted" =>
        \E p \in Powers : /\ 100 <= p /\ 10 * p <= learning_step
                          /\ p < end - start /\ (end - start) % p > Fit

\* StepPositive: the assertion of backward_train.
StepPositive == pc # "aborted"

\* Terminates: train returns, or the assertion ends it; the recursion of
\* backward_train ends although its argument can be negative.
Terminates == <>(pc \in {"done", "aborted"})

=============================================================================
