--------------------------- MODULE RecursionFacts ---------------------------
(***************************************************************************)
(* What the other proofs need of functions that are defined by recursion   *)
(* on a number: a set of counterexamples without a least one is empty, and *)
(* a function that is given step by step exists.                           *)
(***************************************************************************)
EXTENDS Integers, TLAPS, FiniteSetTheorems, WellFoundedInduction

LEMMA NoLeastCounterexample ==
    ASSUME NEW n \in Nat, NEW B \in SUBSET (0..n), 0 \notin B,
           \A i \in 1..n : i - 1 \notin B => i \notin B
    PROVE  B = {}
<1> SUFFICES ASSUME B # {}
             PROVE  FALSE
    OBVIOUS
<1> DEFINE Upto(x) == {y \in B : y <= x}
           Family == {Upto(x) : x \in B}
<1>1. Family \subseteq FiniteSubsetsOf(B) /\ Family # {}
    <2>1. IsFiniteSet(B)
        <3>1. 0 \in Int /\ n \in Int
            OBVIOUS
        <3>2. IsFiniteSet(0..n)
            BY <3>1, FS_Interval
        <3> QED BY <3>2, FS_Subset
    <2>2. \A T \in SUBSET B : IsFiniteSet(T)
        BY <2>1, FS_Subset
    <2>3. Family \subseteq FiniteSubsetsOf(B)
        BY <2>2 DEF FiniteSubsetsOf
    <2>4. PICK x \in B : TRUE
        OBVIOUS
    <2>5. Upto(x) \in Family
        BY <2>4
    <2> QED BY <2>3, <2>5
<1>2. PICK U \in Family : \A V \in Family : <<V, U>> \notin StrictSubsetOrdering(B)
    <2> HIDE DEF Family
    <2> QED BY <1>1, WFMin, FS_StrictSubsetOrderingWellFounded
<1>3. PICK x \in B : U = Upto(x)
    BY <1>2
<1>4. x \in 1..n /\ x - 1 \in B /\ \A y \in B : y \in Int
    OBVIOUS
<1>5. Upto(x - 1) \subseteq Upto(x) /\ x \in Upto(x) /\ x \notin Upto(x - 1)
    <2>1. x \in Int /\ x <= x /\ ~(x <= x - 1)
        BY <1>4
    <2>2. \A y \in B : y <= x - 1 => y <= x
        BY <1>4
    <2> QED BY <2>1, <2>2
<1>6. <<Upto(x - 1), Upto(x)>> \in StrictSubsetOrdering(B)
    <2> DEFINE V == Upto(x - 1)
               W == Upto(x)
    <2>1. V \in SUBSET B /\ W \in SUBSET B /\ V \subseteq W /\ V # W
        BY <1>5
    <2>2. <<V, W>>[1] = V /\ <<V, W>>[2] = W
        OBVIOUS
    <2> HIDE DEF V, W
    <2>3. <<V, W>> \in (SUBSET B) \X (SUBSET B)
        BY <2>1
    <2>4. <<V, W>> \in StrictSubsetOrdering(B)
        BY <2>1, <2>2, <2>3 DEF StrictSubsetOrdering
    <2> QED BY <2>4 DEF V, W
<1>7. Upto(x - 1) \in Family
    <2>1. x - 1 \in B
        BY <1>4
    <2> HIDE DEF Upto
    <2> QED BY <2>1
<1> QED BY <1>2, <1>3, <1>6, <1>7

\* The same from the other end, with all that lies beyond i known.
LEMMA NoGreatestCounterexample ==
    ASSUME NEW n \in Nat, NEW B \in SUBSET (0..n),
           \A i \in 0..n : (\A j \in (i + 1)..n : j \notin B) => i \notin B
    PROVE  B = {}
<1> DEFINE C == {k \in 0..n : \E j \in (n - k)..n : j \in B}
<1>1. 0 \notin C
    <2>1. n \in 0..n /\ \A j \in (n + 1)..n : FALSE
        OBVIOUS
    <2>2. n \notin B
        BY <2>1
    <2>3. \A j \in (n - 0)..n : j = n
        OBVIOUS
    <2> QED BY <2>2, <2>3
<1>2. ASSUME NEW k \in 1..n, k - 1 \notin C
      PROVE  k \notin C
    <2>1. PICK i : i = n - k
        OBVIOUS
    <2>2. i \in 0..n /\ n - (k - 1) = i + 1 /\ k - 1 \in 0..n
        BY <2>1
    <2>3. \A j \in (i + 1)..n : j \notin B
        BY <1>2, <2>2
    <2>4. i \notin B
        BY <2>2, <2>3
    <2>5. \A j \in i..n : j = i \/ j \in (i + 1)..n
        BY <2>2
    <2> QED BY <2>1, <2>3, <2>4, <2>5
<1>3. C = {}
    <2> HIDE DEF C
    <2>1. C \in SUBSET (0..n)
        BY DEF C
    <2> QED BY <1>1, <1>2, <2>1, NoLeastCounterexample
<1>4. n \in 0..n /\ \A j \in 0..n : j \in (n - n)..n
    OBVIOUS
<1> QED BY <1>3, <1>4

\* f starts with a, stays in S, and takes step[i][x] from x at i - 1.
Follows(f, n, S, a, step) ==
    /\ f \in [0..n -> S] /\ f[0] = a
    /\ \A i \in 1..n : f[i] = step[i][f[i - 1]]

StaysIn(step, n, S) == \A i \in 1..n : \A x \in S : step[i][x] \in S

LEMMA StepByStep ==
    ASSUME NEW n \in Nat, NEW S, NEW a \in S, NEW step, StaysIn(step, n, S)
    PROVE  \E f : Follows(f, n, S, a, step)
<1> USE DEF StaysIn
<1> DEFINE Fits(f, k) == /\ f \in [0..k -> S] /\ f[0] = a
                         /\ \A i \in 1..k : f[i] = step[i][f[i - 1]]
           B == {k \in 0..n : ~ \E f : Fits(f, k)}
<1>1. 0 \notin B
    <2>1. Fits([i \in 0..0 |-> a], 0)
        OBVIOUS
    <2> QED BY <2>1
<1>2. ASSUME NEW k \in 1..n, k - 1 \notin B
      PROVE  k \notin B
    <2>1. PICK f : Fits(f, k - 1)
        BY <1>2
    <2>2. PICK x : x = step[k][f[k - 1]]
        OBVIOUS
    <2>3. f[k - 1] \in S
        BY <2>1
    <2>4. x \in S
        BY <2>2, <2>3
    <2> DEFINE g == [i \in 0..k |-> IF i = k THEN x ELSE f[i]]
    <2>5. g \in [0..k -> S] /\ g[0] = a
        BY <2>1, <2>4
    <2>6. \A i \in 1..k : g[i] = step[i][g[i - 1]]
        <3> TAKE i \in 1..k
        <3>1. g[i - 1] = f[i - 1]
            OBVIOUS
        <3>2. CASE i = k
            BY <2>2, <3>1, <3>2
        <3>3. CASE i # k
            BY <2>1, <3>1, <3>3
        <3> QED BY <3>2, <3>3
    <2>7. Fits(g, k)
        BY <2>5, <2>6
    <2> QED BY <2>7
<1> HIDE DEF Fits
<1>3. B = {}
    BY <1>1, <1>2, NoLeastCounterexample
<1>4. \E f : Fits(f, n)
    <2>1. n \in 0..n
        OBVIOUS
    <2> QED BY <1>3, <2>1
<1> QED BY <1>4 DEF Fits, Follows
=============================================================================
