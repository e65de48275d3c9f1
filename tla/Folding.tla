------------------------------ MODULE Folding ------------------------------
(***************************************************************************)
(* What FoldLeft of the community modules computes, for any step: the end  *)
(* of a run that begins with the base and takes the step once for every    *)
(* element.  Other modules instantiate this one with the step they fold.   *)
(***************************************************************************)
EXTENDS Integers, Sequences, SequencesExt, FiniteSetTheorems, WellFoundedInduction, TLAPS

CONSTANT Step(_, _)

Fold(base, s) == FoldLeft(Step, base, s)

(* f is the run of the fold over the n elements of s.                      *)
Run(f, base, s, n) ==
    /\ DOMAIN s = 1 .. n
    /\ f[0] = base /\ \A k \in 1 .. n : f[k] = Step(f[k - 1], s[k])

-----------------------------------------------------------------------------
(* A set of numbers that is not empty has a least element.                 *)
LEMMA LeastNumber ==
    ASSUME NEW S, S \subseteq Nat, S # {}
    PROVE  \E m \in S : \A k \in S : m <= k
<1>1. PICK m \in S : \A k \in S : ~ (<<k, m>> \in OpToRel(<, Nat))
  BY NatLessThanWellFounded, WFMin
<1>2. \A k \in S : ~ (k < m)
  BY <1>1 DEF OpToRel
<1> QED
  BY <1>2

(* The library's fold, a function on the sets of positions.                *)
IsFold(it, base, s, n) ==
    it = [x \in SUBSET (1 .. n) |->
             IF x = {} THEN base ELSE Step(it[x \ {Max(x)}], s[Max(x)])]

LEMMA FoldDef ==
    ASSUME NEW base, NEW s, NEW n, DOMAIN s = 1 .. n
    PROVE  Fold(base, s) = (CHOOSE it : IsFold(it, base, s, n))[1 .. n]
BY DEF Fold, FoldLeft, MapThenFoldSet, IsFold

(* The largest element of a finite set of integers.                       *)
LEMMA MaxOfFinite ==
    ASSUME NEW S, S \subseteq Int, S # {}, IsFiniteSet(S)
    PROVE  Max(S) \in S /\ \A x \in S : x <= Max(S)
<1> DEFINE Above(x) == {y \in S : x <= y}
           Ups == {Above(x) : x \in S}
<1>1. Ups \subseteq FiniteSubsetsOf(S)
  <2>1. \A x \in S : IsFiniteSet(Above(x))
    BY FS_Subset
  <2> QED
    BY <2>1 DEF FiniteSubsetsOf
<1>2. Ups # {}
  OBVIOUS
<1>3. PICK U \in Ups : \A V \in Ups : ~ (<<V, U>> \in StrictSubsetOrdering(S))
  BY <1>1, <1>2, FS_StrictSubsetOrderingWellFounded, WFMin
<1>4. PICK x \in S : U = Above(x)
  OBVIOUS
<1>5. ASSUME NEW y \in S PROVE y <= x
  <2> SUFFICES ASSUME x < y
               PROVE  FALSE
    OBVIOUS
  <2>1. Above(y) \subseteq Above(x)
    <3>1. \A z \in S : y <= z => x <= z
      <4> USE x \in Int, y \in Int
      <4> QED
        BY SMT
    <3> QED
      BY <3>1
  <2>2. x \in Above(x) /\ x \notin Above(y)
    OBVIOUS
  <2>3. <<Above(y), U>> \in StrictSubsetOrdering(S)
    <3> HIDE DEF Above
    <3>1. Above(y) \in SUBSET S /\ Above(x) \in SUBSET S
      BY DEF Above
    <3>2. Above(y) # Above(x)
      BY <2>2
    <3> QED
      BY <3>1, <3>2, <2>1, <1>4 DEF StrictSubsetOrdering
  <2> QED
    BY <2>3, <1>3
<1> QED
  BY <1>5 DEF Max

(* The last position of a set of positions.                                *)
LEMMA MaxPosition ==
    ASSUME NEW n \in Nat, NEW x \in SUBSET (1 .. n), x # {}
    PROVE  Max(x) \in x /\ \A i \in x : i <= Max(x)
<1>1. IsFiniteSet(1 .. n)
  BY FS_Interval
<1>2. IsFiniteSet(x)
  BY <1>1, FS_Subset
<1>3. x \subseteq Int
  OBVIOUS
<1> QED
  BY <1>2, <1>3, MaxOfFinite

(* There is such a function for every length ... *)
LEMMA FoldExists ==
    ASSUME NEW base, NEW s, NEW n \in Nat
    PROVE  \E it : IsFold(it, base, s, n)
<1> DEFINE Missing == {k \in Nat : ~ \E it : IsFold(it, base, s, k)}
<1> SUFFICES ASSUME Missing # {}
             PROVE  FALSE
  OBVIOUS
<1>1. PICK m \in Missing : \A k \in Missing : m <= k
  <2>1. Missing \subseteq Nat
    OBVIOUS
  <2> HIDE DEF Missing
  <2> QED
    BY <2>1, LeastNumber
<1>2. m # 0
  <2> DEFINE zero == [x \in SUBSET (1 .. 0) |-> base]
  <2>1. IsFold(zero, base, s, 0)
    <3>1. \A x \in SUBSET (1 .. 0) : x = {}
      OBVIOUS
    <3> QED
      BY <3>1 DEF IsFold
  <2> QED
    BY <2>1
<1>3. m \in Nat /\ m - 1 \in Nat /\ m - 1 \notin Missing
  BY <1>1, <1>2
<1>4. PICK it : IsFold(it, base, s, m - 1)
  BY <1>3
<1> DEFINE more == [x \in SUBSET (1 .. m) |->
                       IF m \in x THEN Step(it[x \ {m}], s[m]) ELSE it[x]]
<1>5. ASSUME NEW x \in SUBSET (1 .. m)
      PROVE  more[x] = IF x = {} THEN base ELSE Step(more[x \ {Max(x)}], s[Max(x)])
  <2>1. CASE m \in x
    <3>1. Max(x) = m
      <4>1. Max(x) \in x /\ \A i \in x : i <= Max(x)
        BY <1>3, <2>1, MaxPosition
      <4>2. Max(x) \in 1 .. m /\ m <= Max(x)
        BY <2>1, <4>1
      <4> QED
        BY <1>3, <4>2
    <3>2. m \notin x \ {m} /\ x \ {m} \in SUBSET (1 .. m)
      OBVIOUS
    <3> QED
      BY <2>1, <3>1, <3>2
  <2>2. CASE m \notin x
    <3>1. x \in SUBSET (1 .. m - 1)
      BY <1>3, <2>2
    <3>2. more[x] = it[x] /\ more[x \ {Max(x)}] = it[x \ {Max(x)}]
      BY <2>2
    <3> QED
      BY <1>4, <3>1, <3>2 DEF IsFold
  <2> QED
    BY <2>1, <2>2
<1>6. IsFold(more, base, s, m)
  <2>1. more = [x \in SUBSET (1 .. m) |-> more[x]]
    OBVIOUS
  <2> HIDE DEF more
  <2> QED
    BY <1>5, <2>1 DEF IsFold
<1> QED
  BY <1>1, <1>6

(* ... so the fold is where any run ends ...                              *)
LEMMA FoldSteps ==
    ASSUME NEW base, NEW s, NEW n \in Nat, NEW f, Run(f, base, s, n)
    PROVE  Fold(base, s) = f[n]
<1> USE DEF Run
<1> DEFINE it == CHOOSE i : IsFold(i, base, s, n)
           Wrong == {k \in 0 .. n : it[1 .. k] # f[k]}
<1>1. IsFold(it, base, s, n)
  BY FoldExists
<1>2. Fold(base, s) = it[1 .. n]
  BY FoldDef
<1> HIDE DEF it
<1>3. ASSUME Wrong # {}
      PROVE  FALSE
  <2>1. PICK m \in Wrong : \A k \in Wrong : m <= k
    <3>1. Wrong \subseteq Nat
      OBVIOUS
    <3> HIDE DEF Wrong
    <3> QED
      BY <1>3, <3>1, LeastNumber
  <2>2. m # 0
    <3>1. 1 .. 0 = {} /\ {} \in SUBSET (1 .. n)
      OBVIOUS
    <3>2. it[{}] = base
      BY <1>1 DEF IsFold
    <3> QED
      BY <3>1, <3>2
  <2>3. m \in 1 .. n /\ m - 1 \in 0 .. n /\ m - 1 \notin Wrong
    BY <2>1, <2>2
  <2>4. it[1 .. m - 1] = f[m - 1]
    BY <2>3
  <2>5. /\ 1 .. m \in SUBSET (1 .. n) /\ 1 .. m # {} /\ m \in 1 .. m
        /\ (1 .. m) \ {m} = 1 .. m - 1
    <3>1. m \in Nat /\ n \in Nat /\ 1 <= m /\ m <= n
      BY <2>3
    <3>2. \A i : i \in 1 .. m => i \in 1 .. n
      BY <3>1
    <3>3. \A i : i \in (1 .. m) \ {m} <=> i \in 1 .. m - 1
      BY <3>1
    <3>4. m \in 1 .. m
      BY <3>1
    <3> QED
      BY <3>2, <3>3, <3>4
  <2>6. Max(1 .. m) = m
    <3>1. Max(1 .. m) \in 1 .. m /\ \A i \in 1 .. m : i <= Max(1 .. m)
      BY <2>5, MaxPosition
    <3> QED
      BY <2>3, <2>5, <3>1
  <2>7. it[1 .. m] = Step(it[1 .. m - 1], s[m])
    BY <1>1, <2>5, <2>6 DEF IsFold
  <2> QED
    BY <2>1, <2>3, <2>4, <2>7
<1> QED
  BY <1>2, <1>3

(* ... and there is a run.                                                *)
LEMMA RunExists ==
    ASSUME NEW base, NEW s, NEW n \in Nat, DOMAIN s = 1 .. n
    PROVE  \E f : Run(f, base, s, n) /\ Fold(base, s) = f[n]
<1> DEFINE it == CHOOSE i : IsFold(i, base, s, n)
           f == [k \in 0 .. n |-> it[1 .. k]]
<1>1. IsFold(it, base, s, n)
  BY FoldExists
<1> HIDE DEF it
<1>2. f[0] = base
  <2>1. 1 .. 0 = {} /\ {} \in SUBSET (1 .. n) /\ 0 \in 0 .. n
    OBVIOUS
  <2> QED
    BY <1>1, <2>1 DEF IsFold
<1>3. ASSUME NEW m \in 1 .. n
      PROVE  f[m] = Step(f[m - 1], s[m])
  <2>5. /\ 1 .. m \in SUBSET (1 .. n) /\ 1 .. m # {} /\ m \in 1 .. m
        /\ (1 .. m) \ {m} = 1 .. m - 1
    <3>1. m \in Nat /\ n \in Nat /\ 1 <= m /\ m <= n
      OBVIOUS
    <3>2. \A i : i \in 1 .. m => i \in 1 .. n
      BY <3>1
    <3>3. \A i : i \in (1 .. m) \ {m} <=> i \in 1 .. m - 1
      BY <3>1
    <3>4. m \in 1 .. m
      BY <3>1
    <3> QED
      BY <3>2, <3>3, <3>4
  <2>6. Max(1 .. m) = m
    <3>1. Max(1 .. m) \in 1 .. m /\ \A i \in 1 .. m : i <= Max(1 .. m)
      BY <2>5, MaxPosition
    <3> QED
      BY <2>5, <3>1
  <2>7. it[1 .. m] = Step(it[1 .. m - 1], s[m])
    BY <1>1, <2>5, <2>6 DEF IsFold
  <2>8. m \in 0 .. n /\ m - 1 \in 0 .. n
    OBVIOUS
  <2> QED
    BY <2>7, <2>8
<1>4. Run(f, base, s, n)
  <2> HIDE DEF f
  <2> QED
    BY <1>2, <1>3 DEF Run
<1> QED
  BY <1>4, FoldSteps

(* What holds at the first position of a run and of a position when it     *)
(* holds of the one before it, holds at all of them.                       *)
LEMMA RightAlong ==
    ASSUME NEW n \in Nat, NEW Right, 0 \in Right, \A k \in 1 .. n : k - 1 \in Right => k \in Right
    PROVE  \A k \in 0 .. n : k \in Right
<1> DEFINE Wrong == {k \in 0 .. n : k \notin Right}
<1> SUFFICES ASSUME Wrong # {}
             PROVE  FALSE
  OBVIOUS
<1>1. PICK m \in Wrong : \A k \in Wrong : m <= k
  <2>1. Wrong \subseteq Nat
    OBVIOUS
  <2> HIDE DEF Wrong
  <2> QED
    BY <2>1, LeastNumber
<1>2. m \in 1 .. n /\ m - 1 \in 0 .. n /\ ~(m <= m - 1)
  OBVIOUS
<1>3. m - 1 \in Right
  BY <1>1, <1>2
<1> QED
  BY <1>2, <1>3

(* What holds of the base and is kept by the step holds along the run.     *)
LEMMA RunStays ==
    ASSUME NEW S, NEW base \in S, NEW s, NEW n \in Nat, NEW f, Run(f, base, s, n),
           \A x \in S : \A k \in 1 .. n : Step(x, s[k]) \in S
    PROVE  \A k \in 0 .. n : f[k] \in S
<1> DEFINE Wrong == {k \in 0 .. n : f[k] \notin S}
<1> SUFFICES ASSUME Wrong # {}
             PROVE  FALSE
  OBVIOUS
<1>1. PICK m \in Wrong : \A k \in Wrong : m <= k
  <2>1. Wrong \subseteq Nat
    OBVIOUS
  <2> HIDE DEF Wrong
  <2> QED
    BY <2>1, LeastNumber
<1>2. m # 0
  BY DEF Run
<1>3. m \in 1 .. n /\ m - 1 \in 0 .. n /\ ~(m <= m - 1)
  BY <1>2
<1>4. f[m - 1] \in S
  BY <1>1, <1>3
<1>5. f[m] = Step(f[m - 1], s[m])
  BY <1>3 DEF Run
<1> QED
  BY <1>3, <1>4, <1>5
=============================================================================
