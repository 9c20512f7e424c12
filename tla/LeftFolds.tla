----------------------------- MODULE LeftFolds -----------------------------
(***************************************************************************)
(* What FoldLeft computes, one element after the other, for any operator   *)
(* Op, and the induction that a proof about it needs.  Enrichment_proofs   *)
(* takes an instance of this module for every fold of BasicMapper.         *)
(***************************************************************************)
EXTENDS SequencesExt, WellFoundedInduction, TLAPS

CONSTANT Op(_, _, _)  \* a step, of a context, what there is so far and an element

Fold(c, m, seq) == FoldLeft(LAMBDA x, y : Op(c, x, y), m, seq)

-----------------------------------------------------------------------------
\* Some element of a set of numbers is the least.
LEMMA Least ==
  ASSUME NEW T, T \subseteq Nat, T # {}
  PROVE  \E n \in T : \A m \in T : n <= m
<1> DEFINE R == {ss \in Nat \X Nat : ss[1] < ss[2]}
<1>1. IsWellFoundedOn(R, Nat)
  BY NatLessThanWellFounded DEF OpToRel
<1>2. R = {ss \in Nat \X Nat : ss[1] < ss[2]}
  OBVIOUS
<1> HIDE DEF R
<1>3. PICK n \in T : \A m \in T : ~(<<m, n>> \in R)
  BY <1>1, WFMin
<1>4. \A m \in T : ~(m < n)
  BY <1>2, <1>3
<1> QED BY <1>4

\* Induction, with a set for the predicate.
LEMMA Induct ==
  ASSUME NEW T, 0 \in T, \A n \in Nat : n \in T => n + 1 \in T
  PROVE  Nat \subseteq T
<1> DEFINE B == Nat \ T
<1> SUFFICES ASSUME B # {} PROVE FALSE
  OBVIOUS
<1>1. PICK n \in B : \A m \in B : n <= m
  BY Least
<1>2. n # 0 /\ n - 1 \in Nat /\ n - 1 \in T
  BY <1>1
<1> QED BY <1>2

\* The same as far as a bound.
LEMMA InductUpTo ==
  ASSUME NEW T, NEW n \in Nat, 0 \in T, \A k \in 0 .. n - 1 : k \in T => k + 1 \in T
  PROVE  0..n \subseteq T
<1> DEFINE All == {k \in Nat : k <= n => k \in T}
<1>1. 0 \in All
  OBVIOUS
<1>2. ASSUME NEW k \in Nat, k \in All PROVE k + 1 \in All
  BY <1>2
<1>3. Nat \subseteq All
  <2> HIDE DEF All
  <2> QED BY <1>1, <1>2, Induct
<1> QED BY <1>3

-----------------------------------------------------------------------------
LEMMA MaxAt ==
  ASSUME NEW k \in Nat, NEW s \in SUBSET (1 .. k + 1), k + 1 \in s
  PROVE  Max(s) = k + 1
<1>1. \A y \in s : k + 1 >= y
  OBVIOUS
<1>2. \A x \in s : (\A y \in s : x >= y) => x = k + 1
  OBVIOUS
<1> QED BY <1>1, <1>2 DEF Max

(***************************************************************************)
(* Chained: a[k] is what there is after k elements of seq.                 *)
(***************************************************************************)
Chained(a, c, m, seq, n) ==
  /\ a[0] = m
  /\ \A k \in 1..n : a[k] = Op(c, a[k - 1], seq[k])
  /\ a[n] = Fold(c, m, seq)

\* FoldLeft chooses a function on sets of positions: there is one, and its
\* values on 1..k are the chain.
LEMMA Chain ==
  ASSUME NEW c, NEW m, NEW seq, NEW n \in Nat, DOMAIN seq = 1..n
  PROVE  \E a : Chained(a, c, m, seq, n)
<1> DEFINE Step(f, s) == IF s = {} THEN m ELSE Op(c, f[s \ {Max(s)}], seq[Max(s)])
           Folds(f, k) == f = [s \in SUBSET (1..k) |-> Step(f, s)]
           T == {k \in Nat : \E f : Folds(f, k)}
<1>1. 0 \in T
  <2> DEFINE f == [s \in SUBSET (1..0) |-> m]
  <2>1. 1..0 = {}
    OBVIOUS
  <2>2. Folds(f, 0)
    BY <2>1
  <2> QED
    BY <2>2
<1>2. ASSUME NEW k \in T PROVE k + 1 \in T
  <2>0. k \in Nat
    OBVIOUS
  <2>1. PICK f : Folds(f, k)
    OBVIOUS
  <2> DEFINE g == [s \in SUBSET (1 .. k + 1) |->
                     IF k + 1 \in s THEN Op(c, f[s \ {k + 1}], seq[k + 1]) ELSE f[s]]
  <2>2. ASSUME NEW s \in SUBSET (1 .. k + 1) PROVE g[s] = Step(g, s)
    <3>1. CASE k + 1 \in s
      <4>1. Max(s) = k + 1 /\ s # {}
        BY <2>0, <3>1, MaxAt
      <4>2. s \ {k + 1} \in SUBSET (1 .. k + 1)
        OBVIOUS
      <4>3. g[s \ {k + 1}] = f[s \ {k + 1}]
        BY <4>2
      <4>4. g[s] = Op(c, f[s \ {k + 1}], seq[k + 1])
        BY <3>1
      <4> QED
        BY <4>1, <4>3, <4>4
    <3>2. CASE k + 1 \notin s
      <4>1. s \in SUBSET (1..k)
        BY <2>0, <3>2
      <4>2. g[s] = f[s]
        BY <3>2
      <4>3. f[s] = Step(f, s)
        BY <2>1, <4>1
      <4>4. g[s \ {Max(s)}] = f[s \ {Max(s)}]
        <5>1. s \ {Max(s)} \in SUBSET (1 .. k + 1) /\ k + 1 \notin s \ {Max(s)}
          BY <3>2
        <5> QED
          BY <5>1
      <4> QED
        BY <4>2, <4>3, <4>4
    <3> QED
      BY <3>1, <3>2
  <2>3. Folds(g, k + 1)
    <3>1. g = [s \in SUBSET (1 .. k + 1) |-> g[s]]
      OBVIOUS
    <3> HIDE DEF g, Step
    <3>2. [s \in SUBSET (1 .. k + 1) |-> g[s]] = [s \in SUBSET (1 .. k + 1) |-> Step(g, s)]
      BY <2>2
    <3> QED
      BY <3>1, <3>2
  <2> HIDE DEF Folds, g
  <2> QED
    BY <2>0, <2>3
<1>3. \E f : Folds(f, n)
  <2> HIDE DEF Folds
  <2>1. \A k \in Nat : k \in T => k + 1 \in T
    BY <1>2
  <2>2. Nat \subseteq T
    <3> HIDE DEF T
    <3> QED
      BY <1>1, <2>1, Induct
  <2> QED
    BY <2>2
<1> DEFINE iter == CHOOSE f : Folds(f, n)
<1>4. Folds(iter, n)
  <2> HIDE DEF Folds
  <2> QED
    BY <1>3
<1>5. Fold(c, m, seq) = iter[1..n]
  BY DEF Fold, FoldLeft, MapThenFoldSet
<1> HIDE DEF iter
<1> DEFINE a == [k \in 0..n |-> iter[1..k]]
<1>6. a[0] = m
  <2>1. 1..0 = {} /\ 0 \in 0..n
    OBVIOUS
  <2>2. iter[{}] = m
    BY <1>4
  <2> QED
    BY <2>1, <2>2
<1>7. ASSUME NEW k \in 1..n PROVE a[k] = Op(c, a[k - 1], seq[k])
  <2>1. k - 1 \in Nat /\ k = (k - 1) + 1 /\ 1..k \in SUBSET (1..n) /\ k \in 1..k /\ k - 1 \in 0..n
    OBVIOUS
  <2>2. Max(1..k) = k
    BY <2>1, MaxAt
  <2>3. (1..k) \ {k} = 1 .. k - 1
    OBVIOUS
  <2>4. iter[1..k] = Step(iter, 1..k)
    BY <1>4, <2>1
  <2>5. iter[1..k] = Op(c, iter[1 .. k - 1], seq[k])
    BY <2>1, <2>2, <2>3, <2>4
  <2> QED
    BY <2>1, <2>5
<1>8. a[n] = iter[1..n]
  OBVIOUS
<1> HIDE DEF a
<1> QED
  BY <1>5, <1>6, <1>7, <1>8 DEF Chained

-----------------------------------------------------------------------------
\* No element, and one element more.
LEMMA FoldNone ==
  ASSUME NEW c, NEW m, NEW seq, DOMAIN seq = {}
  PROVE  Fold(c, m, seq) = m
<1>1. 0 \in Nat /\ DOMAIN seq = 1..0
  OBVIOUS
<1>2. PICK a : Chained(a, c, m, seq, 0)
  BY <1>1, Chain, Zenon
<1> QED BY <1>2 DEF Chained

OneMore(longer, seq, n) ==
  /\ DOMAIN seq = 1..n
  /\ DOMAIN longer = 1 .. n + 1
  /\ \A k \in 1..n : longer[k] = seq[k]

LEMMA FoldMore ==
  ASSUME NEW c, NEW m, NEW seq, NEW longer, NEW n \in Nat, OneMore(longer, seq, n)
  PROVE  Fold(c, m, longer) = Op(c, Fold(c, m, seq), longer[n + 1])
<1>0. /\ n + 1 \in Nat /\ DOMAIN seq = 1..n /\ DOMAIN longer = 1 .. n + 1
     /\ \A k \in 1..n : longer[k] = seq[k]
  BY DEF OneMore
<1>1. PICK a : Chained(a, c, m, seq, n)
  BY <1>0, Chain, Zenon
<1>2. PICK b : Chained(b, c, m, longer, n + 1)
  BY <1>0, Chain, Zenon
<1> DEFINE T == {k \in 0..n : a[k] = b[k]}
<1>3. 0 \in T
  BY <1>1, <1>2 DEF Chained
<1>4. ASSUME NEW k \in 0 .. n - 1, k \in T PROVE k + 1 \in T
  <2>1. k + 1 \in 1..n /\ k + 1 \in 1 .. n + 1 /\ (k + 1) - 1 = k /\ k + 1 \in 0..n
    OBVIOUS
  <2>2. a[k + 1] = Op(c, a[k], seq[k + 1])
    BY <1>1, <2>1 DEF Chained
  <2>3. b[k + 1] = Op(c, b[k], longer[k + 1])
    BY <1>2, <2>1 DEF Chained
  <2>4. longer[k + 1] = seq[k + 1]
    BY <1>0, <2>1
  <2> QED BY <1>4, <2>1, <2>2, <2>3, <2>4
<1>5. 0..n \subseteq T
  <2> HIDE DEF T
  <2> QED BY <1>3, <1>4, InductUpTo
<1>6. a[n] = b[n]
  BY <1>5
<1>7. n + 1 \in 1 .. n + 1 /\ (n + 1) - 1 = n
  OBVIOUS
<1>8. b[n + 1] = Op(c, b[n], longer[n + 1])
  BY <1>2, <1>7 DEF Chained
<1> QED BY <1>1, <1>2, <1>6, <1>8 DEF Chained
=============================================================================
