----------------------------- MODULE FoldLemmas -----------------------------
(***************************************************************************)
(* What a fold over a sequence keeps.  The models run a handler for each   *)
(* element of a queue with FoldLeft (the loops of UnlockBlock, for one).   *)
(* The operator and the property are constants, so that an INSTANCE gives  *)
(* the lemma for a handler: an induction over the queue, carried out with  *)
(* the least counterexample.                                               *)
(***************************************************************************)
EXTENDS Naturals, Sequences, FiniteSets, SequencesExt, WellFoundedInduction, TLAPS

CONSTANTS Op(_, _),        \* the state after one more element
          Other(_, _),     \* another handler, to compare it with
          Good(_, _, _)    \* of a context, a number of elements and a state
-----------------------------------------------------------------------------
(* Every set of natural numbers with an element has a least one.            *)
LEMMA LeastNat ==
  ASSUME NEW S, S \subseteq Nat, S # {}
  PROVE  \E n \in S : \A m \in S : n <= m
<1> DEFINE R == {ss \in Nat \X Nat : ss[1] < ss[2]}
<1>1. IsWellFoundedOn(R, Nat)
  BY NatLessThanWellFounded DEF OpToRel
<1> HIDE DEF R
<1>2. PICK n \in S : \A y \in S : ~ (<<y, n>> \in R)
  BY <1>1, WFMin
<1>3. \A y \in S : ~(y < n)
  BY <1>2 DEF R
<1> QED
  BY <1>3

LEMMA LastIsMax ==
  ASSUME NEW k \in Nat, NEW s \in SUBSET (1..k+1), k+1 \in s
  PROVE  Max(s) = k+1
<1>1. \E x \in s : \A y \in s : x >= y
  OBVIOUS
<1>2. PICK x \in s : x = Max(s) /\ \A y \in s : x >= y
  BY <1>1 DEF Max
<1>3. x >= k+1 /\ x \in 1..k+1
  BY <1>2
<1> QED
  BY <1>2, <1>3
-----------------------------------------------------------------------------
(* The fold, and the recursion by which the library defines it: over the    *)
(* sets of places, the last place first.                                    *)
Folded(base, seq) == FoldLeft(Op, base, seq)

Unfolded(iter, base, seq, k) ==
  [s \in SUBSET (1..k) |-> IF s = {} THEN base ELSE Op(iter[s \ {Max(s)}], seq[Max(s)])]

LEMMA FoldIsRecursive ==
  ASSUME NEW base, NEW seq, NEW n \in Nat, DOMAIN seq = 1..n
  PROVE  Folded(base, seq) = (CHOOSE iter : iter = Unfolded(iter, base, seq, n))[1..n]
BY DEF Folded, FoldLeft, MapThenFoldSet, Unfolded

(* There is a function that satisfies the recursion: with the one for k - 1 *)
(* places there is one for k.                                               *)
LEMMA RecursionHasSolution ==
  ASSUME NEW base, NEW seq, NEW n \in Nat
  PROVE  \E iter : iter = Unfolded(iter, base, seq, n)
<1> DEFINE Bad == {k \in Nat : ~ \E iter : iter = Unfolded(iter, base, seq, k)}
<1> SUFFICES ASSUME Bad # {} PROVE FALSE
  OBVIOUS
<1>1. PICK k \in Bad : \A j \in Bad : k <= j
  <2> HIDE DEF Bad
  <2>1. Bad \subseteq Nat
    BY DEF Bad
  <2> QED
    BY <2>1, LeastNat
<1>2. CASE k = 0
  <2> DEFINE f == [s \in SUBSET (1..0) |-> base]
  <2>1. \A s \in SUBSET (1..0) : s = {}
    OBVIOUS
  <2>2. f = Unfolded(f, base, seq, 0)
    BY <2>1 DEF Unfolded
  <2> QED
    BY <1>1, <1>2, <2>2
<1>3. CASE k # 0
  <2> DEFINE j == k - 1
  <2>1. j \in Nat /\ k = j + 1 /\ ~(k <= j)
    BY <1>3, <1>1
  <2> HIDE DEF j
  <2>2. PICK h : h = Unfolded(h, base, seq, j)
    BY <1>1, <2>1
  <2> DEFINE f == [s \in SUBSET (1..j+1) |->
                     IF s \in SUBSET (1..j) THEN h[s] ELSE Op(h[s \ {j+1}], seq[j+1])]
  <2>3. \A s \in SUBSET (1..j) : s \in SUBSET (1..j+1)
    BY <2>1
  <2>4. ASSUME NEW s \in SUBSET (1..j+1)
        PROVE  f[s] = IF s = {} THEN base ELSE Op(f[s \ {Max(s)}], seq[Max(s)])
    <3>1. CASE s \in SUBSET (1..j)
      <4>1. s \ {Max(s)} \in SUBSET (1..j)
        BY <3>1
      <4>2. f[s] = h[s] /\ f[s \ {Max(s)}] = h[s \ {Max(s)}]
        BY <3>1, <2>3, <4>1
      <4>3. h[s] = IF s = {} THEN base ELSE Op(h[s \ {Max(s)}], seq[Max(s)])
        BY <2>2, <3>1 DEF Unfolded
      <4> HIDE DEF f
      <4> QED
        BY <4>2, <4>3
    <3>2. CASE s \notin SUBSET (1..j)
      <4>1. j+1 \in s
        BY <3>2, <2>1
      <4>2. Max(s) = j+1
        BY <4>1, LastIsMax, <2>1
      <4>3. s \ {j+1} \in SUBSET (1..j)
        BY <2>1
      <4>4. f[s] = Op(h[s \ {j+1}], seq[j+1])
        BY <3>2
      <4>5. f[s \ {j+1}] = h[s \ {j+1}]
        BY <4>3, <2>3
      <4> HIDE DEF f
      <4> QED
        BY <4>1, <4>2, <4>4, <4>5
    <3> QED
      BY <3>1, <3>2
  <2>5. f = Unfolded(f, base, seq, j+1)
    <3>1. f = [s \in SUBSET (1..j+1) |-> f[s]]
      OBVIOUS
    <3> HIDE DEF f
    <3> QED
      BY <3>1, <2>4 DEF Unfolded
  <2> QED
    BY <2>5, <1>1, <2>1
<1> QED
  BY <1>2, <1>3

(* The solution, place after place.                                         *)
Stepwise(iter, base, seq, n) ==
  /\ iter[1..0] = base
  /\ \A k \in 1..n : iter[1..k] = Op(iter[1..(k-1)], seq[k])

LEMMA PlaceAfterPlace ==
  ASSUME NEW base, NEW seq, NEW n \in Nat, NEW iter, iter = Unfolded(iter, base, seq, n)
  PROVE  Stepwise(iter, base, seq, n)
<1>1. iter[1..0] = base
  <2>1. 1..0 = {}
    OBVIOUS
  <2> QED
    BY <2>1 DEF Unfolded
<1>2. ASSUME NEW k \in 1..n
      PROVE  iter[1..k] = Op(iter[1..(k-1)], seq[k])
  <2>1. k \in Nat /\ k >= 1 /\ k <= n /\ k-1 \in Nat /\ (k-1)+1 = k
    OBVIOUS
  <2>2. (1..k) \ {k} = 1..(k-1)
    BY <2>1
  <2>3. k \in 1..k
    BY <2>1
  <2>4. \A i \in 1..k : i \in 1..n
    BY <2>1
  <2>5. 1..k \in SUBSET (1..n) /\ 1..k # {}
    BY <2>3, <2>4
  <2>6. Max(1..k) = k
    BY <2>1, <2>3, LastIsMax
  <2> QED
    BY <2>2, <2>5, <2>6 DEF Unfolded
<1> QED
  BY <1>1, <1>2 DEF Stepwise

(* What holds at the start, and after an element when it held before it,    *)
(* holds after all of them.                                                 *)
LEMMA FoldKeeps ==
  ASSUME NEW x, NEW base, NEW seq, NEW n \in Nat, DOMAIN seq = 1..n,
         Good(x, 0, base),
         \A a : \A k \in 1..n : Good(x, k-1, a) => Good(x, k, Op(a, seq[k]))
  PROVE  Good(x, n, Folded(base, seq))
<1> DEFINE iter == CHOOSE f : f = Unfolded(f, base, seq, n)
<1>1. iter = Unfolded(iter, base, seq, n)
  BY RecursionHasSolution
<1>2. Folded(base, seq) = iter[1..n]
  BY FoldIsRecursive
<1> HIDE DEF iter
<1>3. Stepwise(iter, base, seq, n)
  BY <1>1, PlaceAfterPlace
<1> DEFINE Bad == {k \in 0..n : ~Good(x, k, iter[1..k])}
<1>4. Bad = {}
  <2> SUFFICES ASSUME Bad # {} PROVE FALSE
    OBVIOUS
  <2>1. PICK k \in Bad : \A j \in Bad : k <= j
    <3> HIDE DEF Bad
    <3>1. Bad \subseteq Nat
      BY DEF Bad
    <3> QED
      BY <3>1, LeastNat
  <2>2. k # 0
    BY <1>3, <2>1 DEF Stepwise
  <2>3. k \in 1..n /\ k-1 \in 0..n /\ ~(k <= k-1)
    BY <2>1, <2>2
  <2>4. Good(x, k-1, iter[1..(k-1)])
    BY <2>1, <2>3
  <2> QED
    BY <1>3, <2>1, <2>3, <2>4 DEF Stepwise
<1>5. Good(x, n, iter[1..n])
  BY <1>4
<1> QED
  BY <1>2, <1>5
(* The states it passes through, one after each element ...                 *)
Passes(h, base, seq, n) ==
  /\ h[0] = base
  /\ h[n] = Folded(base, seq)
  /\ \A k \in 1..n : h[k] = Op(h[k-1], seq[k])

LEMMA FoldPasses ==
  ASSUME NEW base, NEW seq, NEW n \in Nat, DOMAIN seq = 1..n
  PROVE  \E h : Passes(h, base, seq, n)
<1> DEFINE iter == CHOOSE f : f = Unfolded(f, base, seq, n)
<1>1. iter = Unfolded(iter, base, seq, n)
  BY RecursionHasSolution
<1>2. Folded(base, seq) = iter[1..n]
  BY FoldIsRecursive
<1> HIDE DEF iter
<1>3. Stepwise(iter, base, seq, n)
  BY <1>1, PlaceAfterPlace
<1> DEFINE h == [k \in 0..n |-> iter[1..k]]
<1>4. h[0] = base /\ h[n] = Folded(base, seq)
  BY <1>2, <1>3 DEF Stepwise
<1>5. \A k \in 1..n : k \in 0..n /\ k-1 \in 0..n
  OBVIOUS
<1>6. \A k \in 1..n : h[k] = Op(h[k-1], seq[k])
  BY <1>3, <1>5 DEF Stepwise
<1> HIDE DEF h
<1> QED
  BY <1>4, <1>6 DEF Passes

(* ... and the end of it, when the good places include the start and with   *)
(* each place the next.                                                     *)
LEMMA UpToTheEnd ==
  ASSUME NEW n \in Nat, NEW S, 0 \in S, \A k \in 1..n : k-1 \in S => k \in S
  PROVE  n \in S
<1> DEFINE Bad == {k \in 0..n : k \notin S}
<1> SUFFICES ASSUME Bad # {} PROVE FALSE
  OBVIOUS
<1>1. PICK k \in Bad : \A j \in Bad : k <= j
  <2> HIDE DEF Bad
  <2>1. Bad \subseteq Nat
    BY DEF Bad
  <2> QED
    BY <2>1, LeastNat
<1>2. k # 0
  BY <1>1
<1>3. k \in 1..n /\ k-1 \in 0..n /\ ~(k <= k-1)
  BY <1>1, <1>2
<1> QED
  BY <1>1, <1>3
-----------------------------------------------------------------------------
(* The recursion determines the last place.                                 *)
LEMMA SolutionsAgree ==
  ASSUME NEW base, NEW seq, NEW n \in Nat,
         NEW f, f = Unfolded(f, base, seq, n), NEW g, g = Unfolded(g, base, seq, n)
  PROVE  f[1..n] = g[1..n]
<1>1. Stepwise(f, base, seq, n)
  BY PlaceAfterPlace
<1>2. Stepwise(g, base, seq, n)
  BY PlaceAfterPlace
<1> DEFINE Bad == {k \in 0..n : f[1..k] # g[1..k]}
<1>3. Bad = {}
  <2> SUFFICES ASSUME Bad # {} PROVE FALSE
    OBVIOUS
  <2>1. PICK k \in Bad : \A j \in Bad : k <= j
    <3> HIDE DEF Bad
    <3>1. Bad \subseteq Nat
      BY DEF Bad
    <3> QED
      BY <3>1, LeastNat
  <2>2. k # 0
    BY <1>1, <1>2, <2>1 DEF Stepwise
  <2>3. k \in 1..n /\ k-1 \in 0..n /\ ~(k <= k-1)
    BY <2>1, <2>2
  <2>4. f[1..(k-1)] = g[1..(k-1)]
    BY <2>1, <2>3
  <2> QED
    BY <1>1, <1>2, <2>1, <2>3, <2>4 DEF Stepwise
<1> QED
  BY <1>3

(* Handlers that agree have the same folds.                                 *)
OtherUnfolded(iter, base, seq, k) ==
  [s \in SUBSET (1..k) |-> IF s = {} THEN base ELSE Other(iter[s \ {Max(s)}], seq[Max(s)])]

OtherFolded(base, seq) == FoldLeft(Other, base, seq)

LEMMA OtherFoldIsRecursive ==
  ASSUME NEW base, NEW seq, NEW n \in Nat, DOMAIN seq = 1..n
  PROVE  OtherFolded(base, seq) = (CHOOSE iter : iter = OtherUnfolded(iter, base, seq, n))[1..n]
BY DEF OtherFolded, FoldLeft, MapThenFoldSet, OtherUnfolded

LEMMA FoldsAgree ==
  ASSUME NEW base, NEW seq, NEW n \in Nat, DOMAIN seq = 1..n,
         \A a, e : Op(a, e) = Other(a, e)
  PROVE  OtherFolded(base, seq) = Folded(base, seq)
<1> DEFINE f == CHOOSE iter : iter = Unfolded(iter, base, seq, n)
           g == CHOOSE iter : iter = OtherUnfolded(iter, base, seq, n)
<1>1. \A iter : OtherUnfolded(iter, base, seq, n) = Unfolded(iter, base, seq, n)
  BY DEF OtherUnfolded, Unfolded
<1>2. f = Unfolded(f, base, seq, n)
  BY RecursionHasSolution
<1>6. Folded(base, seq) = f[1..n]
  BY FoldIsRecursive
<1>3. OtherFolded(base, seq) = g[1..n]
  BY OtherFoldIsRecursive
<1>4. g = OtherUnfolded(g, base, seq, n)
  <2>1. \E iter : iter = OtherUnfolded(iter, base, seq, n)
    BY <1>1, RecursionHasSolution
  <2> QED
    BY <2>1
<1> HIDE DEF f, g
<1>5. g = Unfolded(g, base, seq, n)
  BY <1>1, <1>4
<1> QED
  BY <1>2, <1>3, <1>5, <1>6, SolutionsAgree
=============================================================================
