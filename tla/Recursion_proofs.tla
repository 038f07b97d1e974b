--------------------------- MODULE Recursion_proofs ---------------------------
(***************************************************************************)
(* What the proofs about recursive functions and folds share: induction as *)
(* a least counterexample, the solution of a recursion over the numbers    *)
(* and of one over the subsets of a finite set, and the largest and the    *)
(* smallest of a finite set of numbers.                                    *)
(***************************************************************************)
EXTENDS Integers, FiniteSetsExt, FiniteSetTheorems, WellFoundedInduction, TLAPS

(* A nonempty set of naturals has a least element.                         *)
LEMMA Least ==
    ASSUME NEW S \in SUBSET Nat, S # {}
    PROVE  \E m \in S : \A k \in S : m <= k
<1> DEFINE R == {ss \in Nat \X Nat : ss[1] < ss[2]}
<1>1. IsWellFoundedOn(R, Nat)
    BY NatLessThanWellFounded DEF OpToRel
<1> HIDE DEF R
<1>2. PICK m \in S : \A k \in S : ~(<<k, m>> \in R)
    BY <1>1, WFMin
<1>3. \A k \in S : ~(k < m)
    BY <1>2 DEF R
<1> QED
    BY <1>3

(* Of the sets in a collection, one has no other inside it: what induction *)
(* on a finite set comes to when the property is the set's own membership. *)
LEMMA Smallest ==
    ASSUME NEW S, IsFiniteSet(S), NEW D \in SUBSET SUBSET S, D # {}
    PROVE  \E U \in D : \A V \in D : V \subseteq U => V = U
<1>1. IsWellFoundedOn(StrictSubsetOrdering(S), SUBSET S)
    BY FS_StrictSubsetOrderingWellFounded, FS_FiniteSubsetsOfFinite
<1>2. PICK U \in D : \A V \in D : ~(<<V, U>> \in StrictSubsetOrdering(S))
    <2> HIDE DEF StrictSubsetOrdering
    <2> QED
        BY <1>1, WFMin
<1> QED
    BY <1>2 DEF StrictSubsetOrdering

-----------------------------------------------------------------------------
(* A step from the last value, given by a function next of the place and   *)
(* that value, has a solution up to every N.                               *)
Recurs(N, start, next, g) ==
    g[0] = start /\ \A n \in 1..N : g[n] = next[<<n, g[n - 1]>>]

LEMMA RecursionExists ==
    ASSUME NEW N \in Nat, NEW V, NEW start \in V, NEW next \in [(1..N) \X V -> V]
    PROVE  \E g \in [0..N -> V] : Recurs(N, start, next, g)
<1> DEFINE Solved(n) == \E g \in [0..n -> V] : Recurs(n, start, next, g)
           S == {n \in 0..N : ~Solved(n)}
<1> SUFFICES ASSUME S # {}
             PROVE  FALSE
    OBVIOUS
<1>1. PICK m \in S : \A k \in S : m <= k
    <2>1. S \in SUBSET Nat
        OBVIOUS
    <2> HIDE DEF S
    <2> QED
        BY <2>1, Least
<1>2. m \in 0..N /\ ~Solved(m)
    OBVIOUS
<1>3. ASSUME m = 0
      PROVE  FALSE
    <2> DEFINE g == [n \in 0..0 |-> start]
    <2>1. g \in [0..0 -> V] /\ g[0] = start
        OBVIOUS
    <2> HIDE DEF g
    <2>2. Recurs(0, start, next, g)
        BY <2>1 DEF Recurs
    <2> QED
        BY <1>2, <1>3, <2>1, <2>2
<1>4. ASSUME m # 0
      PROVE  FALSE
    <2>1. m \in 1..N /\ m - 1 \in 0..N /\ m - 1 \notin S
        BY <1>1, <1>2, <1>4
    <2> HIDE DEF S
    <2>2. Solved(m - 1)
        BY <2>1 DEF S
    <2>3. PICK h \in [0..(m - 1) -> V] : Recurs(m - 1, start, next, h)
        BY <2>2
    <2> DEFINE g == [n \in 0..m |-> IF n = m THEN next[<<m, h[m - 1]>>] ELSE h[n]]
    <2>4. h[m - 1] \in V /\ next[<<m, h[m - 1]>>] \in V
        BY <2>1
    <2>5. g \in [0..m -> V]
        BY <2>1, <2>4
    <2>6. \A n \in 0..m : g[n] = IF n = m THEN next[<<m, h[m - 1]>>] ELSE h[n]
        OBVIOUS
    <2> HIDE DEF g
    <2>7. /\ h[0] = start
          /\ \A n \in 1..(m - 1) : h[n] = next[<<n, h[n - 1]>>]
        BY <2>3 DEF Recurs
    <2>8. g[0] = start
        BY <2>1, <2>6, <2>7
    <2>9. ASSUME NEW n \in 1..m
          PROVE  g[n] = next[<<n, g[n - 1]>>]
        <3>1. n \in 0..m /\ n - 1 \in 0..m /\ n - 1 # m /\ (n # m => n \in 1..(m - 1))
            BY <2>1
        <3>2. g[n - 1] = h[n - 1]
            BY <2>6, <3>1
        <3>3. CASE n = m
            BY <2>6, <3>1, <3>2, <3>3
        <3>4. CASE n # m
            BY <2>6, <2>7, <3>1, <3>2, <3>4
        <3> QED
            BY <3>3, <3>4
    <2>10. Recurs(m, start, next, g)
        BY <2>8, <2>9 DEF Recurs
    <2> QED
        BY <1>2, <2>5, <2>10
<1> QED
    BY <1>3, <1>4

(* A fold over a finite set has a solution: element takes an element of a  *)
(* nonempty subset, and next adds it to the fold of the others.            *)
FoldsBy(S, start, element, next, g) ==
    /\ g[{}] = start
    /\ \A T \in SUBSET S : T # {} => g[T] = next[<<element[T], g[T \ {element[T]}]>>]

Takes(S, element) == \A T \in SUBSET S : T # {} => element[T] \in T

(* Two of them agree where both are defined.                               *)
LEMMA FoldsAgree ==
    ASSUME NEW A, IsFiniteSet(A), NEW element, Takes(A, element), NEW start, NEW next,
           NEW g, FoldsBy(A, start, element, next, g),
           NEW B, NEW h, FoldsBy(B, start, element, next, h)
    PROVE  \A U \in SUBSET A : U \in SUBSET B => g[U] = h[U]
<1> DEFINE D == {T \in SUBSET A : T \in SUBSET B /\ g[T] # h[T]}
<1> SUFFICES ASSUME D # {}
             PROVE  FALSE
    OBVIOUS
<1>1. PICK T \in D : \A V \in D : V \subseteq T => V = T
    <2>1. D \in SUBSET SUBSET A
        OBVIOUS
    <2> HIDE DEF D
    <2> QED
        BY <2>1, Smallest
<1>2. T # {}
    BY DEF FoldsBy
<1> DEFINE R == T \ {element[T]}
<1>3. element[T] \in T
    BY <1>2 DEF Takes
<1>4. g[R] = h[R]
    <2>1. R \notin D
        BY <1>1, <1>3
    <2> QED
        BY <2>1
<1>5. g[T] = next[<<element[T], g[R]>>] /\ h[T] = next[<<element[T], h[R]>>]
    BY <1>2 DEF FoldsBy
<1> QED
    BY <1>4, <1>5

(* A fold has a solution.                                                  *)
LEMMA FoldExists ==
    ASSUME NEW S, IsFiniteSet(S), NEW V, NEW start \in V, NEW element,
           NEW next \in [S \X V -> V], Takes(S, element)
    PROVE  \E g \in [SUBSET S -> V] : FoldsBy(S, start, element, next, g)
<1> DEFINE Solved(T) == \E g \in [SUBSET T -> V] : FoldsBy(T, start, element, next, g)
           D == {T \in SUBSET S : ~Solved(T)}
<1> SUFFICES ASSUME D # {}
             PROVE  FALSE
    OBVIOUS
<1>1. PICK T \in D : \A U \in D : U \subseteq T => U = T
    <2>1. D \in SUBSET SUBSET S
        OBVIOUS
    <2> HIDE DEF D
    <2> QED
        BY <2>1, Smallest
<1>2. T \in SUBSET S /\ ~Solved(T)
    OBVIOUS
<1>3. \A U \in SUBSET T : U # T => Solved(U)
    <2> HIDE DEF Solved
    <2> QED
        BY <1>1, <1>2
<1> HIDE DEF D
<1> DEFINE Of(U) == CHOOSE g : g \in [SUBSET U -> V] /\ FoldsBy(U, start, element, next, g)
           Rest(U) == U \ {element[U]}
           g == [U \in SUBSET T |->
                    IF U = {} THEN start ELSE next[<<element[U], Of(Rest(U))[Rest(U)]>>]]
<1>4. ASSUME NEW U \in SUBSET T, U # T
      PROVE  Of(U) \in [SUBSET U -> V] /\ FoldsBy(U, start, element, next, Of(U))
    <2>1. \E f : f \in [SUBSET U -> V] /\ FoldsBy(U, start, element, next, f)
        BY <1>3, <1>4
    <2> HIDE DEF FoldsBy
    <2> QED
        BY <2>1
<1>5. ASSUME NEW U \in SUBSET T, U # {}
      PROVE  /\ element[U] \in U /\ Rest(U) \in SUBSET T /\ Rest(U) # T
             /\ Of(Rest(U)) \in [SUBSET Rest(U) -> V]
             /\ FoldsBy(Rest(U), start, element, next, Of(Rest(U)))
             /\ Of(Rest(U))[Rest(U)] \in V
    <2>1. element[U] \in U /\ U \in SUBSET S
        BY <1>2, <1>5 DEF Takes
    <2>2. Rest(U) \in SUBSET T /\ Rest(U) # T
        BY <2>1
    <2> HIDE DEF Rest, Of
    <2>3. Of(Rest(U)) \in [SUBSET Rest(U) -> V] /\ FoldsBy(Rest(U), start, element, next, Of(Rest(U)))
        BY <1>4, <2>2
    <2> QED
        BY <2>1, <2>2, <2>3
<1> HIDE DEF Of
<1>6. \A U \in SUBSET T :
        g[U] = IF U = {} THEN start ELSE next[<<element[U], Of(Rest(U))[Rest(U)]>>]
    OBVIOUS
<1>7. g \in [SUBSET T -> V]
    <2>1. ASSUME NEW U \in SUBSET T, U # {}
          PROVE  next[<<element[U], Of(Rest(U))[Rest(U)]>>] \in V
        <3>1. element[U] \in S /\ Of(Rest(U))[Rest(U)] \in V
            BY <1>2, <1>5, <2>1
        <3> HIDE DEF Rest
        <3> QED
            BY <3>1
    <2> HIDE DEF Rest
    <2> QED
        BY <2>1
<1> HIDE DEF g
<1>8. ASSUME NEW U \in SUBSET T, U # {}
      PROVE  g[Rest(U)] = Of(Rest(U))[Rest(U)]
    <2> DEFINE R == Rest(U)
    <2>1. /\ R \in SUBSET T /\ R # T
          /\ FoldsBy(R, start, element, next, Of(R))
        BY <1>5, <1>8
    <2> HIDE DEF R
    <2>2. CASE R = {}
        <3>1. g[R] = start /\ Of(R)[R] = start
            BY <1>6, <2>1, <2>2 DEF FoldsBy
        <3> QED
            BY <3>1 DEF R
    <2>3. CASE R # {}
        <3>1. /\ g[R] = next[<<element[R], Of(Rest(R))[Rest(R)]>>]
              /\ FoldsBy(Rest(R), start, element, next, Of(Rest(R)))
            BY <1>5, <1>6, <2>1, <2>3
        <3>2. Of(R)[R] = next[<<element[R], Of(R)[Rest(R)]>>]
            BY <2>1, <2>3 DEF FoldsBy
        <3> DEFINE RR == Rest(R)
        <3>3. RR \in SUBSET R /\ IsFiniteSet(R) /\ Takes(R, element)
            <4>1. R \in SUBSET S
                BY <1>2, <2>1
            <4> QED
                BY <4>1, FS_Subset DEF Takes
        <3>4. FoldsBy(R, start, element, next, Of(R)) /\ FoldsBy(RR, start, element, next, Of(RR))
            BY <2>1, <3>1
        <3> HIDE DEF RR
        <3>5. \A U1 \in SUBSET R : U1 \in SUBSET RR => Of(R)[U1] = Of(RR)[U1]
            BY ONLY <3>3, <3>4, FoldsAgree
        <3>6. Of(R)[RR] = Of(RR)[RR]
            BY ONLY <3>3, <3>5
        <3> QED
            BY <3>1, <3>2, <3>6 DEF R, RR
    <2> QED
        BY <2>2, <2>3
<1>9. FoldsBy(T, start, element, next, g)
    BY <1>6, <1>8 DEF FoldsBy
<1> QED
    BY <1>2, <1>7, <1>9

-----------------------------------------------------------------------------
(* The values of a function on a finite set are no more than the set.      *)
LEMMA Image ==
    ASSUME NEW S, IsFiniteSet(S), NEW f
    PROVE  IsFiniteSet({f[x] : x \in S}) /\ Cardinality({f[x] : x \in S}) <= Cardinality(S)
<1> DEFINE T == {f[x] : x \in S}
           g == [x \in S |-> f[x]]
<1>1. g \in Surjection(S, T)
    BY DEF Surjection
<1> HIDE DEF g, T
<1>2. IsFiniteSet(T) /\ Cardinality(T) <= Cardinality(S)
    BY <1>1, FS_Surjection
<1> QED
    BY <1>2 DEF T

(* The largest and the smallest of a nonempty finite set of integers.      *)
LEMMA MaxIs ==
    ASSUME NEW S, IsFiniteSet(S), S \subseteq Int, S # {}
    PROVE  Max(S) \in S /\ \A x \in S : x <= Max(S)
<1> DEFINE Has(T) == \E m \in T : \A x \in T : m >= x
           D == {T \in SUBSET S : T # {} /\ ~Has(T)}
<1>1. D = {}
    <2> SUFFICES ASSUME D # {}
                 PROVE  FALSE
        OBVIOUS
    <2>1. PICK T \in D : \A U \in D : U \subseteq T => U = T
        <3>1. D \in SUBSET SUBSET S /\ IsFiniteSet(S) /\ D # {}
            OBVIOUS
        <3> HIDE DEF D, Has
        <3> QED
            BY ONLY <3>1, Smallest, SMTT(30)
    <2>2. PICK y \in T : TRUE
        OBVIOUS
    <2>3. T \ {y} = {} \/ Has(T \ {y})
        <3>1. T \ {y} \notin D /\ T \ {y} \in SUBSET S
            BY <2>1, <2>2
        <3> QED
            BY <3>1
    <2>4. T \in SUBSET Int /\ ~Has(T)
        OBVIOUS
    <2>5. CASE T \ {y} = {}
        <3>1. T = {y}
            BY <2>2, <2>5
        <3> QED
            BY <2>4, <3>1
    <2>6. CASE Has(T \ {y})
        <3>1. PICK m \in T \ {y} : \A x \in T \ {y} : m >= x
            BY <2>6
        <3> QED
            BY <2>2, <2>4, <3>1
    <2> QED
        BY <2>3, <2>5, <2>6
<1>2. \E m \in S : \A x \in S : m >= x
    BY <1>1
<1>3. Max(S) \in S /\ \A x \in S : Max(S) >= x
    BY <1>2 DEF Max
<1> QED
    BY <1>3

LEMMA MinIs ==
    ASSUME NEW S, IsFiniteSet(S), S \subseteq Int, S # {}
    PROVE  Min(S) \in S /\ \A x \in S : Min(S) <= x
<1> DEFINE f == [x \in S |-> -x]
           T == {f[x] : x \in S}
<1>1. IsFiniteSet(T) /\ T \subseteq Int /\ T # {}
    <2>1. IsFiniteSet(T)
        <3> HIDE DEF f
        <3> QED
            BY Image
    <2>2. \A x \in S : f[x] \in Int
        OBVIOUS
    <2>3. PICK x \in S : TRUE
        OBVIOUS
    <2> HIDE DEF f
    <2> QED
        BY <2>1, <2>2, <2>3
<1>2. Max(T) \in T /\ \A x \in T : x <= Max(T)
    <2> HIDE DEF T
    <2> QED
        BY <1>1, MaxIs
<1>3. PICK m \in S : Max(T) = -m
    BY <1>2
<1>4. \A x \in S : m <= x
    BY <1>2, <1>3
<1>5. Min(S) \in S /\ \A x \in S : Min(S) =< x
    BY <1>4 DEF Min
<1> QED
    BY <1>5
===============================================================================
