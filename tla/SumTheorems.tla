---------------------------- MODULE SumTheorems ----------------------------
(***************************************************************************)
(* What the models' proofs need to know of sums over finite sets (the fold *)
(* behind SumFunctionOnSet and MapThenSumSet).  Induction is stated over a *)
(* set of naturals, or of subsets, which needs no operator as a parameter. *)
(***************************************************************************)
EXTENDS Integers, FiniteSetTheorems, WellFoundedInduction, TLAPS

LEMMA NatInductionOnSet ==
    ASSUME NEW G, 0 \in G, \A n \in Nat : n \in G => n + 1 \in G
    PROVE  Nat \subseteq G
<1> SUFFICES ASSUME Nat \ G # {} PROVE FALSE
  OBVIOUS
<1>1. PICK n \in Nat \ G : \A m \in Nat \ G : ~(<<m, n>> \in OpToRel(<, Nat))
  <2>1. Nat \ G \subseteq Nat
    OBVIOUS
  <2> QED
    BY <2>1, NatLessThanWellFounded, WFMin
<1>2. n \in Nat /\ n # 0
  OBVIOUS
<1>3. n - 1 \in Nat /\ n - 1 < n /\ (n - 1) + 1 = n
  BY <1>2
<1>4. <<n - 1, n>> \in OpToRel(<, Nat)
  BY <1>2, <1>3 DEF OpToRel
<1>5. n - 1 \in G
  BY <1>1, <1>3, <1>4
<1> QED
  BY <1>3, <1>5

(* A set of subsets that has the empty set, and every set all of whose     *)
(* parts with one element less it has, has them all.                       *)
LEMMA SubsetInduction ==
    ASSUME NEW S, IsFiniteSet(S), NEW G, {} \in G,
           \A T \in SUBSET S : T # {} /\ (\A x \in T : T \ {x} \in G) => T \in G
    PROVE  SUBSET S \subseteq G
<1> DEFINE Sizes == {n \in Nat : \A T \in SUBSET S : Cardinality(T) = n => T \in G}
<1>f. \A T \in SUBSET S : IsFiniteSet(T) /\ Cardinality(T) \in Nat
  BY FS_Subset, FS_CardinalityType
<1>1. 0 \in Sizes
  BY <1>f, FS_EmptySet
<1>2. ASSUME NEW n \in Nat, n \in Sizes PROVE n + 1 \in Sizes
  <2> SUFFICES ASSUME NEW T \in SUBSET S, Cardinality(T) = n + 1
               PROVE  T \in G
    BY <1>2
  <2>1. T # {}
    <3>1. n + 1 # 0
      OBVIOUS
    <3> QED
      BY <3>1, FS_EmptySet
  <2>2. ASSUME NEW x \in T PROVE T \ {x} \in G
    <3>1. Cardinality(T \ {x}) = n
      BY <1>f, <2>2, FS_RemoveElement
    <3> QED
      BY <1>2, <3>1
  <2> QED
    BY <2>1, <2>2
<1> HIDE DEF Sizes
<1>3. Nat \subseteq Sizes
  BY <1>1, <1>2, NatInductionOnSet
<1> QED
  BY <1>3, <1>f DEF Sizes

(***************************************************************************)
(* The fold exists and is unique.                                          *)
(***************************************************************************)

Pick(s) == CHOOSE x \in s : TRUE

IsFold(iter, w, D) ==
    iter = [s \in D |-> IF s = {} THEN 0 ELSE w[Pick(s)] + iter[s \ {Pick(s)}]]

(* The sum of w[x] over the elements x of S.                               *)
Sum(w, S) == LET iter == CHOOSE iter : IsFold(iter, w, SUBSET S) IN iter[S]

LEMMA PickIsElement == \A s : s # {} => Pick(s) \in s
  BY DEF Pick

UpTo(S, n) == {T \in SUBSET S : Cardinality(T) <= n}

LEMMA FoldExtends ==
    ASSUME NEW S, IsFiniteSet(S), NEW w, NEW n \in Nat, NEW g, IsFold(g, w, UpTo(S, n))
    PROVE  \E h : IsFold(h, w, UpTo(S, n + 1))
<1> DEFINE h == [s \in UpTo(S, n + 1) |->
                    IF s = {} THEN 0 ELSE w[Pick(s)] + g[s \ {Pick(s)}]]
<1>f. \A T \in SUBSET S : IsFiniteSet(T) /\ Cardinality(T) \in Nat
  BY FS_Subset, FS_CardinalityType
<1>1. \A s \in UpTo(S, n) : s \in UpTo(S, n + 1) /\ h[s] = g[s]
  <2>1. \A s \in UpTo(S, n) : s \in UpTo(S, n + 1)
    BY <1>f DEF UpTo
  <2>2. \A s \in UpTo(S, n) :
            g[s] = IF s = {} THEN 0 ELSE w[Pick(s)] + g[s \ {Pick(s)}]
    BY DEF IsFold
  <2> QED
    BY <2>1, <2>2
<1>2. ASSUME NEW s \in UpTo(S, n + 1), s # {}
      PROVE  s \ {Pick(s)} \in UpTo(S, n)
  BY <1>2, <1>f, PickIsElement, FS_RemoveElement DEF UpTo
<1>3. ASSUME NEW s \in UpTo(S, n + 1)
      PROVE  h[s] = IF s = {} THEN 0 ELSE w[Pick(s)] + h[s \ {Pick(s)}]
  BY <1>1, <1>2, <1>3
<1>4. h = [s \in UpTo(S, n + 1) |-> h[s]]
  OBVIOUS
<1> HIDE DEF h
<1>5. h = [s \in UpTo(S, n + 1) |-> IF s = {} THEN 0 ELSE w[Pick(s)] + h[s \ {Pick(s)}]]
  BY <1>3, <1>4
<1> QED
  BY <1>5 DEF IsFold

LEMMA FoldExists ==
    ASSUME NEW S, IsFiniteSet(S), NEW w
    PROVE  \E iter : IsFold(iter, w, SUBSET S)
<1> DEFINE G == {n \in Nat : \E g : IsFold(g, w, UpTo(S, n))}
<1>1. 0 \in G
  <2> DEFINE g == [s \in UpTo(S, 0) |-> 0]
  <2>1. \A s \in UpTo(S, 0) : s = {}
    BY FS_Subset, FS_CardinalityType, FS_EmptySet DEF UpTo
  <2>2. IsFold(g, w, UpTo(S, 0))
    BY <2>1 DEF IsFold
  <2> QED
    BY <2>2
<1>2. \A n \in Nat : n \in G => n + 1 \in G
  BY FoldExtends
<1> HIDE DEF G
<1>3. Cardinality(S) \in G
  BY <1>1, <1>2, NatInductionOnSet, FS_CardinalityType
<1>4. UpTo(S, Cardinality(S)) = SUBSET S
  BY FS_Subset DEF UpTo
<1> QED
  BY <1>3, <1>4 DEF G

(* Two folds agree where their weights do.                                 *)
LEMMA FoldsAgree ==
    ASSUME NEW R, NEW S \in SUBSET R, IsFiniteSet(S), NEW v, NEW w, NEW g, NEW h,
           IsFold(g, v, SUBSET S), IsFold(h, w, SUBSET R), \A x \in S : v[x] = w[x]
    PROVE  g[S] = h[S]
<1> DEFINE G == {T \in SUBSET S : g[T] = h[T]}
<1>1. ASSUME NEW T \in SUBSET S
      PROVE  /\ g[T] = IF T = {} THEN 0 ELSE v[Pick(T)] + g[T \ {Pick(T)}]
             /\ h[T] = IF T = {} THEN 0 ELSE w[Pick(T)] + h[T \ {Pick(T)}]
  BY DEF IsFold
<1>2. {} \in G
  BY <1>1
<1>3. \A T \in SUBSET S : T # {} /\ (\A x \in T : T \ {x} \in G) => T \in G
  BY <1>1, PickIsElement
<1> HIDE DEF G
<1>4. SUBSET S \subseteq G
  BY <1>2, <1>3, SubsetInduction
<1>5. S \in G
  BY <1>4
<1> QED
  BY <1>5 DEF G

(* A sum is its fold, or that of any set around it.                        *)
LEMMA SumIsFold ==
    ASSUME NEW R, IsFiniteSet(R), NEW w, NEW h, IsFold(h, w, SUBSET R), NEW S \in SUBSET R,
           NEW v, \A x \in S : v[x] = w[x]
    PROVE  Sum(v, S) = h[S]
<1>1. IsFiniteSet(S)
  BY FS_Subset
<1>2. \E iter : IsFold(iter, v, SUBSET S)
  BY <1>1, FoldExists
<1>3. PICK g : IsFold(g, v, SUBSET S) /\ Sum(v, S) = g[S]
  BY <1>2 DEF Sum
<1>4. g[S] = h[S]
  BY <1>1, <1>3, FoldsAgree
<1> QED
  BY <1>3, <1>4

(***************************************************************************)
(* Sums.                                                                   *)
(***************************************************************************)

LEMMA SumCongruence ==
    ASSUME NEW S, IsFiniteSet(S), NEW v, NEW w, \A x \in S : v[x] = w[x]
    PROVE  Sum(v, S) = Sum(w, S)
<1>1. PICK h : IsFold(h, w, SUBSET S)
  BY FoldExists
<1> QED
  BY <1>1, SumIsFold

LEMMA SumOfNone == \A w : Sum(w, {}) = 0
<1> SUFFICES ASSUME NEW w PROVE Sum(w, {}) = 0
  OBVIOUS
<1>1. IsFiniteSet({})
  BY FS_EmptySet
<1>2. PICK h : IsFold(h, w, SUBSET {})
  BY <1>1, FoldExists
<1>3. h[{}] = 0
  BY <1>2 DEF IsFold
<1> QED
  BY <1>1, <1>2, <1>3, SumIsFold

LEMMA SumOfPicked ==
    ASSUME NEW S, IsFiniteSet(S), S # {}, NEW w
    PROVE  Sum(w, S) = w[Pick(S)] + Sum(w, S \ {Pick(S)})
<1>1. PICK h : IsFold(h, w, SUBSET S)
  BY FoldExists
<1>2. h[S] = w[Pick(S)] + h[S \ {Pick(S)}]
  BY <1>1 DEF IsFold
<1>3. Sum(w, S) = h[S] /\ Sum(w, S \ {Pick(S)}) = h[S \ {Pick(S)}]
  BY <1>1, SumIsFold
<1> QED
  BY <1>2, <1>3

LEMMA SumType ==
    ASSUME NEW S, IsFiniteSet(S), NEW w, \A x \in S : w[x] \in Nat
    PROVE  Sum(w, S) \in Nat
<1> DEFINE G == {T \in SUBSET S : Sum(w, T) \in Nat}
<1>1. {} \in G
  BY SumOfNone
<1>2. ASSUME NEW T \in SUBSET S, T # {}, \A x \in T : T \ {x} \in G
      PROVE  T \in G
  <2>1. IsFiniteSet(T) /\ Pick(T) \in T
    BY <1>2, FS_Subset, PickIsElement
  <2>2. Sum(w, T) = w[Pick(T)] + Sum(w, T \ {Pick(T)})
    BY <1>2, <2>1, SumOfPicked
  <2>3. w[Pick(T)] \in Nat /\ Sum(w, T \ {Pick(T)}) \in Nat
    BY <1>2, <2>1
  <2>4. Sum(w, T) \in Nat
    BY <2>2, <2>3
  <2> QED
    BY <2>4
<1> HIDE DEF G
<1>3. SUBSET S \subseteq G
  BY <1>1, <1>2, SubsetInduction
<1> QED
  BY <1>3 DEF G

LEMMA SumOfZeros ==
    ASSUME NEW S, IsFiniteSet(S), NEW w, \A x \in S : w[x] = 0
    PROVE  Sum(w, S) = 0
<1> DEFINE G == {T \in SUBSET S : Sum(w, T) = 0}
<1>1. {} \in G
  BY SumOfNone
<1>2. ASSUME NEW T \in SUBSET S, T # {}, \A x \in T : T \ {x} \in G
      PROVE  T \in G
  <2>1. IsFiniteSet(T) /\ Pick(T) \in T
    BY <1>2, FS_Subset, PickIsElement
  <2>2. Sum(w, T) = w[Pick(T)] + Sum(w, T \ {Pick(T)})
    BY <1>2, <2>1, SumOfPicked
  <2>3. w[Pick(T)] = 0 /\ Sum(w, T \ {Pick(T)}) = 0
    BY <1>2, <2>1
  <2>4. Sum(w, T) = 0
    BY <2>2, <2>3
  <2> QED
    BY <2>4
<1> HIDE DEF G
<1>3. SUBSET S \subseteq G
  BY <1>1, <1>2, SubsetInduction
<1>4. S \in G
  BY <1>3
<1> QED
  BY <1>4 DEF G

(* The order of the terms makes no difference.                             *)
LEMMA SumOfElement ==
    ASSUME NEW S, IsFiniteSet(S), NEW w, \A x \in S : w[x] \in Nat, NEW x \in S
    PROVE  Sum(w, S) = w[x] + Sum(w, S \ {x})
<1> DEFINE G == {T \in SUBSET S : \A y \in T : Sum(w, T) = w[y] + Sum(w, T \ {y})}
<1>1. {} \in G
  OBVIOUS
<1>2. ASSUME NEW T \in SUBSET S, T # {}, \A y \in T : T \ {y} \in G
      PROVE  T \in G
  <2> SUFFICES ASSUME NEW y \in T
               PROVE  Sum(w, T) = w[y] + Sum(w, T \ {y})
    OBVIOUS
  <2> DEFINE z == Pick(T)
  <2>1. IsFiniteSet(T) /\ z \in T
    BY <1>2, FS_Subset, PickIsElement
  <2>2. Sum(w, T) = w[z] + Sum(w, T \ {z})
    BY <1>2, <2>1, SumOfPicked
  <2> HIDE DEF z
  <2>3. CASE y = z
    BY <2>2, <2>3
  <2>4. CASE y # z
    <3> DEFINE U == (T \ {z}) \ {y}
    <3>1. U = (T \ {y}) \ {z}
      OBVIOUS
    <3>2. Sum(w, T \ {z}) = w[y] + Sum(w, U)
      BY <1>2, <2>1, <2>4
    <3>3. Sum(w, T \ {y}) = w[z] + Sum(w, U)
      BY <1>2, <2>1, <2>4, <3>1
    <3>4. IsFiniteSet(U) /\ \A u \in U : w[u] \in Nat
      BY <2>1, FS_Subset
    <3>5. Sum(w, U) \in Nat /\ w[y] \in Nat /\ w[z] \in Nat
      BY <2>1, <3>4, SumType
    <3> QED
      BY <2>2, <3>2, <3>3, <3>5
  <2> QED
    BY <2>3, <2>4
<1> HIDE DEF G
<1>3. SUBSET S \subseteq G
  BY <1>1, <1>2, SubsetInduction
<1> QED
  BY <1>3 DEF G

(* A sum is that of a part and that of the rest.                           *)
LEMMA SumOfParts ==
    ASSUME NEW S, IsFiniteSet(S), NEW w, \A x \in S : w[x] \in Nat, NEW T \in SUBSET S
    PROVE  /\ Sum(w, S) = Sum(w, T) + Sum(w, S \ T)
           /\ Sum(w, T) \in Nat /\ Sum(w, S \ T) \in Nat /\ Sum(w, T) <= Sum(w, S)
<1>t. ASSUME NEW U \in SUBSET S PROVE Sum(w, U) \in Nat
  <2>1. IsFiniteSet(U) /\ \A x \in U : w[x] \in Nat
    BY FS_Subset
  <2> QED
    BY <2>1, SumType
<1> DEFINE G == {U \in SUBSET S : Sum(w, S) = Sum(w, U) + Sum(w, S \ U)}
<1>1. {} \in G
  <2>1. S \ {} = S
    OBVIOUS
  <2>2. Sum(w, S) = 0 + Sum(w, S)
    BY <1>t
  <2> QED
    BY <2>1, <2>2, SumOfNone
<1>2. ASSUME NEW U \in SUBSET S, U # {}, \A y \in U : U \ {y} \in G
      PROVE  U \in G
  <2>1. PICK y \in U : TRUE
    BY <1>2
  <2> DEFINE V == U \ {y}
  <2>2. Sum(w, S) = Sum(w, V) + Sum(w, S \ V)
    BY <1>2
  <2>3. Sum(w, U) = w[y] + Sum(w, V)
    BY FS_Subset, SumOfElement
  <2>4. Sum(w, S \ V) = w[y] + Sum(w, S \ U)
    <3>1. IsFiniteSet(S \ V) /\ y \in S \ V /\ \A x \in S \ V : w[x] \in Nat
      BY FS_Subset
    <3>2. (S \ V) \ {y} = S \ U
      OBVIOUS
    <3> QED
      BY <3>1, <3>2, SumOfElement
  <2>5. Sum(w, V) \in Nat /\ Sum(w, S \ U) \in Nat /\ w[y] \in Nat
    BY <1>t
  <2>6. Sum(w, S) = Sum(w, U) + Sum(w, S \ U)
    BY <2>2, <2>3, <2>4, <2>5
  <2> QED
    BY <2>6
<1> HIDE DEF G
<1>3. SUBSET S \subseteq G
  BY <1>1, <1>2, SubsetInduction
<1>4. Sum(w, S) = Sum(w, T) + Sum(w, S \ T)
  BY <1>3 DEF G
<1>5. Sum(w, T) \in Nat /\ Sum(w, S \ T) \in Nat
  BY <1>t
<1> QED
  BY <1>4, <1>5

(* One term grows by one, and the sum with it.                             *)
LEMMA SumIncremented ==
    ASSUME NEW S, IsFiniteSet(S), NEW v, NEW w, \A x \in S : w[x] \in Nat,
           NEW y, \A x \in S : v[x] = IF x = y THEN w[x] + 1 ELSE w[x]
    PROVE  Sum(v, S) = IF y \in S THEN Sum(w, S) + 1 ELSE Sum(w, S)
<1>1. CASE y \notin S
  BY <1>1, SumCongruence
<1>2. CASE y \in S
  <2>1. IsFiniteSet(S \ {y}) /\ \A x \in S \ {y} : v[x] = w[x] /\ w[x] \in Nat
    BY FS_Subset
  <2>2. Sum(v, S \ {y}) = Sum(w, S \ {y}) /\ Sum(w, S \ {y}) \in Nat
    BY <2>1, SumCongruence, SumType
  <2>3. Sum(w, S) = w[y] + Sum(w, S \ {y})
    BY <1>2, SumOfElement
  <2>4. \A x \in S : v[x] \in Nat
    OBVIOUS
  <2>5. Sum(v, S) = v[y] + Sum(v, S \ {y})
    BY <1>2, <2>4, SumOfElement
  <2>6. v[y] = w[y] + 1 /\ w[y] \in Nat
    BY <1>2
  <2> QED
    BY <1>2, <2>2, <2>3, <2>5, <2>6
<1> QED
  BY <1>1, <1>2

=============================================================================
