-------------------------------- MODULE Sums --------------------------------
(***************************************************************************)
(* What SumFunctionOnSet computes on finite sets.  The totals the program  *)
(* keeps in a row or adds up from the journal are such sums; the proofs    *)
(* about them cite these lemmas.                                           *)
(***************************************************************************)
EXTENDS Integers, FiniteSets, Functions, FiniteSetTheorems, WellFoundedInduction, TLAPS

\* A set of naturals that is not empty has a least member.
LEMMA LeastNatural ==
  ASSUME NEW T, T \subseteq Nat, T # {}
  PROVE  \E n \in T : \A m \in T : n <= m
<1>1. PICK n \in T : \A m \in T : ~(<<m, n>> \in OpToRel(<, Nat))
  BY NatLessThanWellFounded, WFMin
<1>2. ASSUME NEW m \in T PROVE n <= m
  <2>1. ~(m < n)
    BY <1>1 DEF OpToRel
  <2> QED
    BY <2>1
<1> QED
  BY <1>2

\* The element the fold takes first, the fold of f over the sets in D that defines
\* SumFunctionOnSet, and the sets it is built up over.
Chosen(s) == CHOOSE x \in s : TRUE

IsFold(it, f, D) == it = [s \in D |-> IF s = {} THEN 0
                                     ELSE f[Chosen(s)] + it[s \ {Chosen(s)}]]

Folds(it, f, S) == IsFold(it, f, SUBSET S)

Small(S, n) == {s \in SUBSET S : Cardinality(s) <= n}

\* The fold exists on the subsets of a finite set.
LEMMA FoldExists ==
  ASSUME NEW f, NEW S, IsFiniteSet(S)
  PROVE  \E it : Folds(it, f, S)
<1> DEFINE A == {n \in Nat : ~\E it : IsFold(it, f, Small(S, n))}
<1>1. Cardinality(S) \in Nat
      /\ \A s \in SUBSET S : IsFiniteSet(s) /\ Cardinality(s) \in Nat
                             /\ Cardinality(s) <= Cardinality(S)
  BY FS_Subset, FS_CardinalityType
<1>2. SUFFICES A = {}
  <2>1. Small(S, Cardinality(S)) = SUBSET S
    BY <1>1 DEF Small
  <2> QED
    BY <1>1, <1>2, <2>1 DEF Folds
<1>3. SUFFICES ASSUME A # {} PROVE FALSE
  OBVIOUS
<1>4. PICK n \in A : \A m \in A : n <= m
  BY <1>3, LeastNatural
<1>5. CASE n = 0
  <2> DEFINE it == [s \in Small(S, 0) |-> 0]
  <2>1. \A s \in Small(S, 0) : s = {}
    BY <1>1, FS_EmptySet DEF Small
  <2>2. IsFold(it, f, Small(S, 0))
    BY <2>1 DEF Folds, IsFold
  <2> QED
    BY <1>4, <1>5, <2>2
<1>6. CASE n # 0
  <2>1. n - 1 \in Nat /\ n - 1 \notin A
    BY <1>4, <1>6
  <2>2. PICK it : IsFold(it, f, Small(S, n - 1))
    BY <2>1
  <2> DEFINE D == Small(S, n)
             C == Small(S, n - 1)
             jt == [s \in D |-> IF s \in C THEN it[s]
                                ELSE f[Chosen(s)] + it[s \ {Chosen(s)}]]
  <2>3. C \subseteq D
    BY <1>1, <1>4, <2>1 DEF Small
  <2>4. \A s \in D : s # {} => Chosen(s) \in s
    BY DEF Chosen
  <2>5. \A s \in D : s # {} => s \ {Chosen(s)} \in C
    <3> SUFFICES ASSUME NEW s \in D, s # {} PROVE s \ {Chosen(s)} \in C
      OBVIOUS
    <3>1. IsFiniteSet(s) /\ s \in SUBSET S /\ Cardinality(s) <= n
      BY <1>1 DEF Small
    <3>2. Cardinality(s \ {Chosen(s)}) = Cardinality(s) - 1
      BY <2>4, <3>1, FS_RemoveElement
    <3> QED
      BY <1>1, <1>4, <3>1, <3>2 DEF Small
  <2>6. \A s \in D : s \in C => it[s] = IF s = {} THEN 0
                                         ELSE f[Chosen(s)] + it[s \ {Chosen(s)}]
    BY <2>2 DEF Folds, IsFold
  <2>7. \A s \in D : s \notin C => s # {}
    <3>1. {} \in C
      BY <2>1, FS_EmptySet DEF Small
    <3> QED
      BY <3>1
  <2> HIDE DEF D, C
  <2>8. jt = [s \in D |-> IF s = {} THEN 0 ELSE f[Chosen(s)] + jt[s \ {Chosen(s)}]]
    BY <2>3, <2>5, <2>6, <2>7
  <2>9. IsFold(jt, f, D)
    BY <2>8 DEF Folds, IsFold
  <2> QED
    BY <1>4, <2>9 DEF D
<1> QED
  BY <1>5, <1>6

\* Folds over two sets agree where both are defined.
LEMMA FoldsAgree ==
  ASSUME NEW f, NEW S, IsFiniteSet(S), NEW T \in SUBSET S,
         NEW it, Folds(it, f, S), NEW jt, Folds(jt, f, T)
  PROVE  it[T] = jt[T]
<1> DEFINE B == {Cardinality(s) : s \in {t \in SUBSET T : it[t] # jt[t]}}
<1>1. \A s \in SUBSET T : s \in SUBSET S /\ IsFiniteSet(s) /\ Cardinality(s) \in Nat
  BY FS_Subset, FS_CardinalityType
<1>2. SUFFICES ASSUME it[T] # jt[T] PROVE FALSE
  OBVIOUS
<1>3. PICK n \in B : \A m \in B : n <= m
  <2>1. B \subseteq Nat
    BY <1>1
  <2>2. B # {}
    BY <1>2
  <2> HIDE DEF B
  <2> QED
    BY <2>1, <2>2, LeastNatural
<1>4. PICK s \in SUBSET T : it[s] # jt[s] /\ Cardinality(s) = n
  BY <1>3
<1>5. /\ it[s] = IF s = {} THEN 0 ELSE f[Chosen(s)] + it[s \ {Chosen(s)}]
      /\ jt[s] = IF s = {} THEN 0 ELSE f[Chosen(s)] + jt[s \ {Chosen(s)}]
  BY <1>1 DEF Folds, IsFold
<1>6. s # {} /\ Chosen(s) \in s
  BY <1>4, <1>5 DEF Chosen
<1>7. Cardinality(s \ {Chosen(s)}) = n - 1 /\ n \in Nat
  BY <1>1, <1>4, <1>6, FS_RemoveElement
<1>8. it[s \ {Chosen(s)}] = jt[s \ {Chosen(s)}]
  BY <1>3, <1>7
<1> QED
  BY <1>4, <1>5, <1>6, <1>8

\* What the community operator computes, one element at a time.
LEMMA SumUnfolds ==
  ASSUME NEW f, NEW S, IsFiniteSet(S)
  PROVE  /\ SumFunctionOnSet(f, {}) = 0
         /\ S # {} => SumFunctionOnSet(f, S) =
                        f[Chosen(S)] + SumFunctionOnSet(f, S \ {Chosen(S)})
<1>1. ASSUME NEW T, IsFiniteSet(T)
      PROVE  \E it : Folds(it, f, T) /\ SumFunctionOnSet(f, T) = it[T]
  <2> DEFINE jt == CHOOSE it : Folds(it, f, T)
  <2>1. Folds(jt, f, T)
    BY <1>1, FoldExists
  <2>2. SumFunctionOnSet(f, T) = jt[T]
    BY DEF SumFunctionOnSet, FoldFunctionOnSet, MapThenFoldSet, Folds, IsFold, Chosen
  <2> QED
    BY <2>1, <2>2
<1>2. SumFunctionOnSet(f, {}) = 0
  <2>1. PICK it : Folds(it, f, {}) /\ SumFunctionOnSet(f, {}) = it[{}]
    BY <1>1, FS_EmptySet
  <2> QED
    BY <2>1 DEF Folds, IsFold
<1>3. ASSUME S # {}
      PROVE  SumFunctionOnSet(f, S) = f[Chosen(S)] + SumFunctionOnSet(f, S \ {Chosen(S)})
  <2>1. PICK it : Folds(it, f, S) /\ SumFunctionOnSet(f, S) = it[S]
    BY <1>1
  <2>2. PICK T \in SUBSET S : T = S \ {Chosen(S)}
    OBVIOUS
  <2>3. IsFiniteSet(T)
    BY <2>2, FS_RemoveElement
  <2>4. PICK jt : Folds(jt, f, T) /\ SumFunctionOnSet(f, T) = jt[T]
    BY <1>1, <2>3
  <2>5. it[T] = jt[T]
    BY <2>1, <2>4, FoldsAgree
  <2>6. it[S] = f[Chosen(S)] + it[S \ {Chosen(S)}]
    BY <1>3, <2>1 DEF Folds, IsFold
  <2> QED
    BY <2>1, <2>2, <2>4, <2>5, <2>6
<1> QED
  BY <1>2, <1>3

\* Induction over the subsets of a finite set: Q holds them all if it holds a set as
\* soon as it holds what is left when any one element is taken out.
LEMMA SetInduction ==
  ASSUME NEW U, IsFiniteSet(U), NEW Q,
         \A T \in SUBSET U : (\A x \in T : T \ {x} \in Q) => T \in Q
  PROVE  U \in Q
<1> DEFINE B == {Cardinality(T) : T \in {T \in SUBSET U : T \notin Q}}
<1>1. \A T \in SUBSET U : IsFiniteSet(T) /\ Cardinality(T) \in Nat
  BY FS_Subset, FS_CardinalityType
<1>2. SUFFICES ASSUME U \notin Q PROVE FALSE
  OBVIOUS
<1>3. PICK n \in B : \A m \in B : n <= m
  <2>1. B \subseteq Nat /\ B # {}
    BY <1>1, <1>2
  <2> HIDE DEF B
  <2> QED
    BY <2>1, LeastNatural
<1>4. PICK T \in SUBSET U : T \notin Q /\ Cardinality(T) = n
  BY <1>3
<1>5. ASSUME NEW x \in T PROVE T \ {x} \in Q
  <2>1. Cardinality(T \ {x}) = n - 1 /\ n \in Nat
    BY <1>1, <1>4, FS_RemoveElement
  <2> QED
    BY <1>3, <2>1
<1> QED
  BY <1>4, <1>5

\* A sum of integers is one.
LEMMA SumType ==
  ASSUME NEW f, NEW S, IsFiniteSet(S), \A x \in S : f[x] \in Int
  PROVE  SumFunctionOnSet(f, S) \in Int
<1> DEFINE Q == {T \in SUBSET S : SumFunctionOnSet(f, T) \in Int}
<1>1. ASSUME NEW T \in SUBSET S, \A x \in T : T \ {x} \in Q
      PROVE  T \in Q
  <2>1. IsFiniteSet(T)
    BY FS_Subset
  <2>2. CASE T = {}
    BY <2>1, <2>2, SumUnfolds
  <2>3. CASE T # {}
    <3>1. Chosen(T) \in T
      BY <2>3 DEF Chosen
    <3>2. f[Chosen(T)] \in Int /\ SumFunctionOnSet(f, T \ {Chosen(T)}) \in Int
      BY <1>1, <3>1
    <3> QED
      BY <2>1, <2>3, <3>2, SumUnfolds
  <2> QED
    BY <2>2, <2>3
<1>2. S \in Q
  <2> HIDE DEF Q
  <2> QED
    BY <1>1, SetInduction
<1> QED
  BY <1>2

\* The order does not matter: any element may be taken out first.
LEMMA SumTakes ==
  ASSUME NEW f, NEW S, IsFiniteSet(S), \A y \in S : f[y] \in Int, NEW x \in S
  PROVE  SumFunctionOnSet(f, S) = f[x] + SumFunctionOnSet(f, S \ {x})
<1> DEFINE Sum(T) == SumFunctionOnSet(f, T)
           Q == {T \in SUBSET S : \A y \in T : Sum(T) = f[y] + Sum(T \ {y})}
<1>1. \A T \in SUBSET S : IsFiniteSet(T) /\ Sum(T) \in Int
  <2> SUFFICES ASSUME NEW T \in SUBSET S PROVE IsFiniteSet(T) /\ Sum(T) \in Int
    OBVIOUS
  <2>1. IsFiniteSet(T) /\ \A y \in T : f[y] \in Int
    BY FS_Subset
  <2> QED
    BY <2>1, SumType
<1>2. ASSUME NEW T \in SUBSET S, \A z \in T : T \ {z} \in Q, NEW y \in T
      PROVE  Sum(T) = f[y] + Sum(T \ {y})
  <2>1. PICK c \in T : c = Chosen(T)
    BY DEF Chosen
  <2>2. Sum(T) = f[c] + Sum(T \ {c})
    BY <1>1, <2>1, SumUnfolds
  <2>3. CASE y = c
    BY <2>2, <2>3
  <2>4. CASE y # c
    <3>1. /\ Sum(T \ {c}) = f[y] + Sum((T \ {c}) \ {y})
          /\ Sum(T \ {y}) = f[c] + Sum((T \ {y}) \ {c})
      BY <1>2, <2>4
    <3>2. PICK R \in SUBSET S : R = (T \ {y}) \ {c} /\ R = (T \ {c}) \ {y}
      OBVIOUS
    <3>3. f[c] \in Int /\ f[y] \in Int /\ Sum(R) \in Int
      BY <1>1
    <3>4. Sum(T) = f[c] + (f[y] + Sum(R)) /\ Sum(T \ {y}) = f[c] + Sum(R)
      BY <2>2, <3>1, <3>2
    <3> HIDE DEF Sum
    <3> QED
      BY <3>3, <3>4
  <2> QED
    BY <2>3, <2>4
<1>3. \A T \in SUBSET S : (\A z \in T : T \ {z} \in Q) => T \in Q
  BY <1>2
<1>4. S \in Q
  <2> HIDE DEF Q
  <2> QED
    BY <1>3, SetInduction
<1> QED
  BY <1>4

\* Functions that agree on a set have the same sum over it.
LEMMA SumSame ==
  ASSUME NEW f, NEW g, NEW S, IsFiniteSet(S), \A x \in S : f[x] = g[x]
  PROVE  SumFunctionOnSet(f, S) = SumFunctionOnSet(g, S)
<1> DEFINE Q == {T \in SUBSET S : SumFunctionOnSet(f, T) = SumFunctionOnSet(g, T)}
<1>1. ASSUME NEW T \in SUBSET S, \A x \in T : T \ {x} \in Q
      PROVE  T \in Q
  <2>1. IsFiniteSet(T)
    BY FS_Subset
  <2>2. CASE T = {}
    BY <2>1, <2>2, SumUnfolds
  <2>3. CASE T # {}
    <3>1. Chosen(T) \in T
      BY <2>3 DEF Chosen
    <3>2. /\ f[Chosen(T)] = g[Chosen(T)]
          /\ SumFunctionOnSet(f, T \ {Chosen(T)}) = SumFunctionOnSet(g, T \ {Chosen(T)})
      BY <1>1, <3>1
    <3>3. /\ SumFunctionOnSet(f, T) = f[Chosen(T)] + SumFunctionOnSet(f, T \ {Chosen(T)})
          /\ SumFunctionOnSet(g, T) = g[Chosen(T)] + SumFunctionOnSet(g, T \ {Chosen(T)})
      BY <2>1, <2>3, SumUnfolds
    <3> QED
      BY <3>2, <3>3
  <2> QED
    BY <2>2, <2>3
<1>2. S \in Q
  <2> HIDE DEF Q
  <2> QED
    BY <1>1, SetInduction
<1> QED
  BY <1>2

\* One element more.
LEMMA SumAdds ==
  ASSUME NEW f, NEW S, IsFiniteSet(S), NEW x, x \notin S, f[x] \in Int,
         \A y \in S : f[y] \in Int
  PROVE  SumFunctionOnSet(f, S \union {x}) = SumFunctionOnSet(f, S) + f[x]
<1> DEFINE T == S \union {x}
<1>1. IsFiniteSet(T) /\ x \in T /\ T \ {x} = S
  BY FS_AddElement
<1>2. \A y \in T : f[y] \in Int
  OBVIOUS
<1> HIDE DEF T
<1>3. SumFunctionOnSet(f, T) = f[x] + SumFunctionOnSet(f, S)
  BY <1>1, <1>2, SumTakes
<1> QED
  BY <1>3, SumType DEF T

\* The sum over two sets without a common element.
LEMMA SumUnion ==
  ASSUME NEW f, NEW S, IsFiniteSet(S), NEW T, IsFiniteSet(T), S \cap T = {},
         \A y \in S \union T : f[y] \in Int
  PROVE  SumFunctionOnSet(f, S \union T) = SumFunctionOnSet(f, S) + SumFunctionOnSet(f, T)
<1> DEFINE Sum(X) == SumFunctionOnSet(f, X)
           Q == {X \in SUBSET T : Sum(S \union X) = Sum(S) + Sum(X)}
<1>1. ASSUME NEW X \in SUBSET T, \A x \in X : X \ {x} \in Q
      PROVE  X \in Q
  <2>1. IsFiniteSet(X) /\ Sum(S) \in Int
    BY FS_Subset, SumType
  <2>2. CASE X = {}
    <3>1. Sum(X) = 0 /\ S \union X = S
      BY <2>1, <2>2, SumUnfolds
    <3> HIDE DEF Sum
    <3> QED
      BY <2>1, <3>1
  <2>3. ASSUME NEW x \in X PROVE X \in Q
    <3>1. PICK R \in SUBSET T : R = X \ {x}
      OBVIOUS
    <3>2. PICK SR : SR = S \union R
      OBVIOUS
    <3>3. /\ IsFiniteSet(R) /\ x \notin R /\ R \union {x} = X
          /\ IsFiniteSet(SR) /\ x \notin SR /\ SR \union {x} = S \union X
          /\ f[x] \in Int /\ \A y \in SR : f[y] \in Int
      BY <2>1, <3>1, <3>2, FS_Subset, FS_Union
    <3>4. Sum(SR) = Sum(S) + Sum(R)
      BY <1>1, <3>1, <3>2
    <3>5. Sum(R) \in Int
      BY <3>3, SumType
    <3>6. Sum(X) = Sum(R) + f[x]
      BY <3>3, SumAdds
    <3>7. Sum(S \union X) = Sum(SR) + f[x]
      BY <3>3, SumAdds
    <3>8. Sum(S \union X) = Sum(S) + Sum(X)
      <4> HIDE DEF Sum
      <4> QED
        BY <2>1, <3>3, <3>4, <3>5, <3>6, <3>7
    <3> QED
      BY <3>8
  <2> QED
    BY <2>2, <2>3
<1>2. T \in Q
  <2> HIDE DEF Q
  <2> QED
    BY <1>1, SetInduction
<1> QED
  BY <1>2

\* The sum over the opposites of what stands in S: b pairs T with S.
LEMMA SumOpposite ==
  ASSUME NEW f, NEW S, IsFiniteSet(S), \A s \in S : f[s] \in Int,
         NEW g, NEW T, IsFiniteSet(T), NEW b,
         \A t \in T : b[t] \in S /\ g[t] = -f[b[t]],
         \A t, u \in T : b[t] = b[u] => t = u,
         \A s \in S : \E t \in T : b[t] = s
  PROVE  SumFunctionOnSet(g, T) = -SumFunctionOnSet(f, S)
<1> DEFINE Image(X) == {b[t] : t \in X}
           SumF(X) == SumFunctionOnSet(f, X)
           SumG(X) == SumFunctionOnSet(g, X)
           Q == {X \in SUBSET T : SumG(X) = -SumF(Image(X))}
<1>1. ASSUME NEW X \in SUBSET T, \A x \in X : X \ {x} \in Q
      PROVE  X \in Q
  <2>1. IsFiniteSet(X)
    BY FS_Subset
  <2>2. CASE X = {}
    <3>1. Image(X) = {}
      BY <2>2
    <3>2. SumG(X) = 0 /\ SumF(Image(X)) = 0
      BY <2>1, <2>2, <3>1, SumUnfolds
    <3>3. \A n \in Int : -n = 0 - n
      OBVIOUS
    <3>4. SumF(Image(X)) \in Int
      BY <3>2
    <3>5. -SumF(Image(X)) = 0 - SumF(Image(X))
      BY <3>3, <3>4
    <3> QED
      BY <3>2, <3>5
  <2>3. ASSUME NEW x \in X PROVE X \in Q
    <3>1. PICK R \in SUBSET T : R = X \ {x}
      OBVIOUS
    <3>2. PICK I \in SUBSET S : I = Image(R)
      <4>1. Image(R) \in SUBSET S
        BY <3>1
      <4> HIDE DEF Image
      <4> QED
        BY <4>1
    <3>3. b[x] \notin I /\ I \union {b[x]} = Image(X)
      BY <3>1, <3>2
    <3>4. /\ IsFiniteSet(R) /\ x \notin R /\ R \union {x} = X
          /\ IsFiniteSet(I) /\ f[b[x]] \in Int /\ g[x] = -f[b[x]]
          /\ \A y \in I : f[y] \in Int
          /\ \A y \in R : g[y] \in Int
      BY <3>1, FS_Subset
    <3>5. SumG(R) = -SumF(I) /\ SumF(I) \in Int
      BY <1>1, <3>1, <3>2, <3>4, SumType
    <3>6. SumG(X) = SumG(R) + g[x]
      BY <3>4, SumAdds
    <3>7. SumF(Image(X)) = SumF(I) + f[b[x]]
      BY <3>3, <3>4, SumAdds
    <3>8. SumG(X) = -SumF(Image(X))
      <4> HIDE DEF SumF, SumG, Image
      <4> QED
        BY <3>4, <3>5, <3>6, <3>7
    <3> QED
      BY <3>8
  <2> QED
    BY <2>2, <2>3
<1>2. T \in Q
  <2> HIDE DEF Q
  <2> QED
    BY <1>1, SetInduction
<1>3. Image(T) = S
  OBVIOUS
<1> QED
  BY <1>2, <1>3

\* Changing one value changes the sum by the difference.
LEMMA SumChanges ==
  ASSUME NEW f, NEW g, NEW S, IsFiniteSet(S), NEW x \in S,
         \A y \in S : f[y] \in Int /\ g[y] \in Int,
         \A y \in S \ {x} : g[y] = f[y]
  PROVE  SumFunctionOnSet(g, S) = SumFunctionOnSet(f, S) + (g[x] - f[x])
<1> DEFINE T == S \ {x}
<1>1. IsFiniteSet(T) /\ \A y \in T : f[y] \in Int
  BY FS_RemoveElement
<1>2. SumFunctionOnSet(f, T) \in Int
  <2> HIDE DEF T
  <2> QED
    BY <1>1, SumType
<1>3. SumFunctionOnSet(g, T) = SumFunctionOnSet(f, T)
  <2>1. \A y \in T : g[y] = f[y]
    OBVIOUS
  <2> HIDE DEF T
  <2> QED
    BY <1>1, <2>1, SumSame
<1>4. /\ SumFunctionOnSet(f, S) = f[x] + SumFunctionOnSet(f, T)
      /\ SumFunctionOnSet(g, S) = g[x] + SumFunctionOnSet(g, T)
  BY SumTakes
<1> HIDE DEF T
<1> QED
  BY <1>2, <1>3, <1>4

\* A sum of natural numbers is one.
LEMMA SumNatural ==
  ASSUME NEW f, NEW S, IsFiniteSet(S), \A x \in S : f[x] \in Nat
  PROVE  SumFunctionOnSet(f, S) \in Nat
<1> DEFINE Q == {T \in SUBSET S : SumFunctionOnSet(f, T) \in Nat}
<1>1. ASSUME NEW T \in SUBSET S, \A x \in T : T \ {x} \in Q
      PROVE  T \in Q
  <2>1. IsFiniteSet(T) /\ \A x \in T : f[x] \in Int
    BY FS_Subset
  <2>2. CASE T = {}
    <3>1. SumFunctionOnSet(f, T) = 0
      BY <2>1, <2>2, SumUnfolds
    <3> QED
      BY <3>1
  <2>3. ASSUME NEW x \in T PROVE T \in Q
    <3>1. SumFunctionOnSet(f, T) = f[x] + SumFunctionOnSet(f, T \ {x})
      BY <2>1, SumTakes
    <3> QED
      BY <1>1, <3>1
  <2> QED
    BY <2>2, <2>3
<1> HIDE DEF Q
<1>2. S \in Q
  BY <1>1, SetInduction
<1> QED
  BY <1>2 DEF Q

\* Terms that are zero may be left out.
LEMMA SumDrops ==
  ASSUME NEW f, NEW S, IsFiniteSet(S), NEW T \in SUBSET S,
         \A x \in S : f[x] \in Int, \A x \in S \ T : f[x] = 0
  PROVE  SumFunctionOnSet(f, S) = SumFunctionOnSet(f, T)
<1> DEFINE R == S \ T
           Q == {U \in SUBSET R : SumFunctionOnSet(f, U) = 0}
<1>1. ASSUME NEW U \in SUBSET R, \A x \in U : U \ {x} \in Q
      PROVE  U \in Q
  <2>1. IsFiniteSet(U) /\ \A x \in U : f[x] \in Int
    BY FS_Subset
  <2>2. CASE U = {}
    BY <2>1, <2>2, SumUnfolds
  <2>3. ASSUME NEW x \in U PROVE U \in Q
    <3>1. SumFunctionOnSet(f, U) = f[x] + SumFunctionOnSet(f, U \ {x})
      BY <2>1, SumTakes
    <3> QED
      BY <1>1, <3>1
  <2> QED
    BY <2>2, <2>3
<1>2. IsFiniteSet(R) /\ IsFiniteSet(T) /\ R \cap T = {} /\ T \union R = S
  BY FS_Subset
<1>3. R \in Q
  <2> HIDE DEF Q
  <2> QED
    BY <1>1, <1>2, SetInduction
<1>4. /\ SumFunctionOnSet(f, R) = 0
      /\ \A x \in T \union R : f[x] \in Int
  BY <1>2, <1>3
<1>5. SumFunctionOnSet(f, T \union R) = SumFunctionOnSet(f, T) + SumFunctionOnSet(f, R)
  <2> HIDE DEF R
  <2> QED
    BY <1>2, <1>4, SumUnion
<1>6. SumFunctionOnSet(f, T) \in Int
  BY <1>2, SumType
<1> HIDE DEF R
<1>7. SumFunctionOnSet(f, T \union R) = SumFunctionOnSet(f, T)
  BY <1>4, <1>5, <1>6
<1> QED
  BY <1>2, <1>7

\* The sum of the sums.
LEMMA SumPlus ==
  ASSUME NEW f, NEW g, NEW h, NEW S, IsFiniteSet(S),
         \A x \in S : f[x] \in Int /\ g[x] \in Int /\ h[x] = f[x] + g[x]
  PROVE  SumFunctionOnSet(h, S) = SumFunctionOnSet(f, S) + SumFunctionOnSet(g, S)
<1> DEFINE Sum(k, T) == SumFunctionOnSet(k, T)
           Q == {T \in SUBSET S : Sum(h, T) = Sum(f, T) + Sum(g, T)}
<1>1. ASSUME NEW T \in SUBSET S, \A x \in T : T \ {x} \in Q
      PROVE  T \in Q
  <2>1. IsFiniteSet(T) /\ \A x \in T : f[x] \in Int /\ g[x] \in Int /\ h[x] \in Int
    BY FS_Subset
  <2>2. CASE T = {}
    <3>1. Sum(f, T) = 0 /\ Sum(g, T) = 0 /\ Sum(h, T) = 0
      BY <2>1, <2>2, SumUnfolds
    <3> HIDE DEF Sum
    <3> QED
      BY <3>1
  <2>3. ASSUME NEW x \in T PROVE T \in Q
    <3>1. PICK R \in SUBSET S : R = T \ {x}
      OBVIOUS
    <3>2. IsFiniteSet(R) /\ \A y \in R : f[y] \in Int /\ g[y] \in Int /\ h[y] \in Int
      BY <2>1, <3>1, FS_Subset
    <3>3. /\ Sum(f, T) = f[x] + Sum(f, R) /\ Sum(g, T) = g[x] + Sum(g, R)
          /\ Sum(h, T) = h[x] + Sum(h, R)
      BY <2>1, <3>1, SumTakes
    <3>4. Sum(f, R) \in Int /\ Sum(g, R) \in Int
      BY <3>2, SumType
    <3>5. Sum(h, R) = Sum(f, R) + Sum(g, R)
      BY <1>1, <3>1
    <3>6. f[x] \in Int /\ g[x] \in Int /\ h[x] = f[x] + g[x]
      OBVIOUS
    <3> HIDE DEF Sum
    <3>7. Sum(h, T) = Sum(f, T) + Sum(g, T)
      BY <3>3, <3>4, <3>5, <3>6
    <3> QED
      BY <3>7
  <2> QED
    BY <2>2, <2>3
<1>2. S \in Q
  <2> HIDE DEF Q
  <2> QED
    BY <1>1, SetInduction
<1> QED
  BY <1>2

\* A sum over some elements is one over all, with zero for the others.
LEMMA SumWhere ==
  ASSUME NEW f, NEW g, NEW S, IsFiniteSet(S), NEW T \in SUBSET S,
         \A x \in T : f[x] \in Int /\ g[x] = f[x], \A x \in S \ T : g[x] = 0
  PROVE  SumFunctionOnSet(f, T) = SumFunctionOnSet(g, S)
<1>1. IsFiniteSet(T) /\ \A x \in S : g[x] \in Int
  BY FS_Subset
<1>2. SumFunctionOnSet(g, S) = SumFunctionOnSet(g, T)
  BY <1>1, SumDrops
<1>3. SumFunctionOnSet(g, T) = SumFunctionOnSet(f, T)
  BY <1>1, SumSame
<1> QED
  BY <1>2, <1>3
=============================================================================
