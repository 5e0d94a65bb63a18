----------------------------- MODULE SumTheorems -----------------------------
(***************************************************************************)
(* Facts about sums of the values of a function over a finite set, as      *)
(* SumFunctionOnSet computes them, and about what Filters collects.        *)
(* Every proof by induction here takes a smallest counterexample, which    *)
(* exists because < is well-founded on the natural numbers.                *)
(***************************************************************************)
EXTENDS Integers, Sequences, Functions, Filters, FiniteSetTheorems, SequenceTheorems, TLAPS

(***************************************************************************)
(* Smallest counterexamples                                                *)
(***************************************************************************)

LEMMA NatLeast ==
  ASSUME NEW T \in SUBSET Nat, T # {}
  PROVE  \E n \in T : \A m \in T : n <= m
<1>1. IsWellFoundedOn(OpToRel(<, Nat), Nat)
  BY NatLessThanWellFounded
<1>2. PICK n \in T : \A m \in T : ~(<<m, n>> \in OpToRel(<, Nat))
  BY <1>1, WFMin
<1>3. \A m \in T : <<m, n>> \in Nat \X Nat
  OBVIOUS
<1>4. \A m \in T : ~(m < n)
  BY <1>2, <1>3 DEF OpToRel
<1>5. QED
  BY <1>4

\* What holds of 0, and of n + 1 if of n, holds of every number.
LEMMA NatSetInduction ==
  ASSUME NEW P \in SUBSET Nat, 0 \in P, \A n \in P : n + 1 \in P
  PROVE  P = Nat
<1> SUFFICES ASSUME Nat \ P # {} PROVE FALSE
  OBVIOUS
<1>1. PICK n \in Nat \ P : \A m \in Nat \ P : n <= m
  BY NatLeast
<1>2. n # 0 /\ n - 1 \in Nat
  OBVIOUS
<1>3. n - 1 \in P
  BY <1>1, <1>2
<1>4. (n - 1) + 1 \in P
  BY <1>3
<1>5. QED
  BY <1>1, <1>2, <1>4

\* A property of sets holds of a finite set and all its subsets if it holds of a
\* set whenever it holds of the set without any of its members.
LEMMA SubsetInduction ==
  ASSUME NEW D, IsFiniteSet(D), NEW P \in SUBSET (SUBSET D),
         \A s \in SUBSET D : (\A x \in s : s \ {x} \in P) => s \in P
  PROVE  P = SUBSET D
<1> DEFINE Bad == (SUBSET D) \ P
           Sizes == {Cardinality(s) : s \in Bad}
<1> SUFFICES ASSUME Bad # {} PROVE FALSE
  OBVIOUS
<1>1. \A s \in SUBSET D : IsFiniteSet(s) /\ Cardinality(s) \in Nat
  BY FS_Subset, FS_CardinalityType
<1>2. Sizes \in SUBSET Nat /\ Sizes # {}
  BY <1>1
<1>3. PICK n \in Sizes : \A m \in Sizes : n <= m
  <2> HIDE DEF Sizes
  <2>1. QED
    BY <1>2, NatLeast
<1>4. PICK s \in Bad : Cardinality(s) = n
  BY <1>3
<1>5. PICK x \in s : s \ {x} \notin P
  OBVIOUS
<1>6. s \ {x} \in Bad /\ Cardinality(s \ {x}) = Cardinality(s) - 1
  BY <1>1, <1>5, FS_RemoveElement
<1>7. Cardinality(s) - 1 \in Sizes
  BY <1>6
<1>8. n \in Nat /\ n <= Cardinality(s) - 1
  <2> HIDE DEF Sizes
  <2>1. QED
    BY <1>2, <1>3, <1>7
<1>9. QED
  BY <1>4, <1>8

(***************************************************************************)
(* The function behind a sum                                               *)
(***************************************************************************)

Some(s) == CHOOSE x \in s : TRUE

\* What SumFunctionOnSet adds up: g gives the sum of each set in U.
Sums(w, g, U) ==
  g = [s \in U |-> IF s = {} THEN 0 ELSE w[Some(s)] + g[s \ {Some(s)}]]

LEMMA SumIsFold ==
  ASSUME NEW w, NEW D
  PROVE  SumFunctionOnSet(w, D) = (CHOOSE g : Sums(w, g, SUBSET D))[D]
  BY DEF SumFunctionOnSet, FoldFunctionOnSet, MapThenFoldSet, Sums, Some

LEMMA SomeIsMember == \A s : s # {} => Some(s) \in s
  BY DEF Some

\* There is such a function, because it can be built up by the size of the sets.
LEMMA SumsExist ==
  ASSUME NEW w, NEW D, IsFiniteSet(D)
  PROVE  \E g : Sums(w, g, SUBSET D)
<1> DEFINE Small(n) == {s \in SUBSET D : Cardinality(s) <= n}
           P == {n \in Nat : \E g : Sums(w, g, Small(n))}
<1>1. \A s \in SUBSET D : IsFiniteSet(s) /\ Cardinality(s) \in Nat
  BY FS_Subset, FS_CardinalityType
<1>2. \A s \in SUBSET D : Cardinality(s) <= 0 <=> s = {}
  BY <1>1, FS_EmptySet
<1>3. 0 \in P
  <2>1. Small(0) = {{}}
    BY <1>2
  <2>2. Sums(w, [s \in {{}} |-> 0], {{}})
    BY DEF Sums
  <2>3. QED
    BY <2>1, <2>2
<1>4. ASSUME NEW n \in P PROVE n + 1 \in P
  <2>1. PICK g : Sums(w, g, Small(n))
    OBVIOUS
  <2> DEFINE h == [s \in Small(n + 1) |->
                     IF s = {} THEN 0 ELSE w[Some(s)] + g[s \ {Some(s)}]]
  <2>2. ASSUME NEW s \in Small(n + 1), s # {}
        PROVE  s \ {Some(s)} \in Small(n) /\ s \ {Some(s)} \in Small(n + 1)
    <3>1. Some(s) \in s
      BY <2>2, SomeIsMember
    <3>2. Cardinality(s \ {Some(s)}) = Cardinality(s) - 1
      BY <1>1, <3>1, FS_RemoveElement
    <3>3. QED
      BY <1>1, <3>2
  <2>3. ASSUME NEW s \in Small(n) PROVE h[s] = g[s]
    <3>1. s \in Small(n + 1)
      BY <1>1
    <3>2. QED
      BY <2>1, <3>1 DEF Sums
  <2>4. ASSUME NEW s \in Small(n + 1)
        PROVE  h[s] = IF s = {} THEN 0 ELSE w[Some(s)] + h[s \ {Some(s)}]
    BY <2>2, <2>3
  <2>5. Sums(w, h, Small(n + 1))
    <3> DEFINE k == [s \in Small(n + 1) |->
                       IF s = {} THEN 0 ELSE w[Some(s)] + h[s \ {Some(s)}]]
    <3>1. h = k
      <4>1. \A s \in Small(n + 1) : h[s] = k[s]
        BY <2>4
      <4>2. DOMAIN h = Small(n + 1) /\ DOMAIN k = Small(n + 1)
        OBVIOUS
      <4>3. h = [s \in DOMAIN h |-> h[s]] /\ k = [s \in DOMAIN k |-> k[s]]
        OBVIOUS
      <4> HIDE DEF h, k, Small
      <4>4. QED
        BY <4>1, <4>2, <4>3
    <3>2. QED
      BY <3>1 DEF Sums
  <2> HIDE DEF Small, h
  <2>6. QED
    BY <2>5
<1>5. P = Nat
  <2> HIDE DEF P
  <2>1. P \in SUBSET Nat
    BY DEF P
  <2>2. QED
    BY <1>3, <1>4, <2>1, NatSetInduction
<1>6. Cardinality(D) \in Nat /\ \A s \in SUBSET D : Cardinality(s) <= Cardinality(D)
  BY FS_Subset, FS_CardinalityType
<1>7. Small(Cardinality(D)) = SUBSET D
  BY <1>6
<1>8. QED
  BY <1>5, <1>6, <1>7

\* Two such functions agree on a set if what they add up agrees on its members.
LEMMA SumsAgree ==
  ASSUME NEW v, NEW w, NEW D, NEW E, NEW g, NEW h, NEW S, IsFiniteSet(S),
         S \subseteq D, S \subseteq E, \A x \in S : v[x] = w[x],
         Sums(v, g, SUBSET D), Sums(w, h, SUBSET E)
  PROVE  g[S] = h[S]
<1> DEFINE P == {s \in SUBSET S : g[s] = h[s]}
<1>1. ASSUME NEW s \in SUBSET S, \A x \in s : s \ {x} \in P
      PROVE  s \in P
  <2>1. s \in SUBSET D /\ s \in SUBSET E
    OBVIOUS
  <2>2. /\ g[s] = IF s = {} THEN 0 ELSE v[Some(s)] + g[s \ {Some(s)}]
        /\ h[s] = IF s = {} THEN 0 ELSE w[Some(s)] + h[s \ {Some(s)}]
    BY <2>1 DEF Sums
  <2>3. CASE s = {}
    BY <2>2, <2>3
  <2>4. CASE s # {}
    <3>1. Some(s) \in s
      BY <2>4, SomeIsMember
    <3>2. s \ {Some(s)} \in P /\ v[Some(s)] = w[Some(s)]
      BY <1>1, <3>1
    <3>3. QED
      BY <2>2, <2>4, <3>2
  <2>5. QED
    BY <2>3, <2>4
<1>2. P = SUBSET S
  <2>1. P \in SUBSET (SUBSET S)
    OBVIOUS
  <2> HIDE DEF P
  <2>2. QED
    BY <1>1, <2>1, SubsetInduction
<1>3. QED
  BY <1>2

LEMMA SumsAreInts ==
  ASSUME NEW w, NEW D, NEW g, IsFiniteSet(D), \A x \in D : w[x] \in Int,
         Sums(w, g, SUBSET D)
  PROVE  \A s \in SUBSET D : g[s] \in Int
<1> DEFINE P == {s \in SUBSET D : g[s] \in Int}
<1>1. ASSUME NEW s \in SUBSET D, \A x \in s : s \ {x} \in P
      PROVE  s \in P
  <2>1. g[s] = IF s = {} THEN 0 ELSE w[Some(s)] + g[s \ {Some(s)}]
    BY DEF Sums
  <2>2. CASE s = {}
    BY <2>1, <2>2
  <2>3. CASE s # {}
    <3>1. Some(s) \in s
      BY <2>3, SomeIsMember
    <3>2. w[Some(s)] \in Int /\ g[s \ {Some(s)}] \in Int
      BY <1>1, <3>1
    <3>3. QED
      BY <2>1, <2>3, <3>2
  <2>4. QED
    BY <2>2, <2>3
<1>2. P = SUBSET D
  <2>1. P \in SUBSET (SUBSET D)
    OBVIOUS
  <2> HIDE DEF P
  <2>2. QED
    BY <1>1, <2>1, SubsetInduction
<1>3. QED
  BY <1>2

\* Any member may be added last.
LEMMA SumsTakeAny ==
  ASSUME NEW w, NEW D, NEW g, IsFiniteSet(D), \A x \in D : w[x] \in Int,
         Sums(w, g, SUBSET D), NEW e \in D
  PROVE  g[D] = w[e] + g[D \ {e}]
<1> DEFINE P == {s \in SUBSET D : \A x \in s : g[s] = w[x] + g[s \ {x}]}
<1>1. \A s \in SUBSET D : g[s] \in Int
  BY SumsAreInts
<1>2. ASSUME NEW s \in SUBSET D, \A x \in s : s \ {x} \in P
      PROVE  s \in P
  <2>1. ASSUME NEW x \in s PROVE g[s] = w[x] + g[s \ {x}]
    <3> DEFINE y == Some(s)
    <3>1. y \in s /\ g[s] = w[y] + g[s \ {y}]
      BY SomeIsMember DEF Sums
    <3>2. CASE x = y
      BY <3>1, <3>2
    <3>3. CASE x # y
      <4>1. x \in s \ {y} /\ y \in s \ {x} /\ (s \ {y}) \ {x} = (s \ {x}) \ {y}
        BY <3>1, <3>3
      <4>2. g[s \ {y}] = w[x] + g[(s \ {y}) \ {x}]
        BY <1>2, <3>1, <4>1
      <4>3. g[s \ {x}] = w[y] + g[(s \ {y}) \ {x}]
        BY <1>2, <4>1
      <4>4. w[x] \in Int /\ w[y] \in Int /\ g[(s \ {y}) \ {x}] \in Int
        BY <1>1, <3>1
      <4> HIDE DEF y
      <4>5. \A a, b, c \in Int : a + (b + c) = b + (a + c)
        OBVIOUS
      <4>6. QED
        BY <3>1, <4>2, <4>3, <4>4, <4>5
    <3>4. QED
      BY <3>2, <3>3
  <2>2. QED
    BY <2>1
<1>3. P = SUBSET D
  <2>1. P \in SUBSET (SUBSET D)
    OBVIOUS
  <2> HIDE DEF P
  <2>2. QED
    BY <1>2, <2>1, SubsetInduction
<1>4. QED
  BY <1>3

(***************************************************************************)
(* Sums                                                                    *)
(***************************************************************************)

\* A sum is a function behind it, applied to the whole.
LEMMA SumHasFunction ==
  ASSUME NEW w, NEW D, IsFiniteSet(D)
  PROVE  \E g : Sums(w, g, SUBSET D) /\ SumFunctionOnSet(w, D) = g[D]
<1>1. Sums(w, CHOOSE g : Sums(w, g, SUBSET D), SUBSET D)
  BY SumsExist
<1>2. QED
  BY <1>1, SumIsFold

\* A sum looks at the members only.
LEMMA SumOfEqual ==
  ASSUME NEW v, NEW w, NEW D, IsFiniteSet(D), \A x \in D : v[x] = w[x]
  PROVE  SumFunctionOnSet(v, D) = SumFunctionOnSet(w, D)
<1>1. PICK g : Sums(v, g, SUBSET D) /\ SumFunctionOnSet(v, D) = g[D]
  BY SumHasFunction
<1>2. PICK h : Sums(w, h, SUBSET D) /\ SumFunctionOnSet(w, D) = h[D]
  BY SumHasFunction
<1>3. g[D] = h[D]
  BY <1>1, <1>2, SumsAgree
<1>4. QED
  BY <1>1, <1>2, <1>3

LEMMA SumIsInt ==
  ASSUME NEW w, NEW D, IsFiniteSet(D), \A x \in D : w[x] \in Int
  PROVE  SumFunctionOnSet(w, D) \in Int
<1>1. PICK g : Sums(w, g, SUBSET D) /\ SumFunctionOnSet(w, D) = g[D]
  BY SumHasFunction
<1>2. \A s \in SUBSET D : g[s] \in Int
  BY <1>1, SumsAreInts
<1>3. QED
  BY <1>1, <1>2

LEMMA SumOfNone ==
  ASSUME NEW w
  PROVE  SumFunctionOnSet(w, {}) = 0
<1>1. IsFiniteSet({})
  BY FS_EmptySet
<1>2. PICK g : Sums(w, g, SUBSET {}) /\ SumFunctionOnSet(w, {}) = g[{}]
  BY <1>1, SumHasFunction
<1>3. g[{}] = 0
  BY <1>2 DEF Sums
<1>4. QED
  BY <1>2, <1>3

\* A sum is any member's value and the sum of the rest.
LEMMA SumOfRest ==
  ASSUME NEW w, NEW D, IsFiniteSet(D), \A x \in D : w[x] \in Int, NEW e \in D
  PROVE  SumFunctionOnSet(w, D) = w[e] + SumFunctionOnSet(w, D \ {e})
<1>1. PICK g : Sums(w, g, SUBSET D) /\ SumFunctionOnSet(w, D) = g[D]
  BY SumHasFunction
<1>2. Sums(w, g, SUBSET D)
  BY <1>1
<1>3. g[D] = w[e] + g[D \ {e}]
  BY <1>2, SumsTakeAny
<1>4. ASSUME NEW E, E \subseteq D PROVE g[E] = SumFunctionOnSet(w, E)
  <2>1. IsFiniteSet(E) /\ E \subseteq E
    BY <1>4, FS_Subset
  <2>2. PICK h : Sums(w, h, SUBSET E) /\ SumFunctionOnSet(w, E) = h[E]
    BY <2>1, SumHasFunction
  <2>3. Sums(w, h, SUBSET E) /\ \A x \in E : w[x] = w[x]
    BY <2>2
  <2>4. g[E] = h[E]
    BY <1>2, <1>4, <2>1, <2>3, SumsAgree
  <2>5. QED
    BY <2>2, <2>4
<1>5. g[D \ {e}] = SumFunctionOnSet(w, D \ {e})
  BY <1>4
<1>6. QED
  BY <1>1, <1>3, <1>5

(***************************************************************************)
(* Comparing sums                                                          *)
(***************************************************************************)

\* A sum is no greater than another one whose values are no smaller.
LEMMA SumMonotone ==
  ASSUME NEW v, NEW w, NEW D, IsFiniteSet(D),
         \A x \in D : v[x] \in Int /\ w[x] \in Int /\ v[x] <= w[x]
  PROVE  SumFunctionOnSet(v, D) <= SumFunctionOnSet(w, D)
<1> DEFINE V(s) == SumFunctionOnSet(v, s)
           W(s) == SumFunctionOnSet(w, s)
           P == {s \in SUBSET D : V(s) <= W(s)}
<1>1. ASSUME NEW s \in SUBSET D, \A x \in s : s \ {x} \in P
      PROVE  s \in P
  <2>1. IsFiniteSet(s) /\ \A x \in s : v[x] \in Int /\ w[x] \in Int
    BY FS_Subset
  <2>2. CASE s = {}
    <3>1. V(s) = 0 /\ W(s) = 0
      BY <2>2, SumOfNone
    <3>2. QED
      BY <3>1
  <2>3. CASE s # {}
    <3>1. PICK x \in s : TRUE
      BY <2>3
    <3>2. IsFiniteSet(s \ {x}) /\ \A y \in s \ {x} : v[y] \in Int /\ w[y] \in Int
      BY <2>1, FS_Subset
    <3>3. V(s) = v[x] + V(s \ {x}) /\ W(s) = w[x] + W(s \ {x})
      BY <2>1, SumOfRest
    <3>4. V(s \ {x}) \in Int /\ W(s \ {x}) \in Int
      BY <3>2, SumIsInt
    <3>5. V(s \ {x}) <= W(s \ {x})
      BY <1>1
    <3> HIDE DEF V, W
    <3>6. QED
      BY <3>3, <3>4, <3>5
  <2>4. QED
    BY <2>2, <2>3
<1>2. P = SUBSET D
  <2>1. P \in SUBSET (SUBSET D)
    OBVIOUS
  <2> HIDE DEF P
  <2>2. QED
    BY <1>1, <2>1, SubsetInduction
<1>3. QED
  BY <1>2

\* And it is smaller if one of its values is.
LEMMA SumStrictlyMonotone ==
  ASSUME NEW v, NEW w, NEW D, IsFiniteSet(D),
         \A x \in D : v[x] \in Int /\ w[x] \in Int /\ v[x] <= w[x],
         NEW x \in D, v[x] < w[x]
  PROVE  SumFunctionOnSet(v, D) < SumFunctionOnSet(w, D)
<1> DEFINE E == D \ {x}
<1>1. IsFiniteSet(E) /\ \A y \in E : v[y] \in Int /\ w[y] \in Int /\ v[y] <= w[y]
  BY FS_Subset
<1>2. SumFunctionOnSet(v, D) = v[x] + SumFunctionOnSet(v, E)
  BY SumOfRest
<1>3. SumFunctionOnSet(w, D) = w[x] + SumFunctionOnSet(w, E)
  BY SumOfRest
<1> HIDE DEF E
<1>4. SumFunctionOnSet(v, E) \in Int /\ SumFunctionOnSet(w, E) \in Int
  BY <1>1, SumIsInt
<1>5. SumFunctionOnSet(v, E) <= SumFunctionOnSet(w, E)
  BY <1>1, SumMonotone
<1>6. QED
  BY <1>2, <1>3, <1>4, <1>5

\* A constant factor comes out of a sum.
LEMMA SumScaled ==
  ASSUME NEW v, NEW w, NEW D, IsFiniteSet(D), NEW c \in Int,
         \A x \in D : w[x] \in Int /\ v[x] = c * w[x]
  PROVE  SumFunctionOnSet(v, D) = c * SumFunctionOnSet(w, D)
<1> DEFINE V(s) == SumFunctionOnSet(v, s)
           W(s) == SumFunctionOnSet(w, s)
           P == {s \in SUBSET D : V(s) = c * W(s)}
<1>1. ASSUME NEW s \in SUBSET D, \A x \in s : s \ {x} \in P
      PROVE  s \in P
  <2>1. IsFiniteSet(s) /\ \A x \in s : v[x] \in Int /\ w[x] \in Int
    BY FS_Subset
  <2>2. CASE s = {}
    <3>1. V(s) = 0 /\ W(s) = 0
      BY <2>2, SumOfNone
    <3>2. QED
      BY <3>1
  <2>3. CASE s # {}
    <3>1. PICK x \in s : TRUE
      BY <2>3
    <3>2. IsFiniteSet(s \ {x}) /\ \A y \in s \ {x} : v[y] \in Int /\ w[y] \in Int
      BY <2>1, FS_Subset
    <3>3. V(s) = v[x] + V(s \ {x}) /\ W(s) = w[x] + W(s \ {x})
      BY <2>1, SumOfRest
    <3>4. W(s \ {x}) \in Int /\ w[x] \in Int /\ v[x] = c * w[x]
      BY <3>2, SumIsInt
    <3>5. V(s \ {x}) = c * W(s \ {x})
      BY <1>1
    <3> HIDE DEF V, W
    <3>6. \A a, b \in Int : c * (a + b) = c * a + c * b
      OBVIOUS
    <3>7. V(s) = c * W(s)
      BY <3>3, <3>4, <3>5, <3>6
    <3>8. QED
      BY <3>7
  <2>4. QED
    BY <2>2, <2>3
<1>2. P = SUBSET D
  <2>1. P \in SUBSET (SUBSET D)
    OBVIOUS
  <2> HIDE DEF P
  <2>2. QED
    BY <1>1, <2>1, SubsetInduction
<1>3. QED
  BY <1>2

\* A sum of values that are no smaller than 0 is no smaller than any of them.
LEMMA SumOfNats ==
  ASSUME NEW w, NEW D, IsFiniteSet(D), \A x \in D : w[x] \in Nat
  PROVE  /\ SumFunctionOnSet(w, D) \in Nat
         /\ \A x \in D : w[x] <= SumFunctionOnSet(w, D)
<1> DEFINE zero == [x \in D |-> 0]
<1>1. ASSUME NEW E, E \subseteq D PROVE SumFunctionOnSet(w, E) \in Nat
  <2>1. IsFiniteSet(E) /\ \A x \in E : /\ w[x] \in Int /\ zero[x] \in Int
                                      /\ zero[x] <= w[x] /\ zero[x] = 0 * zero[x]
    BY <1>1, FS_Subset
  <2>2. SumFunctionOnSet(w, E) \in Int /\ SumFunctionOnSet(zero, E) \in Int
    BY <2>1, SumIsInt
  <2> HIDE DEF zero
  <2>3. SumFunctionOnSet(zero, E) = 0 * SumFunctionOnSet(zero, E)
    BY <2>1, SumScaled
  <2>4. SumFunctionOnSet(zero, E) <= SumFunctionOnSet(w, E)
    BY <2>1, SumMonotone
  <2>5. SumFunctionOnSet(zero, E) = 0
    BY <2>2, <2>3
  <2>6. QED
    BY <2>2, <2>4, <2>5
<1>2. ASSUME NEW x \in D PROVE w[x] <= SumFunctionOnSet(w, D)
  <2>1. SumFunctionOnSet(w, D \ {x}) \in Nat
    BY <1>1
  <2>2. SumFunctionOnSet(w, D) = w[x] + SumFunctionOnSet(w, D \ {x})
    BY SumOfRest
  <2>3. QED
    BY <2>1, <2>2
<1>3. QED
  BY <1>1, <1>2

\* A change of one value changes a sum as much.
LEMMA SumOfChanged ==
  ASSUME NEW v, NEW w, NEW D, IsFiniteSet(D), NEW x \in D,
         \A y \in D : v[y] \in Int /\ w[y] \in Int /\ (y # x => v[y] = w[y])
  PROVE  SumFunctionOnSet(v, D) = SumFunctionOnSet(w, D) + v[x] - w[x]
<1> DEFINE E == D \ {x}
<1>1. IsFiniteSet(E) /\ \A y \in E : w[y] \in Int /\ v[y] = w[y]
  BY FS_Subset
<1>2. SumFunctionOnSet(v, D) = v[x] + SumFunctionOnSet(v, E)
  BY SumOfRest
<1>3. SumFunctionOnSet(w, D) = w[x] + SumFunctionOnSet(w, E)
  BY SumOfRest
<1> HIDE DEF E
<1>4. SumFunctionOnSet(v, E) = SumFunctionOnSet(w, E)
  BY <1>1, SumOfEqual
<1>5. SumFunctionOnSet(w, E) \in Int
  BY <1>1, SumIsInt
<1>6. QED
  BY <1>2, <1>3, <1>4, <1>5

\* A set has as many members as it has ones.
LEMMA SumOfOnes ==
  ASSUME NEW w, NEW D, IsFiniteSet(D), \A x \in D : w[x] = 1
  PROVE  SumFunctionOnSet(w, D) = Cardinality(D)
<1> DEFINE W(s) == SumFunctionOnSet(w, s)
           P == {s \in SUBSET D : W(s) = Cardinality(s)}
<1>1. ASSUME NEW s \in SUBSET D, \A x \in s : s \ {x} \in P
      PROVE  s \in P
  <2>1. CASE s = {}
    <3>1. W({}) = 0 /\ Cardinality({}) = 0
      BY SumOfNone, FS_EmptySet
    <3>2. QED
      BY <2>1, <3>1
  <2>2. CASE s # {}
    <3>1. PICK x \in s : TRUE
      BY <2>2
    <3>2. IsFiniteSet(s) /\ \A y \in s : w[y] \in Int
      BY FS_Subset
    <3>3. W(s) = w[x] + W(s \ {x})
      BY <3>1, <3>2, SumOfRest
    <3>4. W(s \ {x}) = Cardinality(s \ {x})
      BY <1>1, <3>1
    <3>5. Cardinality(s \ {x}) = Cardinality(s) - 1 /\ Cardinality(s) \in Nat
      BY <3>1, <3>2, FS_RemoveElement, FS_CardinalityType
    <3>6. w[x] = 1
      BY <3>1
    <3> HIDE DEF W
    <3>7. W(s) = Cardinality(s)
      BY <3>3, <3>4, <3>5, <3>6
    <3>8. QED
      BY <3>7
  <2>3. QED
    BY <2>1, <2>2
<1>2. P = SUBSET D
  <2>1. P \in SUBSET (SUBSET D)
    OBVIOUS
  <2> HIDE DEF P
  <2>2. QED
    BY <1>1, <2>1, SubsetInduction
<1>3. D \in P
  BY <1>2
<1>4. QED
  BY <1>3

\* Of values that are all below c, the sum is below what as many times c makes.
LEMMA SumBelow ==
  ASSUME NEW w, NEW D, IsFiniteSet(D), D # {}, NEW c \in Int,
         \A x \in D : w[x] \in Int /\ w[x] < c
  PROVE  SumFunctionOnSet(w, D) < c * Cardinality(D)
<1> DEFINE one == [x \in D |-> 1]
           all == [x \in D |-> c]
<1>1. \A x \in D : one[x] = 1 /\ one[x] \in Int /\ all[x] = c * one[x] /\ all[x] = c
  OBVIOUS
<1> HIDE DEF one, all
<1>2. SumFunctionOnSet(all, D) = c * SumFunctionOnSet(one, D)
  BY <1>1, SumScaled
<1>3. SumFunctionOnSet(one, D) = Cardinality(D)
  BY <1>1, SumOfOnes
<1>4. PICK x \in D : TRUE
  OBVIOUS
<1>5. \A y \in D : w[y] \in Int /\ all[y] \in Int /\ w[y] <= all[y]
  BY <1>1
<1>6. w[x] < all[x]
  BY <1>1, <1>4
<1>7. SumFunctionOnSet(w, D) < SumFunctionOnSet(all, D)
  BY <1>5, <1>6, SumStrictlyMonotone
<1>8. QED
  BY <1>2, <1>3, <1>7

LEMMA SumOfZeros ==
  ASSUME NEW w, NEW D, IsFiniteSet(D), \A x \in D : w[x] = 0
  PROVE  SumFunctionOnSet(w, D) = 0
<1>1. \A x \in D : w[x] \in Int /\ w[x] = 0 * w[x]
  OBVIOUS
<1>2. SumFunctionOnSet(w, D) = 0 * SumFunctionOnSet(w, D) /\ SumFunctionOnSet(w, D) \in Int
  BY <1>1, SumScaled, SumIsInt
<1>3. QED
  BY <1>2

\* Of values that are no smaller than 0, more make no smaller a sum.
LEMMA SumOfPart ==
  ASSUME NEW w, NEW D, NEW E, IsFiniteSet(E), D \subseteq E, \A x \in E : w[x] \in Nat
  PROVE  SumFunctionOnSet(w, D) <= SumFunctionOnSet(w, E)
<1> DEFINE W(s) == SumFunctionOnSet(w, s)
           P == {s \in SUBSET E : W(s \cap D) <= W(s)}
<1>1. ASSUME NEW s \in SUBSET E, \A x \in s : s \ {x} \in P
      PROVE  s \in P
  <2>1. IsFiniteSet(s) /\ IsFiniteSet(s \cap D) /\ \A x \in s : w[x] \in Nat /\ w[x] \in Int
    BY FS_Subset
  <2>2. CASE s = {}
    BY <2>2, SumOfNone
  <2>3. CASE s # {}
    <3>1. PICK x \in s : TRUE
      BY <2>3
    <3>2. /\ W(s) = w[x] + W(s \ {x})
          /\ x \in D => W(s \cap D) = w[x] + W((s \cap D) \ {x})
      BY <2>1, SumOfRest
    <3>3. (s \ {x}) \cap D = IF x \in D THEN (s \cap D) \ {x} ELSE s \cap D
      OBVIOUS
    <3>4. W((s \ {x}) \cap D) <= W(s \ {x})
      BY <1>1
    <3>5. /\ W(s \ {x}) \in Int /\ W((s \ {x}) \cap D) \in Int /\ w[x] \in Nat
      <4>1. IsFiniteSet(s \ {x}) /\ IsFiniteSet((s \ {x}) \cap D)
        BY <2>1, FS_Subset
      <4>2. QED
        BY <2>1, <4>1, SumIsInt
    <3>6. CASE x \in D
      <4>1. W(s \cap D) = w[x] + W((s \ {x}) \cap D)
        BY <3>2, <3>3, <3>6
      <4> HIDE DEF W
      <4>2. W(s \cap D) <= W(s)
        BY <3>2, <3>4, <3>5, <4>1
      <4>3. QED
        BY <4>2
    <3>7. CASE x \notin D
      <4>1. W(s \cap D) = W((s \ {x}) \cap D)
        BY <3>3, <3>7
      <4> HIDE DEF W
      <4>2. W(s \cap D) <= W(s)
        BY <3>2, <3>4, <3>5, <4>1
      <4>3. QED
        BY <4>2
    <3>8. QED
      BY <3>6, <3>7
  <2>4. QED
    BY <2>2, <2>3
<1>2. P = SUBSET E
  <2>1. P \in SUBSET (SUBSET E)
    OBVIOUS
  <2> HIDE DEF P
  <2>2. QED
    BY <1>1, <2>1, SubsetInduction
<1>3. E \in P /\ E \cap D = D
  BY <1>2
<1>4. QED
  BY <1>3

MovedUp(v, w, D) == \A x \in D : v[x + 1] = w[x]

\* A sum does not change when the values move up by one.
LEMMA SumOfShifted ==
  ASSUME NEW v, NEW w, NEW D \in SUBSET Int, IsFiniteSet(D), \A x \in D : w[x] \in Int,
         MovedUp(v, w, D)
  PROVE  SumFunctionOnSet(v, {x + 1 : x \in D}) = SumFunctionOnSet(w, D)
<1> DEFINE Up(s) == {x + 1 : x \in s}
           P == {s \in SUBSET D : SumFunctionOnSet(v, Up(s)) = SumFunctionOnSet(w, s)}
<1>1. ASSUME NEW s \in SUBSET D, \A x \in s : s \ {x} \in P
      PROVE  s \in P
  <2>1. IsFiniteSet(s) /\ \A x \in s : w[x] \in Int /\ x \in Int
    BY FS_Subset
  <2>2. \A x \in s : v[x + 1] = w[x]
    BY DEF MovedUp
  <2>3. CASE s = {}
    <3>1. Up(s) = {}
      BY <2>3
    <3>2. QED
      BY <2>3, <3>1, SumOfNone
  <2>4. CASE s # {}
    <3>1. PICK x \in s : TRUE
      BY <2>4
    <3>2. IsFiniteSet(Up(s)) /\ (\A y \in Up(s) : v[y] \in Int) /\ x + 1 \in Up(s)
      <4> DEFINE f == [y \in s |-> y + 1]
      <4>1. f \in Surjection(s, Up(s))
        BY DEF Surjection
      <4>2. IsFiniteSet(Up(s))
        <5> HIDE DEF f, Up
        <5>1. QED
          BY <2>1, <4>1, FS_Surjection
      <4>3. QED
        BY <2>1, <2>2, <4>2
    <3>3. Up(s) \ {x + 1} = Up(s \ {x})
      BY <2>1
    <3> HIDE DEF Up
    <3>4. SumFunctionOnSet(v, Up(s)) = v[x + 1] + SumFunctionOnSet(v, Up(s) \ {x + 1})
      BY <3>2, SumOfRest
    <3>5. SumFunctionOnSet(w, s) = w[x] + SumFunctionOnSet(w, s \ {x})
      <4>1. IsFiniteSet(s) /\ (\A y \in s : w[y] \in Int) /\ x \in s
        BY <2>1
      <4>2. QED
        BY <4>1, SumOfRest, ZenonT(30)
    <3>6. SumFunctionOnSet(v, Up(s \ {x})) = SumFunctionOnSet(w, s \ {x})
      BY <1>1, <3>1
    <3>7. SumFunctionOnSet(v, Up(s)) = SumFunctionOnSet(w, s)
      BY <2>1, <2>2, <3>3, <3>4, <3>5, <3>6
    <3>8. QED
      BY <3>7
  <2>5. QED
    BY <2>3, <2>4
<1>2. P = SUBSET D
  <2>1. P \in SUBSET (SUBSET D)
    OBVIOUS
  <2> HIDE DEF P
  <2>2. QED
    BY <1>1, <2>1, SubsetInduction
<1>3. D \in P
  BY <1>2
<1>4. QED
  BY <1>3

(***************************************************************************)
(* Filters                                                                 *)
(*                                                                         *)
(* The rank of a position in P is the number of positions of P up to it.   *)
(* No two have the same rank and no rank exceeds the size of P, so every   *)
(* rank from 1 to the size of P is the rank of exactly one.                *)
(***************************************************************************)

LEMMA RankFacts ==
  ASSUME NEW P \in SUBSET Nat, IsFiniteSet(P), NEW i \in P
  PROVE  /\ IsFiniteSet({j \in P : j <= i})
         /\ Cardinality({j \in P : j <= i}) \in 1..Cardinality(P)
<1> DEFINE B == {j \in P : j <= i}
<1>1. IsFiniteSet(B) /\ Cardinality(B) <= Cardinality(P)
  BY FS_Subset, B \in SUBSET P
<1>2. Cardinality(B) \in Nat /\ Cardinality(P) \in Nat
  BY <1>1, FS_CardinalityType
<1>3. B # {}
  <2>1. i \in B
    OBVIOUS
  <2> QED  BY <2>1
<1>4. Cardinality(B) # 0
  BY <1>1, <1>3, FS_EmptySet
<1> HIDE DEF B
<1>5. Cardinality(B) \in 1..Cardinality(P)
  BY <1>1, <1>2, <1>4
<1> QED  BY <1>1, <1>5 DEF B

LEMMA RanksGrow ==
  ASSUME NEW P \in SUBSET Nat, IsFiniteSet(P), NEW i \in P, NEW j \in P, i < j
  PROVE  Cardinality({x \in P : x <= i}) < Cardinality({x \in P : x <= j})
<1> DEFINE A == {x \in P : x <= i}
           B == {x \in P : x <= j}
<1>1. IsFiniteSet(A) /\ Cardinality(A) \in Nat
  BY RankFacts, FS_CardinalityType
<1>2. IsFiniteSet(B) /\ Cardinality(B) \in Nat
  BY RankFacts, FS_CardinalityType
<1>3. A \in SUBSET B /\ j \in B /\ j \notin A
  <2>1. \A x \in P : x \in Nat
    OBVIOUS
  <2>2. \A x \in P : x <= i => x <= j
    BY <2>1
  <2>3. ~(j <= i)
    BY <2>1
  <2>4. A \subseteq B
    BY <2>2
  <2>5. j \in B
    BY <2>1
  <2>6. j \notin A
    BY <2>3
  <2> QED  BY <2>4, <2>5, <2>6
<1> HIDE DEF A, B
<1>4. Cardinality(A) <= Cardinality(B) /\ Cardinality(A) # Cardinality(B)
  BY <1>2, <1>3, FS_Subset
<1> QED  BY <1>1, <1>2, <1>4 DEF A, B

LEMMA RankIsUnique ==
  ASSUME NEW P \in SUBSET Nat, IsFiniteSet(P), NEW i \in P, NEW j \in P,
         Cardinality({x \in P : x <= i}) = Cardinality({x \in P : x <= j})
  PROVE  i = j
<1>1. /\ Cardinality({x \in P : x <= i}) \in Nat
      /\ Cardinality({x \in P : x <= j}) \in Nat
  BY RankFacts
<1>2. ~(i < j) /\ ~(j < i)
  BY <1>1, RanksGrow
<1> QED  BY <1>2

LEMMA NthIsRanked ==
  ASSUME NEW P \in SUBSET Nat, IsFiniteSet(P), NEW k \in 1..Cardinality(P)
  PROVE  Nth(P, k) \in P /\ Cardinality({j \in P : j <= Nth(P, k)}) = k
<1> DEFINE rank == [i \in P |-> Cardinality({j \in P : j <= i})]
           N == 1..Cardinality(P)
<1>1. Cardinality(P) \in Nat
  BY FS_CardinalityType
<1>2. IsFiniteSet(N) /\ Cardinality(N) = Cardinality(P)
  BY <1>1, FS_Interval
<1>3. rank \in Injection(P, N)
  <2>1. rank \in [P -> N]
    BY RankFacts
  <2>2. \A i, j \in P : rank[i] = rank[j] => i = j
    BY RankIsUnique
  <2> QED  BY <2>1, <2>2 DEF Injection, IsInjective
<1>4. rank \in Surjection(P, N)
  BY <1>2, <1>3, FS_Injection
<1>5. \E i \in P : rank[i] = k
  BY <1>4 DEF Surjection
<1> QED  BY <1>5 DEF Nth

\* The k-th of a set is the position with k positions of the set up to it.
LEMMA NthIs ==
  ASSUME NEW P \in SUBSET Nat, IsFiniteSet(P), NEW i \in P,
         NEW k, k = Cardinality({j \in P : j <= i})
  PROVE  k \in 1..Cardinality(P) /\ Nth(P, k) = i
<1>1. k \in 1..Cardinality(P)
  BY RankFacts
<1>2. Nth(P, k) \in P /\ Cardinality({j \in P : j <= Nth(P, k)}) = k
  BY <1>1, NthIsRanked
<1>3. PICK n \in P : n = Nth(P, k)
  BY <1>2
<1>4. Cardinality({j \in P : j <= n}) = Cardinality({j \in P : j <= i})
  BY <1>2, <1>3
<1>5. n = i
  BY <1>4, RankIsUnique
<1> QED  BY <1>1, <1>3, <1>5

\* A position behind all of P comes last and moves none of them.
LEMMA NthOfLonger ==
  ASSUME NEW P \in SUBSET Nat, IsFiniteSet(P), NEW m \in Nat, \A i \in P : i < m
  PROVE  /\ Cardinality(P \cup {m}) = Cardinality(P) + 1
         /\ Nth(P \cup {m}, Cardinality(P) + 1) = m
         /\ \A k \in 1..Cardinality(P) : Nth(P \cup {m}, k) = Nth(P, k)
<1> DEFINE Q == P \cup {m}
<1>1. m \notin P
  OBVIOUS
<1>2. Q \in SUBSET Nat /\ IsFiniteSet(Q) /\ Cardinality(Q) = Cardinality(P) + 1
  BY <1>1, FS_AddElement
<1>3. Cardinality(P) \in Nat
  BY FS_CardinalityType
<1>4. {j \in Q : j <= m} = Q
  <2>1. \A j \in Q : j <= m
    OBVIOUS
  <2> QED  BY <2>1
<1>5. ASSUME NEW k \in 1..Cardinality(P)
      PROVE  Nth(Q, k) = Nth(P, k)
  <2>1. Nth(P, k) \in P /\ Cardinality({j \in P : j <= Nth(P, k)}) = k
    BY NthIsRanked
  <2>2. PICK i \in P : i = Nth(P, k)
    BY <2>1
  <2>3. {j \in Q : j <= i} = {j \in P : j <= i}
    OBVIOUS
  <2>4. i \in Q /\ k = Cardinality({j \in Q : j <= i})
    BY <2>1, <2>2, <2>3
  <2> HIDE DEF Q
  <2>5. Nth(Q, k) = i
    BY <2>4, <1>2, NthIs
  <2> QED  BY <2>2, <2>5
<1>6. m \in Q
  OBVIOUS
<1> HIDE DEF Q
<1>7. Nth(Q, Cardinality(P) + 1) = m
  BY <1>2, <1>4, <1>6, NthIs
<1> QED  BY <1>2, <1>5, <1>7 DEF Q

\* A filter of no position collects nothing; one more position appends its element.
LEMMA FilteredNone == \A s : Filtered(s, {}) = <<>>
<1>1. Cardinality({}) = 0
  BY FS_EmptySet
<1> QED  BY <1>1 DEF Filtered

LEMMA FilteredInType ==
  ASSUME NEW T, NEW s, NEW P \in SUBSET Nat, IsFiniteSet(P), \A i \in P : s[i] \in T
  PROVE  Filtered(s, P) \in Seq(T) /\ Len(Filtered(s, P)) = Cardinality(P)
<1>1. Cardinality(P) \in Nat
  BY FS_CardinalityType
<1>2. \A k \in 1..Cardinality(P) : s[Nth(P, k)] \in T
  BY NthIsRanked
<1> QED  BY <1>1, <1>2 DEF Filtered

LEMMA FilteredGrows ==
  ASSUME NEW s, NEW P \in SUBSET Nat, IsFiniteSet(P),
         NEW m \in Nat, \A i \in P : i < m,
         NEW Q, \A i : i \in Q <=> i \in P \/ i = m
  PROVE  Filtered(s, Q) = Append(Filtered(s, P), s[m])
<1> DEFINE n == Cardinality(P)
           f == Filtered(s, P)
           g == Filtered(s, P \cup {m})
           T == {s[i] : i \in P \cup {m}}
<1> SUFFICES g = Append(f, s[m])
  <2>1. Q = P \cup {m}
    OBVIOUS
  <2> QED  BY <2>1
<1>1. n \in Nat
  BY FS_CardinalityType
<1>2. f \in Seq(T) /\ Len(f) = n
  BY FilteredInType
<1>3. g = [k \in 1..n + 1 |-> s[Nth(P \cup {m}, k)]]
  BY NthOfLonger DEF Filtered
<1>4. \A k \in 1..n : f[k] = s[Nth(P, k)]
  BY DEF Filtered
<1>5. ASSUME NEW k \in 1..n
      PROVE  g[k] = f[k]
  <2>1. k \in 1..n + 1
    BY <1>1
  <2>2. Nth(P \cup {m}, k) = Nth(P, k)
    BY NthOfLonger
  <2> QED  BY <2>1, <2>2, <1>3, <1>4
<1>6. g[n + 1] = s[m]
  <2>1. n + 1 \in 1..n + 1
    BY <1>1
  <2>2. Nth(P \cup {m}, n + 1) = m
    BY NthOfLonger
  <2> QED  BY <2>1, <2>2, <1>3
<1>7. g \in Seq(T) /\ Len(g) = n + 1
  <2>1. IsFiniteSet(P \cup {m}) /\ P \cup {m} \in SUBSET Nat /\ Cardinality(P \cup {m}) = n + 1
    BY FS_AddElement, NthOfLonger
  <2> QED  BY <2>1, FilteredInType
<1>8. Append(f, s[m]) \in Seq(T) /\ Len(Append(f, s[m])) = n + 1
      /\ Append(f, s[m])[n + 1] = s[m] /\ \A k \in 1..n : Append(f, s[m])[k] = f[k]
  BY <1>1, <1>2
<1> HIDE DEF n, f, g
<1>9. \A k \in 1..n + 1 : g[k] = Append(f, s[m])[k]
  BY <1>1, <1>5, <1>6, <1>8
<1>10. g = Append(f, s[m])
  BY <1>7, <1>8, <1>9, SeqEqual
<1> QED  BY <1>10 DEF f, g

\* Only the elements at its positions matter.
LEMMA FilteredAgrees ==
  ASSUME NEW s, NEW t, NEW P \in SUBSET Nat, IsFiniteSet(P), \A i \in P : s[i] = t[i]
  PROVE  Filtered(s, P) = Filtered(t, P)
<1>1. \A k \in 1..Cardinality(P) : s[Nth(P, k)] = t[Nth(P, k)]
  BY NthIsRanked
<1> QED  BY <1>1 DEF Filtered

(***************************************************************************)
(* A finite set listed in a strict order                                   *)
(***************************************************************************)

\* R orders S: of two members one is before the other, and never both.
StrictOrder(R, S) ==
  /\ \A x \in S : <<x, x>> \notin R
  /\ \A x, y \in S : x = y \/ <<x, y>> \in R \/ <<y, x>> \in R
  /\ \A x, y, z \in S : (<<x, y>> \in R /\ <<y, z>> \in R) => <<x, z>> \in R

\* The members before another are fewer than those before a later one.
LEMMA EarlierAreFewer ==
  ASSUME NEW S, IsFiniteSet(S), NEW R, StrictOrder(R, S), NEW x \in S
  PROVE  /\ Cardinality({z \in S : <<z, x>> \in R}) \in 0..Cardinality(S) - 1
         /\ \A y \in S : <<x, y>> \in R =>
              Cardinality({z \in S : <<z, x>> \in R}) < Cardinality({z \in S : <<z, y>> \in R})
<1> DEFINE A == {z \in S : <<z, x>> \in R}
<1>1. IsFiniteSet(A) /\ Cardinality(A) \in Nat /\ Cardinality(S) \in Nat
  BY FS_Subset, FS_CardinalityType, A \in SUBSET S
<1>2. x \notin A
  BY DEF StrictOrder
<1>3. Cardinality(A \cup {x}) = Cardinality(A) + 1
  BY <1>1, <1>2, FS_AddElement
<1>4. Cardinality(A \cup {x}) <= Cardinality(S)
  BY FS_Subset, A \cup {x} \in SUBSET S
<1>5. ASSUME NEW y \in S, <<x, y>> \in R
      PROVE  Cardinality(A) < Cardinality({z \in S : <<z, y>> \in R})
  <2> DEFINE B == {z \in S : <<z, y>> \in R}
  <2>1. IsFiniteSet(B) /\ Cardinality(B) \in Nat
    BY FS_Subset, FS_CardinalityType, B \in SUBSET S
  <2>2. A \cup {x} \in SUBSET B
    BY <1>5 DEF StrictOrder
  <2>3. Cardinality(A \cup {x}) <= Cardinality(B)
    BY <2>1, <2>2, FS_Subset
  <2> HIDE DEF A, B
  <2>4. Cardinality(A) < Cardinality(B)
    BY <1>1, <1>3, <2>1, <2>3
  <2> QED  BY <2>4 DEF A, B
<1>6. Cardinality(A) \in 0..Cardinality(S) - 1
  <2> HIDE DEF A
  <2> QED  BY <1>1, <1>3, <1>4
<1> QED  BY <1>5, <1>6

\* A strictly ordered finite set can be listed in its order.
LEMMA CanBeListed ==
  ASSUME NEW S, IsFiniteSet(S), NEW R, StrictOrder(R, S)
  PROVE  \E s \in [1..Cardinality(S) -> S] :
            \A k, l \in 1..Cardinality(S) : k < l => <<s[k], s[l]>> \in R
<1>1. PICK n \in Nat : n = Cardinality(S)
  BY FS_CardinalityType
<1> DEFINE place == [x \in S |-> Cardinality({z \in S : <<z, x>> \in R}) + 1]
<1>2. place \in [S -> 1..n]
  BY <1>1, EarlierAreFewer
<1>3. \A x, y \in S : <<x, y>> \in R => place[x] < place[y]
  <2> SUFFICES ASSUME NEW x \in S, NEW y \in S, <<x, y>> \in R PROVE place[x] < place[y]
    OBVIOUS
  <2>1. PICK a, b : /\ a = Cardinality({z \in S : <<z, x>> \in R})
                    /\ b = Cardinality({z \in S : <<z, y>> \in R})
    OBVIOUS
  <2>2. a \in 0..n - 1 /\ b \in 0..n - 1 /\ a < b
    BY <1>1, <2>1, EarlierAreFewer
  <2>3. place[x] = a + 1 /\ place[y] = b + 1
    BY <2>1
  <2> QED  BY <2>2, <2>3
<1> HIDE DEF place
<1>4. \A x, y \in S : place[x] = place[y] => x = y
  <2> SUFFICES ASSUME NEW x \in S, NEW y \in S, place[x] = place[y] PROVE x = y
    OBVIOUS
  <2>1. x = y \/ <<x, y>> \in R \/ <<y, x>> \in R
    BY DEF StrictOrder
  <2>2. place[x] \in 1..n /\ ~(place[x] < place[y]) /\ ~(place[y] < place[x])
    BY <1>2
  <2> QED  BY <1>3, <2>1, <2>2
<1>5. IsFiniteSet(1..n) /\ Cardinality(1..n) = n
  BY <1>1, FS_Interval
<1>6. place \in Injection(S, 1..n)
  BY <1>2, <1>4 DEF Injection, IsInjective
<1>7. place \in Surjection(S, 1..n)
  BY <1>1, <1>5, <1>6, FS_Injection
<1>8. \A k \in 1..n : \E x \in S : place[x] = k
  BY <1>7 DEF Surjection
<1>9. PICK s : s = [k \in 1..n |-> CHOOSE x \in S : place[x] = k]
  OBVIOUS
<1>10. s \in [1..n -> S] /\ \A k \in 1..n : s[k] \in S /\ place[s[k]] = k
  BY <1>8, <1>9
<1>11. ASSUME NEW k \in 1..n, NEW l \in 1..n, k < l
       PROVE  <<s[k], s[l]>> \in R
  <2>1. s[k] \in S /\ s[l] \in S /\ place[s[k]] = k /\ place[s[l]] = l
    BY <1>10
  <2>2. s[k] # s[l]
    BY <1>11, <2>1
  <2>3. <<s[l], s[k]>> \notin R
    BY <1>3, <1>11, <2>1
  <2> QED  BY <2>1, <2>2, <2>3 DEF StrictOrder
<1> QED  BY <1>1, <1>10, <1>11

\* A list of a set of n members in a strict order has each of them once.
LEMMA ListedOnce ==
  ASSUME NEW S, IsFiniteSet(S), NEW R, StrictOrder(R, S),
         NEW s \in [1..Cardinality(S) -> S],
         \A k, l \in 1..Cardinality(S) : k < l => <<s[k], s[l]>> \in R
  PROVE  /\ \A k, l \in 1..Cardinality(S) : s[k] = s[l] => k = l
         /\ \A x \in S : \E k \in 1..Cardinality(S) : s[k] = x
<1>1. PICK n \in Nat : n = Cardinality(S)
  BY FS_CardinalityType
<1>2. \A k, l \in 1..n : s[k] = s[l] => k = l
  <2> SUFFICES ASSUME NEW k \in 1..n, NEW l \in 1..n, s[k] = s[l] PROVE k = l
    OBVIOUS
  <2>1. s[k] \in S /\ <<s[k], s[k]>> \notin R
    BY <1>1 DEF StrictOrder
  <2> QED  BY <1>1, <2>1
<1>3. IsFiniteSet(1..n) /\ Cardinality(1..n) = n
  BY FS_Interval
<1>4. s \in Injection(1..n, S)
  BY <1>1, <1>2 DEF Injection, IsInjective
<1>5. s \in Surjection(1..n, S)
  BY <1>1, <1>3, <1>4, FS_Injection
<1> QED  BY <1>1, <1>2, <1>5 DEF Surjection
=============================================================================
