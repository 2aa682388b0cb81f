----------------------------- MODULE SumTheorems -----------------------------
(***************************************************************************)
(* Sums over finite sets: what SumFunctionOnSet of the community module    *)
(* Functions computes.  The models sum the cash and the shares of tables   *)
(* with it; the lemmas here let proofs add a row, remove one, and compare  *)
(* one sum with another.                                                   *)
(*                                                                         *)
(* Induction is used in the form that any set of natural numbers, or any   *)
(* family of subsets of a finite set, has a least element.                 *)
(***************************************************************************)
EXTENDS Integers, Functions, FiniteSets, FiniteSetTheorems, WellFoundedInduction, TLAPS

---------------------------------------------------------------------------
(* Induction over sets.                                                   *)

LEMMA LessIsARelation == \A m, n \in Nat : m < n => <<m, n>> \in OpToRel(<, Nat)
<1>1. OpToRel(<, Nat) = {ss \in Nat \X Nat : ss[1] < ss[2]}
  BY DEF OpToRel
<1>2. \A m, n \in Nat : m < n => <<m, n>> \in {ss \in Nat \X Nat : ss[1] < ss[2]}
  OBVIOUS
<1>. QED BY ONLY <1>1, <1>2, Zenon

\* A set of natural numbers has a least element.
LEMMA LeastNumber ==
  ASSUME NEW B, B \subseteq Nat, B # {}
  PROVE  \E n \in B : \A m \in B : n <= m
<1>1. \E n \in B : \A m \in B : ~ (<<m, n>> \in OpToRel(<, Nat))
  BY NatLessThanWellFounded, WFMin
<1>2. \E n \in B : \A m \in B : ~ (m < n)
  BY <1>1, LessIsARelation, Zenon
<1>. QED BY <1>2

\* A family of subsets of a finite set has one with the fewest elements.
LEMMA LeastSet ==
  ASSUME NEW S, IsFiniteSet(S), NEW F, F \subseteq SUBSET S, F # {}
  PROVE  \E s \in F : \A t \in F : Cardinality(s) <= Cardinality(t)
<1> DEFINE sizes == {Cardinality(s) : s \in F}
<1>1. sizes \subseteq Nat
  BY FS_Subset, FS_CardinalityType
<1>2. sizes # {}
  OBVIOUS
<1>3. \E n \in sizes : \A m \in sizes : n <= m
  BY <1>1, <1>2, LeastNumber
<1>. QED BY <1>3

\* A family of subsets of a finite set that has the empty set and grows with every
\* element has the whole set.
LEMMA SetInduction ==
  ASSUME NEW S, IsFiniteSet(S), NEW F,
         {} \in F,
         \A T \in SUBSET S : \A x \in S \ T : T \in F => T \cup {x} \in F
  PROVE  S \in F
<1> DEFINE bad == {T \in SUBSET S : T \notin F}
<1>1. SUFFICES ASSUME S \notin F PROVE FALSE
  OBVIOUS
<1>2. \E s \in bad : \A t \in bad : Cardinality(s) <= Cardinality(t)
  BY <1>1, LeastSet
<1>3. PICK s \in bad : \A t \in bad : Cardinality(s) <= Cardinality(t)
  BY <1>2
<1>4. PICK x : x \in s
  OBVIOUS
<1>5. s \ {x} \in SUBSET S /\ x \in S \ (s \ {x}) /\ (s \ {x}) \cup {x} = s
  BY <1>4
<1>6. IsFiniteSet(s)
  BY FS_Subset
<1>7. Cardinality(s) \in Nat /\ Cardinality(s \ {x}) = Cardinality(s) - 1
  BY <1>4, <1>6, FS_CardinalityType, FS_RemoveElement
<1>8. s \ {x} \in F
  BY <1>3, <1>5, <1>7
<1>. QED BY <1>5, <1>8

---------------------------------------------------------------------------
(* The recursive function behind a sum.                                   *)

Pick(s) == CHOOSE x \in s : TRUE

\* g sums f over every subset of S.
Sums(g, f, S) ==
  g = [s \in SUBSET S |-> IF s = {} THEN 0 ELSE f[Pick(s)] + g[s \ {Pick(s)}]]

\* The same over the subsets with at most n elements.
Small(S, n) == {s \in SUBSET S : Cardinality(s) <= n}
SumsUpTo(g, f, S, n) ==
  g = [s \in Small(S, n) |-> IF s = {} THEN 0 ELSE f[Pick(s)] + g[s \ {Pick(s)}]]

LEMMA SumUnfolded ==
  ASSUME NEW f, NEW S
  PROVE  SumFunctionOnSet(f, S) = (CHOOSE g : Sums(g, f, S))[S]
BY DEF SumFunctionOnSet, FoldFunctionOnSet, MapThenFoldSet, Sums, Pick

LEMMA PickIn == ASSUME NEW s, s # {} PROVE Pick(s) \in s
BY DEF Pick

LEMMA RemovePick ==
  ASSUME NEW S, IsFiniteSet(S), NEW s \in SUBSET S, s # {}
  PROVE  /\ s \ {Pick(s)} \in SUBSET S
         /\ Cardinality(s) \in Nat \ {0}
         /\ Cardinality(s \ {Pick(s)}) = Cardinality(s) - 1
<1>1. IsFiniteSet(s) /\ Pick(s) \in s
  BY FS_Subset, PickIn
<1>2. Cardinality(s) \in Nat /\ Cardinality(s) # 0
  BY <1>1, FS_CardinalityType, FS_EmptySet
<1>. QED BY <1>1, <1>2, FS_RemoveElement

LEMMA SumsStart ==
  ASSUME NEW f, NEW S, IsFiniteSet(S)
  PROVE  \E g : SumsUpTo(g, f, S, 0)
<1>1. \A s \in Small(S, 0) : s = {}
  <2> SUFFICES ASSUME NEW s \in Small(S, 0), s # {} PROVE FALSE
    OBVIOUS
  <2>1. s \in SUBSET S /\ Cardinality(s) <= 0
    BY DEF Small
  <2>2. Cardinality(s) \in Nat \ {0}
    BY <2>1, RemovePick
  <2>. QED BY <2>1, <2>2
<1>2. SumsUpTo([s \in Small(S, 0) |-> 0], f, S, 0)
  BY <1>1 DEF SumsUpTo
<1>. QED BY <1>2

LEMMA SumsGrow ==
  ASSUME NEW f, NEW S, IsFiniteSet(S), NEW n \in Nat, NEW g, SumsUpTo(g, f, S, n)
  PROVE  \E h : SumsUpTo(h, f, S, n + 1)
<1> DEFINE h == [s \in Small(S, n + 1) |->
                   IF s = {} THEN 0 ELSE f[Pick(s)] + g[s \ {Pick(s)}]]
<1>1. \A s \in Small(S, n) : s \in Small(S, n + 1) /\ h[s] = g[s]
  <2> SUFFICES ASSUME NEW s \in Small(S, n)
               PROVE  s \in Small(S, n + 1) /\ h[s] = g[s]
    OBVIOUS
  <2>1. Cardinality(s) \in Nat
    BY FS_Subset, FS_CardinalityType DEF Small
  <2>2. s \in Small(S, n + 1)
    BY <2>1 DEF Small
  <2>3. g[s] = IF s = {} THEN 0 ELSE f[Pick(s)] + g[s \ {Pick(s)}]
    BY Zenon DEF SumsUpTo
  <2>. QED BY <2>2, <2>3
<1>2. \A s \in Small(S, n + 1) : s # {} => s \ {Pick(s)} \in Small(S, n)
  BY RemovePick DEF Small
<1>3. \A s \in Small(S, n + 1) :
         h[s] = IF s = {} THEN 0 ELSE f[Pick(s)] + h[s \ {Pick(s)}]
  BY <1>1, <1>2
<1>4. SumsUpTo(h, f, S, n + 1)
  BY <1>3 DEF SumsUpTo
<1>. QED BY <1>4

\* Such a function exists, so the CHOOSE of the fold finds it.
LEMMA SumsExist ==
  ASSUME NEW f, NEW S, IsFiniteSet(S)
  PROVE  \E g : Sums(g, f, S)
<1> DEFINE bad == {n \in Nat : ~ \E g : SumsUpTo(g, f, S, n)}
<1>1. bad = {}
  <2> SUFFICES ASSUME bad # {} PROVE FALSE
    OBVIOUS
  <2>1. PICK n \in bad : \A m \in bad : n <= m
    BY LeastNumber
  <2>2. n # 0
    BY SumsStart
  <2>3. n - 1 \in Nat /\ n - 1 \notin bad
    BY <2>1, <2>2
  <2>4. PICK g : SumsUpTo(g, f, S, n - 1)
    BY <2>3
  <2>5. \E h : SumsUpTo(h, f, S, (n - 1) + 1)
    BY <2>3, <2>4, SumsGrow
  <2>. QED BY <2>5
<1>2. Cardinality(S) \in Nat
  BY FS_CardinalityType
<1>3. PICK g : SumsUpTo(g, f, S, Cardinality(S))
  BY <1>1, <1>2
<1>4. Small(S, Cardinality(S)) = SUBSET S
  BY FS_Subset DEF Small
<1>. QED BY <1>3, <1>4 DEF Sums, SumsUpTo

LEMMA SumsAt ==
  ASSUME NEW f, NEW S, NEW g, Sums(g, f, S), NEW s \in SUBSET S
  PROVE  g[s] = IF s = {} THEN 0 ELSE f[Pick(s)] + g[s \ {Pick(s)}]
BY Zenon DEF Sums

\* Two of them agree where their functions do.
LEMMA SumsAgree ==
  ASSUME NEW f, NEW S, NEW g, Sums(g, f, S), IsFiniteSet(S),
         NEW e, NEW T, NEW h, Sums(h, e, T), T \subseteq S,
         \A x \in T : f[x] = e[x]
  PROVE  \A s \in SUBSET T : g[s] = h[s]
<1> DEFINE bad == {s \in SUBSET T : g[s] # h[s]}
<1> SUFFICES ASSUME bad # {} PROVE FALSE
  OBVIOUS
<1>0. IsFiniteSet(T)
  BY FS_Subset
<1>1. PICK s \in bad : \A t \in bad : Cardinality(s) <= Cardinality(t)
  BY <1>0, LeastSet
<1>2. s \in SUBSET T /\ s \in SUBSET S
  OBVIOUS
<1>3. g[s] = IF s = {} THEN 0 ELSE f[Pick(s)] + g[s \ {Pick(s)}]
  BY <1>2, SumsAt
<1>4. h[s] = IF s = {} THEN 0 ELSE e[Pick(s)] + h[s \ {Pick(s)}]
  BY <1>2, SumsAt
<1>5. s # {}
  BY <1>3, <1>4
<1>6. f[Pick(s)] = e[Pick(s)]
  BY <1>2, <1>5, PickIn
<1>7. /\ s \ {Pick(s)} \in SUBSET T
      /\ Cardinality(s) \in Nat
      /\ Cardinality(s \ {Pick(s)}) = Cardinality(s) - 1
  BY <1>0, <1>2, <1>5, RemovePick
<1>8. g[s \ {Pick(s)}] = h[s \ {Pick(s)}]
  BY <1>1, <1>7
<1>. QED BY <1>3, <1>4, <1>5, <1>6, <1>8

---------------------------------------------------------------------------
(* Sums.                                                                  *)

\* Nothing adds up to nothing, and a sum takes out the element it picks.
LEMMA SumOfNone == ASSUME NEW f PROVE SumFunctionOnSet(f, {}) = 0
<1> DEFINE g == CHOOSE g : Sums(g, f, {})
<1>1. Sums(g, f, {})
  BY FS_EmptySet, SumsExist
<1>2. g[{}] = 0
  BY <1>1, SumsAt
<1>. QED BY <1>2, SumUnfolded

\* Functions that agree on a set have the same sum over it.
LEMMA SumAgrees ==
  ASSUME NEW S, IsFiniteSet(S), NEW f, NEW e, \A x \in S : f[x] = e[x]
  PROVE  SumFunctionOnSet(f, S) = SumFunctionOnSet(e, S)
<1> DEFINE g == CHOOSE g : Sums(g, f, S)
           h == CHOOSE h : Sums(h, e, S)
<1>1. Sums(g, f, S) /\ Sums(h, e, S)
  BY SumsExist
<1>2. g[S] = h[S]
  BY <1>1, SumsAgree
<1>. QED BY <1>2, SumUnfolded

LEMMA SumPick ==
  ASSUME NEW S, IsFiniteSet(S), NEW f, S # {}
  PROVE  SumFunctionOnSet(f, S) = f[Pick(S)] + SumFunctionOnSet(f, S \ {Pick(S)})
<1> DEFINE T == S \ {Pick(S)}
           g == CHOOSE g : Sums(g, f, S)
           h == CHOOSE h : Sums(h, f, T)
<1>1. IsFiniteSet(T)
  BY FS_Subset
<1>2. Sums(g, f, S) /\ Sums(h, f, T)
  BY <1>1, SumsExist
<1>3. g[T] = h[T]
  BY <1>2, SumsAgree
<1>4. g[S] = f[Pick(S)] + g[T]
  BY <1>2, SumsAt
<1>5. SumFunctionOnSet(f, S) = g[S] /\ SumFunctionOnSet(f, T) = h[T]
  BY SumUnfolded
<1>. QED BY <1>3, <1>4, <1>5

\* A sum of integers is an integer.
LEMMA SumInt ==
  ASSUME NEW S, IsFiniteSet(S), NEW f, \A x \in S : f[x] \in Int
  PROVE  SumFunctionOnSet(f, S) \in Int
<1> DEFINE bad == {s \in SUBSET S : SumFunctionOnSet(f, s) \notin Int}
<1> SUFFICES ASSUME bad # {} PROVE FALSE
  OBVIOUS
<1>1. PICK s \in bad : \A t \in bad : Cardinality(s) <= Cardinality(t)
  BY LeastSet
<1>2. s # {}
  BY SumOfNone
<1>3. /\ s \ {Pick(s)} \in SUBSET S
      /\ Cardinality(s) \in Nat
      /\ Cardinality(s \ {Pick(s)}) = Cardinality(s) - 1
  BY <1>2, RemovePick
<1>4. SumFunctionOnSet(f, s \ {Pick(s)}) \in Int
  BY <1>1, <1>3
<1>5. SumFunctionOnSet(f, s) = f[Pick(s)] + SumFunctionOnSet(f, s \ {Pick(s)})
  BY <1>2, SumPick, FS_Subset
<1>6. Pick(s) \in S
  BY <1>2, PickIn
<1>. QED BY <1>4, <1>5, <1>6

\* Any element can be taken out of a sum of integers.
LEMMA SumRemove ==
  ASSUME NEW S, IsFiniteSet(S), NEW f, \A x \in S : f[x] \in Int, NEW x \in S
  PROVE  SumFunctionOnSet(f, S) = f[x] + SumFunctionOnSet(f, S \ {x})
<1> DEFINE Sum(s) == SumFunctionOnSet(f, s)
           bad == {s \in SUBSET S : \E y \in s : Sum(s) # f[y] + Sum(s \ {y})}
<1> SUFFICES ASSUME bad # {} PROVE FALSE
  OBVIOUS
<1>1. PICK s \in bad : \A t \in bad : Cardinality(s) <= Cardinality(t)
  BY LeastSet
<1>2. PICK y \in s : Sum(s) # f[y] + Sum(s \ {y})
  OBVIOUS
<1> DEFINE z == Pick(s)
<1>3. IsFiniteSet(s) /\ z \in s /\ s \in SUBSET S
  BY FS_Subset, PickIn
<1>4. Sum(s) = f[z] + Sum(s \ {z})
  BY <1>3, SumPick
<1>5. z # y
  BY <1>2, <1>4
<1>6. /\ Cardinality(s) \in Nat
      /\ Cardinality(s \ {z}) = Cardinality(s) - 1
      /\ Cardinality(s \ {y}) = Cardinality(s) - 1
  BY <1>3, FS_CardinalityType, FS_RemoveElement
<1>7. s \ {z} \notin bad /\ s \ {y} \notin bad
  BY <1>1, <1>6
<1>8. Sum(s \ {z}) = f[y] + Sum((s \ {z}) \ {y})
  BY <1>3, <1>5, <1>7
<1>9. Sum(s \ {y}) = f[z] + Sum((s \ {y}) \ {z})
  BY <1>3, <1>5, <1>7
<1>10. (s \ {z}) \ {y} = (s \ {y}) \ {z}
  OBVIOUS
<1>11. IsFiniteSet((s \ {y}) \ {z})
  BY <1>3, FS_Subset
<1>12. Sum((s \ {y}) \ {z}) \in Int
  BY <1>11, SumInt
<1>13. f[y] \in Int /\ f[z] \in Int
  BY <1>3
<1>14. Sum(s) = f[z] + (f[y] + Sum((s \ {y}) \ {z}))
  BY <1>4, <1>8, <1>10
<1>15. Sum(s) # f[y] + (f[z] + Sum((s \ {y}) \ {z}))
  BY <1>2, <1>9
<1>16. \A a, b, c \in Int : a + (b + c) = b + (a + c)
  OBVIOUS
<1> HIDE DEF Sum, z, bad
<1>. QED BY <1>12, <1>13, <1>14, <1>15, <1>16

\* A new element adds its value.
LEMMA SumAdd ==
  ASSUME NEW S, IsFiniteSet(S), NEW x, x \notin S, NEW f,
         \A y \in S \cup {x} : f[y] \in Int
  PROVE  SumFunctionOnSet(f, S \cup {x}) = SumFunctionOnSet(f, S) + f[x]
<1> DEFINE T == S \cup {x}
<1>1. IsFiniteSet(T) /\ x \in T /\ T \ {x} = S
  BY FS_AddElement
<1>2. SumFunctionOnSet(f, T) = f[x] + SumFunctionOnSet(f, T \ {x})
  BY <1>1, SumRemove
<1>3. SumFunctionOnSet(f, S) \in Int /\ f[x] \in Int
  BY SumInt
<1>4. SumFunctionOnSet(f, S \cup {x}) = f[x] + SumFunctionOnSet(f, S)
  BY <1>1, <1>2
<1>5. \A a, b \in Int : a + b = b + a
  OBVIOUS
<1>. QED BY <1>3, <1>4, <1>5

\* A sum of natural numbers is one, and is not less than any of its elements.
LEMMA SumNat ==
  ASSUME NEW S, IsFiniteSet(S), NEW f, \A x \in S : f[x] \in Nat
  PROVE  /\ SumFunctionOnSet(f, S) \in Nat
         /\ \A x \in S : f[x] <= SumFunctionOnSet(f, S)
<1> DEFINE Sum(s) == SumFunctionOnSet(f, s)
           F == {s \in SUBSET S : Sum(s) \in Nat}
<1>1. {} \in F
  BY SumOfNone
<1>2. ASSUME NEW T \in SUBSET S, NEW x \in S \ T, T \in F
      PROVE  T \cup {x} \in F
  <2>1. IsFiniteSet(T) /\ x \notin T /\ \A y \in T \cup {x} : f[y] \in Int
    BY FS_Subset
  <2>2. Sum(T \cup {x}) = Sum(T) + f[x]
    BY <2>1, SumAdd
  <2>. QED BY <1>2, <2>2
<1>3. S \in F
  BY <1>1, <1>2, SetInduction
<1>4. ASSUME NEW x \in S PROVE f[x] <= Sum(S)
  <2>1. Sum(S) = f[x] + Sum(S \ {x})
    BY SumRemove
  <2>2. \A T \in SUBSET S : T \in F
    <3> SUFFICES ASSUME NEW T \in SUBSET S PROVE T \in F
      OBVIOUS
    <3> DEFINE G == {s \in SUBSET T : s \in F}
    <3>1. IsFiniteSet(T) /\ {} \in G
      BY <1>1, FS_Subset
    <3>2. \A U \in SUBSET T : \A y \in T \ U : U \in G => U \cup {y} \in G
      BY <1>2
    <3>3. T \in G
      BY <3>1, <3>2, SetInduction
    <3>. QED BY <3>3
  <2>3. Sum(S \ {x}) \in Nat
    BY <2>2
  <2>. QED BY <2>1, <2>3
<1>. QED BY <1>3, <1>4

\* Changing one value moves the sum by the difference.
LEMMA SumChange ==
  ASSUME NEW S, IsFiniteSet(S), NEW f, NEW e, NEW x \in S,
         \A y \in S : f[y] \in Int /\ e[y] \in Int,
         \A y \in S \ {x} : e[y] = f[y]
  PROVE  SumFunctionOnSet(e, S) = SumFunctionOnSet(f, S) - f[x] + e[x]
<1> DEFINE T == S \ {x}
<1>1. IsFiniteSet(T)
  BY FS_Subset
<1>2. SumFunctionOnSet(e, T) = SumFunctionOnSet(f, T)
  BY <1>1, SumAgrees
<1>3. SumFunctionOnSet(e, S) = e[x] + SumFunctionOnSet(e, T)
  BY SumRemove
<1>4. SumFunctionOnSet(f, S) = f[x] + SumFunctionOnSet(f, T)
  BY SumRemove
<1>5. SumFunctionOnSet(f, T) \in Int /\ f[x] \in Int /\ e[x] \in Int
  BY <1>1, SumInt
<1>. QED BY <1>2, <1>3, <1>4, <1>5

\* Fewer terms, none larger and none negative, do not make a larger sum.
LEMMA SumShrinks ==
  ASSUME NEW S, IsFiniteSet(S), NEW T, T \subseteq S, NEW f, NEW e,
         \A x \in S : f[x] \in Nat,
         \A x \in T : e[x] \in Nat /\ e[x] <= f[x]
  PROVE  SumFunctionOnSet(e, T) <= SumFunctionOnSet(f, S)
<1> DEFINE Sum(g, s) == SumFunctionOnSet(g, s)
           F == {s \in SUBSET S : Sum(e, s \cap T) <= Sum(f, s)}
<1>1. {} \in F
  <2>1. {} \cap T = {} /\ Sum(e, {}) = 0 /\ Sum(f, {}) = 0
    BY SumOfNone
  <2>. QED BY <2>1
<1>2. ASSUME NEW s \in SUBSET S, NEW x \in S \ s, s \in F PROVE s \cup {x} \in F
  <2>1. IsFiniteSet(s) /\ IsFiniteSet(s \cap T)
    BY FS_Subset
  <2>2. (\A y \in s \cup {x} : f[y] \in Int) /\ \A y \in (s \cup {x}) \cap T : e[y] \in Int
    OBVIOUS
  <2>3. Sum(f, s \cup {x}) = Sum(f, s) + f[x]
    BY <2>1, <2>2, SumAdd
  <2>4. Sum(f, s) \in Int /\ Sum(e, s \cap T) \in Int
    BY <2>1, <2>2, SumInt
  <2>5. f[x] \in Nat /\ Sum(e, s \cap T) <= Sum(f, s)
    BY <1>2
  <2>6. CASE x \in T
    <3>1. (s \cup {x}) \cap T = (s \cap T) \cup {x} /\ x \notin s \cap T
      BY <2>6
    <3>2. Sum(e, (s \cap T) \cup {x}) = Sum(e, s \cap T) + e[x]
      <4>1. \A y \in (s \cap T) \cup {x} : e[y] \in Int
        BY <2>2, <3>1
      <4>. QED BY <2>1, <3>1, <4>1, SumAdd
    <3>3. e[x] \in Nat /\ e[x] <= f[x]
      BY <2>6
    <3>4. Sum(e, (s \cup {x}) \cap T) <= Sum(f, s \cup {x})
      <4>1. Sum(e, (s \cup {x}) \cap T) = Sum(e, s \cap T) + e[x]
        BY <3>1, <3>2
      <4>2. \A a, b, c, d \in Int : a <= b /\ c <= d => a + c <= b + d
        OBVIOUS
      <4>. QED BY <2>3, <2>4, <2>5, <3>3, <4>1, <4>2
    <3>. QED BY <3>4
  <2>7. CASE x \notin T
    <3>1. (s \cup {x}) \cap T = s \cap T
      BY <2>7
    <3>2. Sum(e, (s \cup {x}) \cap T) <= Sum(f, s \cup {x})
      <4> HIDE DEF Sum
      <4>. QED BY <2>3, <2>4, <2>5, <3>1
    <3>. QED BY <3>2
  <2>. QED BY <2>6, <2>7
<1>3. S \in F
  <2> HIDE DEF F
  <2>. QED BY <1>1, <1>2, SetInduction
<1>4. S \cap T = T
  OBVIOUS
<1>. QED BY <1>3, <1>4

=============================================================================
