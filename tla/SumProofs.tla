------------------------------- MODULE SumProofs -------------------------------
(***************************************************************************)
(* What SumOf computes: a sum over a finite set may be split anywhere,     *)
(* summands that are equal have equal sums, and the summands of a sum may  *)
(* be taken in groups; and of numbers and finite sets what the proofs      *)
(* about sums, weights and quotients keep needing.                         *)
(*                                                                         *)
(* SumOf is a fold, and its equation needs induction on the set.  The      *)
(* induction is the least number of a set of numbers (LeastOf), so that    *)
(* what it shows is always membership of a set (SetInduction).             *)
(***************************************************************************)
EXTENDS Sums, Money, FiniteSetTheorems, WellFoundedInduction, TLAPS

\* How MapThenSumSet adds up: the table of the sums of all subsets, one member split off after
\* another.
Pick(s) == CHOOSE x \in s : TRUE
SumStep(f, g, s) == IF s = {} THEN 0 ELSE f[Pick(s)] + g[s \ {Pick(s)}]
Iter(f, S) == CHOOSE g : g = [s \in SUBSET S |-> SumStep(f, g, s)]

\* g adds up the numbers f gives to the members of the sets in D.
AddsUp(f, g, D) == \A s \in D : g[s] = SumStep(f, g, s)
SmallSubsets(S, n) == {s \in SUBSET S : Cardinality(s) <= n}

\* f gives a number to every member.
Numbers(f, S) == \A x \in S : f[x] \in Int

\* A set of numbers has a least one: what induction is built on here.
LEMMA LeastOf ==
    ASSUME NEW N \in SUBSET Nat, N # {}
    PROVE  \E m \in N : \A n \in N : m <= n
<1>1. PICK m \in N : \A n \in N : ~(<<n, m>> \in OpToRel(<, Nat))
  BY NatLessThanWellFounded, WFMin
<1>2. ASSUME NEW n \in N PROVE m <= n
  <2> DEFINE Less == {ss \in Nat \X Nat : ss[1] < ss[2]}
  <2>1. ~(<<n, m>> \in Less)
    BY <1>1, Zenon DEF OpToRel
  <2> QED
    BY <2>1
<1> QED
  BY <1>2

\* The set of which a property fails, if any, has members that are smallest.
LEMMA SmallestOf ==
    ASSUME NEW T, T # {}, \A s \in T : IsFiniteSet(s)
    PROVE  \E s \in T : \A t \in T : Cardinality(s) <= Cardinality(t)
<1> DEFINE N == {Cardinality(s) : s \in T}
<1>1. N \in SUBSET Nat /\ N # {}
  BY FS_CardinalityType
<1> HIDE DEF N
<1>2. PICK m \in N : \A n \in N : m <= n
  BY <1>1, LeastOf
<1> QED
  BY <1>2 DEF N

\* The sum is what the table of the fold says of the whole set.
LEMMA SumIsIter == ASSUME NEW f, NEW S PROVE SumOf(f, S) = Iter(f, S)[S]
BY Zenon DEF SumOf, Iter, SumStep, Pick, MapThenSumSet, MapThenFoldSet

\* The member a fold splits off is one.
LEMMA PickIsIn == ASSUME NEW s, s # {} PROVE Pick(s) \in s
BY DEF Pick

\* There is such a table for the sets of up to n members.
LEMMA SumsExist ==
    ASSUME NEW f, NEW S, IsFiniteSet(S)
    PROVE  \A n \in Nat : \E g : AddsUp(f, g, SmallSubsets(S, n))
<1> DEFINE Bad == {n \in Nat : ~ \E g : AddsUp(f, g, SmallSubsets(S, n))}
<1> SUFFICES ASSUME Bad # {} PROVE FALSE
  OBVIOUS
<1>1. PICK m \in Bad : \A n \in Bad : m <= n
  BY LeastOf
<1>2. ASSUME NEW s \in SUBSET S
      PROVE  /\ IsFiniteSet(s) /\ Cardinality(s) \in Nat
             /\ s # {} => /\ s \ {Pick(s)} \in SUBSET S
                          /\ Cardinality(s \ {Pick(s)}) = Cardinality(s) - 1
  BY FS_Subset, FS_CardinalityType, FS_RemoveElement, PickIsIn
<1>3. \E g : AddsUp(f, g, SmallSubsets(S, m))
  <2>1. CASE m = 0
    <3> DEFINE g == [s \in SUBSET S |-> 0]
    <3>1. ASSUME NEW s \in SmallSubsets(S, m) PROVE s = {}
      <4>1. s \in SUBSET S /\ Cardinality(s) <= 0
        BY <2>1 DEF SmallSubsets
      <4>2. IsFiniteSet(s) /\ Cardinality(s) \in Nat
        BY <1>2, <4>1
      <4> QED
        BY <4>1, <4>2, FS_EmptySet
    <3>2. AddsUp(f, g, SmallSubsets(S, m))
      BY <3>1 DEF AddsUp, SumStep, SmallSubsets
    <3> QED
      BY <3>2
  <2>2. CASE m # 0
    <3>1. m - 1 \in Nat /\ m - 1 \notin Bad
      BY <1>1, <2>2
    <3>2. PICK g : AddsUp(f, g, SmallSubsets(S, m - 1))
      BY <3>1
    <3> DEFINE h == [s \in SUBSET S |-> SumStep(f, g, s)]
    <3>3. \A s \in SmallSubsets(S, m - 1) : h[s] = g[s]
      BY <3>2 DEF AddsUp, SmallSubsets
    <3>4. ASSUME NEW s \in SmallSubsets(S, m) PROVE h[s] = SumStep(f, h, s)
      <4>1. h[s] = SumStep(f, g, s)
        BY DEF SmallSubsets
      <4>2. CASE s = {}
        BY <4>1, <4>2 DEF SumStep
      <4>3. CASE s # {}
        <5>1. s \ {Pick(s)} \in SmallSubsets(S, m - 1)
          BY <1>2, <4>3, <3>1 DEF SmallSubsets
        <5> HIDE DEF h
        <5> QED
          BY <3>3, <4>1, <4>3, <5>1 DEF SumStep
      <4> QED
        BY <4>2, <4>3
    <3> HIDE DEF h
    <3> QED
      BY <3>4 DEF AddsUp
  <2> QED
    BY <2>1, <2>2
<1> QED
  BY <1>1, <1>3

\* So the table the fold chooses adds up.
LEMMA IterAddsUp ==
    ASSUME NEW f, NEW S, IsFiniteSet(S)
    PROVE  AddsUp(f, Iter(f, S), SUBSET S)
<1>1. PICK g : AddsUp(f, g, SmallSubsets(S, Cardinality(S)))
  BY SumsExist, FS_CardinalityType
<1>2. SmallSubsets(S, Cardinality(S)) = SUBSET S
  BY FS_Subset DEF SmallSubsets
<1> DEFINE h == [s \in SUBSET S |-> g[s]]
<1>3. ASSUME NEW s \in SUBSET S PROVE h[s] = SumStep(f, h, s)
  <2>1. h[s] = SumStep(f, g, s)
    BY <1>1, <1>2 DEF AddsUp
  <2> QED
    BY <2>1 DEF SumStep
<1>4. h = [s \in SUBSET S |-> SumStep(f, h, s)]
  BY <1>3
<1> HIDE DEF h
<1>5. \E k : k = [s \in SUBSET S |-> SumStep(f, k, s)]
  BY <1>4
<1>6. Iter(f, S) = [s \in SUBSET S |-> SumStep(f, Iter(f, S), s)]
  BY <1>5, Zenon DEF Iter
<1> HIDE DEF Iter
<1> QED
  BY <1>6 DEF AddsUp

\* Two tables that add up agree on the sets they both have.
LEMMA OneSum ==
    ASSUME NEW f, NEW S, IsFiniteSet(S), NEW g, NEW h,
           AddsUp(f, g, SUBSET S), AddsUp(f, h, SUBSET S)
    PROVE  g[S] = h[S]
<1> DEFINE Bad == {s \in SUBSET S : g[s] # h[s]}
<1> SUFFICES ASSUME Bad # {} PROVE FALSE
  OBVIOUS
<1>1. \A s \in SUBSET S : IsFiniteSet(s)
  BY FS_Subset
<1>2. PICK s \in Bad : \A t \in Bad : Cardinality(s) <= Cardinality(t)
  BY <1>1, SmallestOf
<1>3. s # {}
  BY <1>2 DEF AddsUp, SumStep
<1>4. IsFiniteSet(s) /\ Cardinality(s) \in Nat /\ Pick(s) \in s /\ s \ {Pick(s)} \in SUBSET S
  BY <1>1, <1>3, FS_CardinalityType, PickIsIn
<1>5. Cardinality(s \ {Pick(s)}) = Cardinality(s) - 1
  BY <1>4, FS_RemoveElement
<1>6. s \ {Pick(s)} \notin Bad
  BY <1>2, <1>4, <1>5
<1> QED
  BY <1>3, <1>4, <1>6 DEF AddsUp, SumStep

\* The equation of the fold.
LEMMA SumRecurs ==
    ASSUME NEW f, NEW S, IsFiniteSet(S)
    PROVE  SumOf(f, S) = IF S = {} THEN 0 ELSE f[Pick(S)] + SumOf(f, S \ {Pick(S)})
<1> DEFINE T == S \ {Pick(S)}
<1>1. SumOf(f, S) = Iter(f, S)[S] /\ SumOf(f, T) = Iter(f, T)[T]
  BY SumIsIter
<1>2. AddsUp(f, Iter(f, S), SUBSET S)
  BY IterAddsUp
<1>3. IsFiniteSet(T)
  BY FS_RemoveElement
<1>4. AddsUp(f, Iter(f, T), SUBSET T)
  BY <1>3, IterAddsUp
<1>5. AddsUp(f, Iter(f, S), SUBSET T)
  BY <1>2 DEF AddsUp
<1>6. Iter(f, S)[T] = Iter(f, T)[T]
  BY <1>3, <1>4, <1>5, OneSum
<1> QED
  BY <1>1, <1>2, <1>6 DEF AddsUp, SumStep

\* A sum of numbers is a number.
LEMMA SumIsInt ==
    ASSUME NEW f, NEW S, IsFiniteSet(S), Numbers(f, S)
    PROVE  SumOf(f, S) \in Int
<1> DEFINE Bad == {s \in SUBSET S : SumOf(f, s) \notin Int}
<1> SUFFICES ASSUME Bad # {} PROVE FALSE
  OBVIOUS
<1>1. \A s \in SUBSET S : IsFiniteSet(s)
  BY FS_Subset
<1>2. PICK s \in Bad : \A t \in Bad : Cardinality(s) <= Cardinality(t)
  BY <1>1, SmallestOf
<1>3. SumOf(f, s) = IF s = {} THEN 0 ELSE f[Pick(s)] + SumOf(f, s \ {Pick(s)})
  BY <1>1, SumRecurs
<1>4. s # {} /\ Pick(s) \in s
  BY <1>3, PickIsIn
<1>5. s \ {Pick(s)} \in SUBSET S /\ Cardinality(s \ {Pick(s)}) < Cardinality(s)
  BY <1>1, <1>4, FS_RemoveElement, FS_CardinalityType
<1>6. s \ {Pick(s)} \notin Bad
  BY <1>1, <1>2, <1>5, FS_CardinalityType
<1> QED
  BY <1>3, <1>4, <1>5, <1>6 DEF Numbers

\* The order of the summands is of no matter: any member may be split off.
LEMMA SumSplit ==
    ASSUME NEW f, NEW S, IsFiniteSet(S), Numbers(f, S), NEW x \in S
    PROVE  SumOf(f, S) = f[x] + SumOf(f, S \ {x})
<1> DEFINE Bad == {s \in SUBSET S : \E y \in s : SumOf(f, s) # f[y] + SumOf(f, s \ {y})}
<1> SUFFICES ASSUME Bad # {} PROVE FALSE
  OBVIOUS
<1>1. \A s \in SUBSET S : IsFiniteSet(s) /\ Cardinality(s) \in Nat
  BY FS_Subset, FS_CardinalityType
<1>2. PICK s \in Bad : \A t \in Bad : Cardinality(s) <= Cardinality(t)
  BY <1>1, SmallestOf
<1>3. PICK y \in s : SumOf(f, s) # f[y] + SumOf(f, s \ {y})
  BY <1>2
<1> DEFINE c == Pick(s)
<1>4. c \in s /\ SumOf(f, s) = f[c] + SumOf(f, s \ {c})
  BY <1>1, <1>3, SumRecurs, PickIsIn
<1> HIDE DEF c
<1>5. c # y
  BY <1>3, <1>4
<1>6. ASSUME NEW z \in s, NEW u \in s, z # u
      PROVE  SumOf(f, s \ {z}) = f[u] + SumOf(f, (s \ {z}) \ {u})
  <2>1. s \ {z} \in SUBSET S /\ Cardinality(s \ {z}) < Cardinality(s) /\ u \in s \ {z}
    BY <1>1, <1>6, FS_RemoveElement
  <2>2. Cardinality(s) \in Nat /\ Cardinality(s \ {z}) \in Nat
    BY <1>1, <2>1
  <2>3. s \ {z} \notin Bad
    BY <1>2, <2>1, <2>2
  <2> QED
    BY <2>1, <2>3
<1>7. SumOf(f, s \ {c}) = f[y] + SumOf(f, (s \ {c}) \ {y}) /\ SumOf(f, s \ {y}) = f[c] + SumOf(f, (s \ {y}) \ {c})
  BY <1>4, <1>5, <1>6
<1>8. (s \ {c}) \ {y} = (s \ {y}) \ {c}
  OBVIOUS
<1>9. f[c] \in Int /\ f[y] \in Int /\ SumOf(f, (s \ {c}) \ {y}) \in Int
  <2>1. (s \ {c}) \ {y} \in SUBSET S
    OBVIOUS
  <2> QED
    BY <1>1, <1>3, <1>4, <2>1, SumIsInt DEF Numbers
<1> QED
  BY <1>3, <1>4, <1>7, <1>8, <1>9

\* Induction on a finite set, with the sets of which the claim holds as a set.
LEMMA SetInduction ==
    ASSUME NEW S, IsFiniteSet(S), NEW P, {} \in P,
           ASSUME NEW s \in SUBSET S, s \in P, NEW x \in S \ s
           PROVE  s \cup {x} \in P
    PROVE  S \in P
<1> DEFINE Bad == {s \in SUBSET S : s \notin P}
<1> SUFFICES ASSUME Bad # {} PROVE FALSE
  OBVIOUS
<1>1. \A s \in SUBSET S : IsFiniteSet(s) /\ Cardinality(s) \in Nat
  BY FS_Subset, FS_CardinalityType
<1>2. PICK s \in Bad : \A t \in Bad : Cardinality(s) <= Cardinality(t)
  BY <1>1, SmallestOf
<1>3. PICK x \in s : TRUE
  OBVIOUS
<1>4. s \ {x} \in SUBSET S /\ x \in S \ (s \ {x}) /\ (s \ {x}) \cup {x} = s
  OBVIOUS
<1>5. IsFiniteSet(s) /\ Cardinality(s) \in Nat /\ Cardinality(s \ {x}) \in Nat
  BY <1>1, <1>4
<1>6. Cardinality(s \ {x}) = Cardinality(s) - 1
  BY <1>5, FS_RemoveElement
<1>7. s \ {x} \in P
  BY <1>2, <1>4, <1>5, <1>6
<1> QED
  BY <1>4, <1>7

\* Nobody has nothing.
LEMMA SumOfNone == ASSUME NEW f PROVE SumOf(f, {}) = 0
BY SumRecurs, FS_EmptySet

\* One more summand.
LEMMA SumWithOne ==
    ASSUME NEW f, NEW S, IsFiniteSet(S), NEW x, x \notin S, Numbers(f, S \cup {x})
    PROVE  SumOf(f, S \cup {x}) = f[x] + SumOf(f, S) /\ SumOf(f, S) \in Int /\ f[x] \in Int
<1>1. IsFiniteSet(S \cup {x}) /\ (S \cup {x}) \ {x} = S
  BY FS_AddElement
<1>2. SumOf(f, S \cup {x}) = f[x] + SumOf(f, (S \cup {x}) \ {x})
  BY <1>1, SumSplit
<1>3. Numbers(f, S)
  BY DEF Numbers
<1> QED
  BY <1>1, <1>2, <1>3, SumIsInt DEF Numbers

\* The same summands have the same sum.
LEMMA SumOfSame ==
    ASSUME NEW f, NEW g, NEW S, IsFiniteSet(S), Numbers(f, S), \A x \in S : f[x] = g[x]
    PROVE  SumOf(f, S) = SumOf(g, S)
<1> DEFINE P == {s \in SUBSET S : SumOf(f, s) = SumOf(g, s)}
<1>1. {} \in P
  BY SumOfNone
<1>2. ASSUME NEW s \in SUBSET S, s \in P, NEW x \in S \ s PROVE s \cup {x} \in P
  <2>1. IsFiniteSet(s) /\ Numbers(f, s \cup {x}) /\ Numbers(g, s \cup {x}) /\ f[x] = g[x]
    BY FS_Subset DEF Numbers
  <2> QED
    BY <1>2, <2>1, SumWithOne
<1> HIDE DEF P
<1>3. S \in P
  BY <1>1, <1>2, SetInduction
<1> QED
  BY <1>3 DEF P

\* k w + r = a h, added up.
LEMMA SumOfQuotients ==
    ASSUME NEW k \in Int, NEW a \in Int, NEW S, IsFiniteSet(S), NEW w, NEW r, NEW h,
           Numbers(w, S), Numbers(r, S), Numbers(h, S),
           \A x \in S : k * w[x] + r[x] = a * h[x]
    PROVE  k * SumOf(w, S) + SumOf(r, S) = a * SumOf(h, S)
<1> DEFINE P == {s \in SUBSET S : k * SumOf(w, s) + SumOf(r, s) = a * SumOf(h, s)}
<1>1. {} \in P
  BY SumOfNone
<1>2. ASSUME NEW s \in SUBSET S, s \in P, NEW x \in S \ s PROVE s \cup {x} \in P
  <2>1. IsFiniteSet(s) /\ Numbers(w, s \cup {x}) /\ Numbers(r, s \cup {x}) /\ Numbers(h, s \cup {x})
    BY FS_Subset DEF Numbers
  <2>2. /\ SumOf(w, s \cup {x}) = w[x] + SumOf(w, s) /\ SumOf(w, s) \in Int /\ w[x] \in Int
        /\ SumOf(r, s \cup {x}) = r[x] + SumOf(r, s) /\ SumOf(r, s) \in Int /\ r[x] \in Int
        /\ SumOf(h, s \cup {x}) = h[x] + SumOf(h, s) /\ SumOf(h, s) \in Int /\ h[x] \in Int
    BY <2>1, SumWithOne
  <2>3. \A b, c, d \in Int : b * (c + d) = b * c + b * d
    OBVIOUS
  <2>4. k * (w[x] + SumOf(w, s)) = k * w[x] + k * SumOf(w, s) /\ a * (h[x] + SumOf(h, s)) = a * h[x] + a * SumOf(h, s)
    BY <2>2, <2>3
  <2>5. k * w[x] + r[x] = a * h[x] /\ k * SumOf(w, s) + SumOf(r, s) = a * SumOf(h, s)
    BY <1>2
  <2>6. k * w[x] \in Int /\ k * SumOf(w, s) \in Int /\ a * h[x] \in Int /\ a * SumOf(h, s) \in Int
    BY <2>2
  <2>7. k * SumOf(w, s \cup {x}) + SumOf(r, s \cup {x}) = a * SumOf(h, s \cup {x})
    <3> DEFINE kw == k * w[x]
               kW == k * SumOf(w, s)
               ah == a * h[x]
               aH == a * SumOf(h, s)
    <3>2. kw \in Int /\ kW \in Int /\ ah \in Int /\ aH \in Int /\ r[x] \in Int /\ SumOf(r, s) \in Int
      BY <2>2, <2>6
    <3>3. kw + r[x] = ah /\ kW + SumOf(r, s) = aH
      BY <2>5
    <3> HIDE DEF kw, kW, ah, aH
    <3>4. (kw + kW) + (r[x] + SumOf(r, s)) = ah + aH
      BY <3>2, <3>3
    <3>1. (k * w[x] + k * SumOf(w, s)) + (r[x] + SumOf(r, s)) = a * h[x] + a * SumOf(h, s)
      BY <3>4 DEF kw, kW, ah, aH
    <3> QED
      BY <2>2, <2>4, <3>1
  <2> QED
    BY <2>7
<1> HIDE DEF P
<1>3. S \in P
  BY <1>1, <1>2, SetInduction
<1> QED
  BY <1>3 DEF P

\* Two sums, summand by summand.
LEMMA SumOfPairs ==
    ASSUME NEW S, IsFiniteSet(S), NEW f, NEW g, NEW h, Numbers(f, S), Numbers(g, S), Numbers(h, S),
           \A x \in S : h[x] = f[x] + g[x]
    PROVE  SumOf(h, S) = SumOf(f, S) + SumOf(g, S)
<1> DEFINE P == {s \in SUBSET S : SumOf(h, s) = SumOf(f, s) + SumOf(g, s)}
<1>1. {} \in P
  BY SumOfNone
<1>2. ASSUME NEW s \in SUBSET S, s \in P, NEW x \in S \ s PROVE s \cup {x} \in P
  <2>1. IsFiniteSet(s) /\ Numbers(f, s \cup {x}) /\ Numbers(g, s \cup {x}) /\ Numbers(h, s \cup {x})
    BY FS_Subset DEF Numbers
  <2>2. /\ SumOf(f, s \cup {x}) = f[x] + SumOf(f, s) /\ SumOf(f, s) \in Int /\ f[x] \in Int
        /\ SumOf(g, s \cup {x}) = g[x] + SumOf(g, s) /\ SumOf(g, s) \in Int /\ g[x] \in Int
        /\ SumOf(h, s \cup {x}) = h[x] + SumOf(h, s)
    BY <2>1, SumWithOne
  <2>3. h[x] = f[x] + g[x] /\ SumOf(h, s) = SumOf(f, s) + SumOf(g, s)
    BY <1>2
  <2>4. SumOf(h, s \cup {x}) = SumOf(f, s \cup {x}) + SumOf(g, s \cup {x})
    BY <2>2, <2>3
  <2> QED
    BY <2>4
<1> HIDE DEF P
<1>3. S \in P
  BY <1>1, <1>2, SetInduction
<1> QED
  BY <1>3 DEF P

\* Rests below k, of which only the positive ones count.
LEMMA SumOfRests ==
    ASSUME NEW k \in Nat \ {0}, NEW S, IsFiniteSet(S), NEW r, \A x \in S : r[x] \in 0..(k - 1)
    PROVE  /\ SumOf(r, S) \in Nat
           /\ SumOf(r, S) <= (k - 1) * Cardinality({x \in S : r[x] > 0})
<1> DEFINE Some(s) == {x \in s : r[x] > 0}
           P == {s \in SUBSET S : SumOf(r, s) \in Nat /\ SumOf(r, s) <= (k - 1) * Cardinality(Some(s))}
<1>1. {} \in P
  <2>1. Some({}) = {} /\ Cardinality({}) = 0
    BY FS_EmptySet
  <2> QED
    BY <2>1, SumOfNone
<1>2. ASSUME NEW s \in SUBSET S, s \in P, NEW x \in S \ s PROVE s \cup {x} \in P
  <2>1. IsFiniteSet(s) /\ Numbers(r, s \cup {x}) /\ r[x] \in 0..(k - 1)
    BY FS_Subset DEF Numbers
  <2>2. SumOf(r, s \cup {x}) = r[x] + SumOf(r, s)
    BY <2>1, SumWithOne
  <2>3. IsFiniteSet(Some(s)) /\ Cardinality(Some(s)) \in Nat /\ x \notin Some(s)
    BY <2>1, FS_Subset, FS_CardinalityType
  <2>4. SumOf(r, s) \in Nat /\ SumOf(r, s) <= (k - 1) * Cardinality(Some(s))
    BY <1>2
  <2>5. CASE r[x] > 0
    <3>1. Some(s \cup {x}) = Some(s) \cup {x}
      BY <2>5
    <3>2. Cardinality(Some(s \cup {x})) = Cardinality(Some(s)) + 1
      BY <2>3, <3>1, FS_AddElement
    <3> DEFINE n == Cardinality(Some(s))
    <3> HIDE DEF n
    <3>3. n \in Nat /\ SumOf(r, s) <= (k - 1) * n /\ Cardinality(Some(s \cup {x})) = n + 1
      BY <2>3, <2>4, <3>2 DEF n
    <3>4. (k - 1) * (n + 1) = (k - 1) * n + (k - 1) /\ (k - 1) * n \in Int
      BY <3>3
    <3>5. r[x] + SumOf(r, s) <= (k - 1) * (n + 1)
      BY <2>1, <2>4, <3>3, <3>4
    <3> QED
      BY <2>1, <2>2, <2>4, <3>3, <3>5
  <2>6. CASE ~(r[x] > 0)
    <3>1. Some(s \cup {x}) = Some(s) /\ r[x] = 0
      BY <2>1, <2>6
    <3>2. SumOf(r, s \cup {x}) = SumOf(r, s)
      BY <2>2, <2>4, <3>1
    <3>3. SumOf(r, s \cup {x}) \in Nat /\ SumOf(r, s \cup {x}) <= (k - 1) * Cardinality(Some(s \cup {x}))
      BY <2>4, <3>1, <3>2, Zenon
    <3> QED
      BY <3>3
  <2> QED
    BY <2>5, <2>6
<1> HIDE DEF P
<1>3. S \in P
  BY <1>1, <1>2, SetInduction
<1> QED
  BY <1>3 DEF P

\* A sum of ones counts.
LEMMA SumOfOnes ==
    ASSUME NEW S, IsFiniteSet(S), NEW T \in SUBSET S, NEW f,
           \A x \in S : f[x] = IF x \in T THEN 1 ELSE 0
    PROVE  SumOf(f, S) = Cardinality(T)
<1> DEFINE P == {s \in SUBSET S : SumOf(f, s) = Cardinality(s \cap T)}
<1>1. {} \in P
  <2>1. {} \cap T = {} /\ Cardinality({}) = 0
    BY FS_EmptySet
  <2> QED
    BY <2>1, SumOfNone
<1>2. ASSUME NEW s \in SUBSET S, s \in P, NEW x \in S \ s PROVE s \cup {x} \in P
  <2>1. IsFiniteSet(s) /\ Numbers(f, s \cup {x}) /\ f[x] = IF x \in T THEN 1 ELSE 0
    BY FS_Subset DEF Numbers
  <2>2. SumOf(f, s \cup {x}) = f[x] + SumOf(f, s)
    BY <2>1, SumWithOne
  <2>3. IsFiniteSet(s \cap T) /\ Cardinality(s \cap T) \in Nat /\ x \notin s \cap T
    BY <2>1, FS_Subset, FS_CardinalityType
  <2>4. Cardinality((s \cup {x}) \cap T) = f[x] + Cardinality(s \cap T)
    <3>1. CASE x \in T
      <4>1. (s \cup {x}) \cap T = (s \cap T) \cup {x}
        BY <3>1
      <4>2. Cardinality((s \cap T) \cup {x}) = Cardinality(s \cap T) + 1
        BY <2>3, FS_AddElement
      <4>3. f[x] = 1
        BY <2>1, <3>1
      <4>4. Cardinality((s \cup {x}) \cap T) = Cardinality(s \cap T) + 1
        BY <4>1, <4>2, Zenon
      <4> QED
        BY <2>3, <4>3, <4>4
    <3>2. CASE x \notin T
      <4>1. (s \cup {x}) \cap T = s \cap T
        BY <3>2
      <4>3. f[x] = 0
        BY <2>1, <3>2
      <4>4. Cardinality((s \cup {x}) \cap T) = Cardinality(s \cap T)
        BY <4>1, Zenon
      <4> QED
        BY <2>3, <4>3, <4>4
    <3> QED
      BY <3>1, <3>2
  <2> QED
    BY <1>2, <2>2, <2>4
<1> HIDE DEF P
<1>3. S \in P
  BY <1>1, <1>2, SetInduction
<1>4. S \cap T = T
  OBVIOUS
<1> QED
  BY <1>3, <1>4 DEF P

\* Who adds nothing may be left out.
LEMMA SumOfOthers ==
    ASSUME NEW S, IsFiniteSet(S), NEW T \in SUBSET S, NEW f, Numbers(f, S),
           \A x \in S \ T : f[x] = 0
    PROVE  SumOf(f, S) = SumOf(f, T)
<1> DEFINE P == {s \in SUBSET S : SumOf(f, s) = SumOf(f, s \cap T)}
<1>1. {} \in P
  <2>1. {} \cap T = {}
    OBVIOUS
  <2> QED
    BY <2>1
<1>2. ASSUME NEW s \in SUBSET S, s \in P, NEW x \in S \ s PROVE s \cup {x} \in P
  <2>1. /\ IsFiniteSet(s) /\ Numbers(f, s \cup {x}) /\ IsFiniteSet(s \cap T)
        /\ x \notin s \cap T /\ Numbers(f, (s \cap T) \cup {x})
    BY FS_Subset DEF Numbers
  <2>2. SumOf(f, s \cup {x}) = f[x] + SumOf(f, s) /\ SumOf(f, s) \in Int /\ f[x] \in Int
    BY <2>1, SumWithOne
  <2>3. SumOf(f, s) = SumOf(f, s \cap T)
    BY <1>2
  <2>4. CASE x \in T
    <3>1. (s \cup {x}) \cap T = (s \cap T) \cup {x}
      BY <2>4
    <3>2. SumOf(f, (s \cap T) \cup {x}) = f[x] + SumOf(f, s \cap T)
      BY <2>1, SumWithOne
    <3>3. SumOf(f, s \cup {x}) = SumOf(f, (s \cup {x}) \cap T)
      BY <2>2, <2>3, <3>1, <3>2, Zenon
    <3> QED
      BY <3>3
  <2>5. CASE x \notin T
    <3>1. (s \cup {x}) \cap T = s \cap T /\ f[x] = 0
      BY <2>5
    <3>2. SumOf(f, s \cup {x}) = SumOf(f, s)
      BY <2>2, <3>1
    <3>3. SumOf(f, s \cup {x}) = SumOf(f, (s \cup {x}) \cap T)
      BY <2>3, <3>1, <3>2, Zenon
    <3> QED
      BY <3>3
  <2> QED
    BY <2>4, <2>5
<1> HIDE DEF P
<1>3. S \in P
  BY <1>1, <1>2, SetInduction
<1>4. S \cap T = T
  OBVIOUS
<1> QED
  BY <1>3, <1>4 DEF P

\* A sum of naturals is a natural.
LEMMA SumIsNat ==
    ASSUME NEW f, NEW S, IsFiniteSet(S), \A x \in S : f[x] \in Nat
    PROVE  SumOf(f, S) \in Nat
<1> DEFINE P == {s \in SUBSET S : SumOf(f, s) \in Nat}
<1>1. {} \in P
  BY SumOfNone
<1>2. ASSUME NEW s \in SUBSET S, s \in P, NEW x \in S \ s PROVE s \cup {x} \in P
  <2>1. IsFiniteSet(s) /\ Numbers(f, s \cup {x}) /\ f[x] \in Nat
    BY FS_Subset DEF Numbers
  <2>2. SumOf(f, s \cup {x}) = f[x] + SumOf(f, s)
    BY <2>1, SumWithOne
  <2> QED
    BY <1>2, <2>1, <2>2
<1> HIDE DEF P
<1>3. S \in P
  BY <1>1, <1>2, SetInduction
<1> QED
  BY <1>3 DEF P

\* What parties hold, added up, is what the transfers say, added up.
PartOf(n, of, s, q) == SumOf(n, {t \in s : of[t] = q})
LEMMA SumOfParts ==
    ASSUME NEW F, IsFiniteSet(F), NEW Q, IsFiniteSet(Q), NEW n, NEW of,
           \A t \in F : n[t] \in Nat /\ of[t] \in Q
    PROVE  SumOf([q \in Q |-> PartOf(n, of, F, q)], Q) = SumOf(n, F)
<1> DEFINE parts(s) == [q \in Q |-> PartOf(n, of, s, q)]
           P == {s \in SUBSET F : SumOf(parts(s), Q) = SumOf(n, s)}
<1>1. {} \in P
  <2>1. \A q \in Q : parts({})[q] = 0
    <3>1. \A q : {t \in {} : of[t] = q} = {}
      OBVIOUS
    <3> QED
      BY <3>1, SumOfNone DEF PartOf
  <2>2. SumOf(parts({}), Q) = SumOf(parts({}), {})
    <3>1. Numbers(parts({}), Q) /\ {} \in SUBSET Q /\ \A q \in Q \ {} : parts({})[q] = 0
      BY <2>1 DEF Numbers
    <3> HIDE DEF parts
    <3> QED
      BY <3>1, SumOfOthers
  <2> QED
    BY <2>2, SumOfNone
<1>2. ASSUME NEW s \in SUBSET F, s \in P, NEW u \in F \ s PROVE s \cup {u} \in P
  <2> DEFINE q == of[u]
  <2>1. IsFiniteSet(s) /\ q \in Q /\ n[u] \in Nat /\ IsFiniteSet(s \cup {u})
    BY FS_Subset, FS_AddElement
  <2>2. ASSUME NEW v \in SUBSET F PROVE \A p \in Q : parts(v)[p] \in Nat
    <3> SUFFICES ASSUME NEW p \in Q PROVE PartOf(n, of, v, p) \in Nat
      OBVIOUS
    <3>1. IsFiniteSet({t \in v : of[t] = p}) /\ \A t \in {t \in v : of[t] = p} : n[t] \in Nat
      BY FS_Subset
    <3> QED
      BY <3>1, SumIsNat DEF PartOf
  <2>3. Numbers(parts(s), Q) /\ Numbers(parts(s \cup {u}), Q)
    BY <2>2 DEF Numbers
  <2>4. \A p \in Q \ {q} : parts(s \cup {u})[p] = parts(s)[p]
    <3> SUFFICES ASSUME NEW p \in Q, p # q
                 PROVE  PartOf(n, of, s \cup {u}, p) = PartOf(n, of, s, p)
      OBVIOUS
    <3>1. {t \in s \cup {u} : of[t] = p} = {t \in s : of[t] = p}
      OBVIOUS
    <3> QED
      BY <3>1 DEF PartOf
  <2>5. parts(s \cup {u})[q] = n[u] + parts(s)[q]
    <3> DEFINE old == {t \in s : of[t] = q}
    <3>1. {t \in s \cup {u} : of[t] = q} = old \cup {u}
      OBVIOUS
    <3>2. IsFiniteSet(old) /\ u \notin old /\ Numbers(n, old \cup {u})
      BY <2>1, FS_Subset DEF Numbers
    <3> HIDE DEF old
    <3>3. SumOf(n, old \cup {u}) = n[u] + SumOf(n, old)
      BY <3>2, SumWithOne
    <3>4. PartOf(n, of, s \cup {u}, q) = n[u] + PartOf(n, of, s, q)
      BY <3>1, <3>3, Zenon DEF PartOf, old
    <3> QED
      BY <2>1, <3>4
  <2> HIDE DEF parts, q
  <2>6. /\ SumOf(parts(s), Q) = parts(s)[q] + SumOf(parts(s), Q \ {q})
        /\ SumOf(parts(s \cup {u}), Q) = parts(s \cup {u})[q] + SumOf(parts(s \cup {u}), Q \ {q})
    BY <2>1, <2>3, SumSplit
  <2>7. SumOf(parts(s \cup {u}), Q \ {q}) = SumOf(parts(s), Q \ {q}) /\ SumOf(parts(s), Q \ {q}) \in Int
    <3>1. IsFiniteSet(Q \ {q}) /\ Numbers(parts(s), Q \ {q}) /\ Numbers(parts(s \cup {u}), Q \ {q})
      BY <2>3, FS_RemoveElement DEF Numbers
    <3> QED
      BY <2>4, <3>1, SumOfSame, SumIsInt
  <2>8. SumOf(n, s \cup {u}) = n[u] + SumOf(n, s) /\ SumOf(n, s) \in Int
    <3>1. Numbers(n, s \cup {u})
      BY DEF Numbers
    <3> QED
      BY <2>1, <3>1, SumWithOne
  <2>9. SumOf(parts(s), Q) = SumOf(n, s) /\ parts(s)[q] \in Int
    BY <1>2, <2>1, <2>3 DEF Numbers
  <2>10. SumOf(parts(s \cup {u}), Q) = SumOf(n, s \cup {u})
    BY <2>1, <2>5, <2>6, <2>7, <2>8, <2>9
  <2> QED
    BY <2>10
<1> HIDE DEF P
<1>3. F \in P
  BY <1>1, <1>2, SetInduction
<1> QED
  BY <1>3 DEF P

\* A sum, split in two.
LEMMA SumOfTwo ==
    ASSUME NEW f, NEW S, IsFiniteSet(S), Numbers(f, S), NEW T \in SUBSET S
    PROVE  SumOf(f, S) = SumOf(f, T) + SumOf(f, S \ T) /\ SumOf(f, T) \in Int /\ SumOf(f, S \ T) \in Int
<1> DEFINE g == [x \in S |-> IF x \in T THEN f[x] ELSE 0]
           h == [x \in S |-> IF x \in T THEN 0 ELSE f[x]]
           U == S \ T
<1>1. /\ Numbers(g, S) /\ Numbers(h, S) /\ Numbers(f, T) /\ Numbers(f, U)
      /\ \A x \in S : f[x] = g[x] + h[x]
      /\ \A x \in T : f[x] = g[x]
      /\ \A x \in U : f[x] = h[x]
      /\ \A x \in S \ T : g[x] = 0
      /\ \A x \in S \ U : h[x] = 0
  BY DEF Numbers
<1>2. U \in SUBSET S
  OBVIOUS
<1> HIDE DEF g, h, U
<1>3. IsFiniteSet(T) /\ IsFiniteSet(U)
  BY <1>2, FS_Subset
<1>4. SumOf(f, S) = SumOf(g, S) + SumOf(h, S)
  BY <1>1, SumOfPairs
<1>5. SumOf(g, S) = SumOf(g, T)
  BY <1>1, SumOfOthers
<1>6. SumOf(h, S) = SumOf(h, U)
  BY <1>1, <1>2, SumOfOthers
<1>7. SumOf(f, T) = SumOf(g, T)
  BY <1>1, <1>3, SumOfSame
<1>8. SumOf(f, U) = SumOf(h, U)
  BY <1>1, <1>3, SumOfSame
<1>9. SumOf(f, T) \in Int /\ SumOf(f, U) \in Int
  BY <1>1, <1>3, SumIsInt
<1>10. SumOf(f, S) = SumOf(f, T) + SumOf(f, U)
  BY <1>4, <1>5, <1>6, <1>7, <1>8
<1> QED
  BY <1>9, <1>10 DEF U

-----------------------------------------------------------------------------
(* Numbers and finite sets *)

\* The least and the greatest of some numbers.
LEMMA MinIs ==
    ASSUME NEW S \in SUBSET Nat, S # {}
    PROVE  Min(S) \in S /\ \A x \in S : Min(S) <= x
<1>1. \E m \in S : \A n \in S : m <= n
  BY LeastOf
<1> QED
  BY <1>1 DEF Min

LEMMA MaxIs ==
    ASSUME NEW S \in SUBSET Nat, S # {}, IsFiniteSet(S)
    PROVE  Max(S) \in S /\ \A x \in S : x <= Max(S)
<1> DEFINE P == {s \in SUBSET S : s = {} \/ \E m \in s : \A n \in s : n <= m}
<1>1. {} \in P
  OBVIOUS
<1>2. ASSUME NEW s \in SUBSET S, s \in P, NEW x \in S \ s PROVE s \cup {x} \in P
  <2>1. CASE s = {}
    BY <2>1
  <2>2. CASE s # {}
    <3>1. PICK m \in s : \A n \in s : n <= m
      BY <1>2, <2>2
    <3>2. CASE x <= m
      BY <3>1, <3>2
    <3>3. CASE m <= x
      <4>1. \A n \in s \cup {x} : n <= x
        BY <3>1, <3>3
      <4> QED
        BY <4>1
    <3> QED
      BY <3>2, <3>3
  <2> QED
    BY <2>1, <2>2
<1> HIDE DEF P
<1>3. S \in P
  BY <1>1, <1>2, SetInduction
<1>4. \E m \in S : \A n \in S : m >= n
  BY <1>3 DEF P
<1> QED
  BY <1>4 DEF Max

\* What a function gives to the members of a finite set is finite.
LEMMA ImageIsFinite ==
    ASSUME NEW S, IsFiniteSet(S), NEW f
    PROVE  IsFiniteSet({f[x] : x \in S})
<1> DEFINE P == {s \in SUBSET S : IsFiniteSet({f[x] : x \in s})}
<1>1. {} \in P
  <2>1. {f[x] : x \in {}} = {}
    OBVIOUS
  <2> QED
    BY <2>1, FS_EmptySet
<1>2. ASSUME NEW s \in SUBSET S, s \in P, NEW y \in S \ s PROVE s \cup {y} \in P
  <2>1. {f[x] : x \in s \cup {y}} = {f[x] : x \in s} \cup {f[y]}
    OBVIOUS
  <2>2. IsFiniteSet({f[x] : x \in s} \cup {f[y]})
    BY <1>2, FS_AddElement
  <2> QED
    BY <2>1, <2>2
<1> HIDE DEF P
<1>3. S \in P
  BY <1>1, <1>2, SetInduction
<1> QED
  BY <1>3 DEF P

\* Order and multiplication.
LEMMA Scaled ==
    ASSUME NEW a \in Int, NEW b \in Int, NEW c \in Nat, a <= b
    PROVE  a * c <= b * c /\ c * a <= c * b
<1>1. (b - a) * c \in Nat /\ (b - a) * c = b * c - a * c /\ c * a = a * c /\ c * b = b * c
  OBVIOUS
<1>2. b * c \in Int /\ a * c \in Int
  OBVIOUS
<1> QED
  BY <1>1, <1>2

\* Division with a remainder.
LEMMA DivisionIs ==
    ASSUME NEW a \in Nat, NEW b \in Nat \ {0}
    PROVE  a \div b \in Nat /\ (a % b) \in 0..(b - 1) /\ b * (a \div b) + (a % b) = a
OBVIOUS

\* What holds of a number when it holds of all smaller ones holds of all numbers up to any.
LEMMA UpToInduction ==
    ASSUME NEW N \in Nat, NEW P,
           ASSUME NEW n \in 0..N, \A m \in 0..N : m < n => m \in P
           PROVE  n \in P
    PROVE  \A n \in 0..N : n \in P
<1> DEFINE Bad == {n \in Nat : n <= N /\ n \notin P}
<1> SUFFICES ASSUME Bad # {} PROVE FALSE
  OBVIOUS
<1>1. PICK m \in Bad : \A n \in Bad : m <= n
  BY LeastOf
<1>2. m \in 0..N /\ \A n \in 0..N : n < m => n \in P
  BY <1>1
<1> QED
  BY <1>1, <1>2

\* The steps of a recursion over numbers, which look at smaller numbers only.
IsRecursion(D, V, step) ==
    /\ step \in [D -> [[D -> V] -> V]]
    /\ \A n \in D : \A g, h \in [D -> V] :
          (\A m \in D : m < n => g[m] = h[m]) => step[n][g] = step[n][h]

\* f follows them.
Solves(f, D, V, step) == f \in [D -> V] /\ \A n \in D : f[n] = step[n][f]
LEMMA RecursionExists ==
    ASSUME NEW N \in Nat, NEW D, D = 0..N, NEW V, V # {}, NEW step, IsRecursion(D, V, step)
    PROVE  \E f : Solves(f, D, V, step)
<1> DEFINE P == {n \in D : \E f \in [D -> V] : \A m \in D : m <= n => f[m] = step[m][f]}
<1>0. /\ step \in [D -> [[D -> V] -> V]]
      /\ \A n \in D : \A g, h \in [D -> V] :
            (\A m \in D : m < n => g[m] = h[m]) => step[n][g] = step[n][h]
  BY DEF IsRecursion
<1>1. N \in D /\ \A n \in D : n \in Nat /\ n <= N
  OBVIOUS
<1>2. ASSUME NEW n \in D, \A m \in D : m < n => m \in P PROVE n \in P
  <2>1. PICK f \in [D -> V] : \A m \in D : m < n => f[m] = step[m][f]
    <3>1. CASE n = 0
      <4>1. PICK v : v \in V
        OBVIOUS
      <4>2. [m \in D |-> v] \in [D -> V] /\ \A m \in D : ~(m < n)
        BY <1>1, <3>1, <4>1
      <4> QED
        BY <4>2
    <3>2. CASE n # 0
      <4>1. n - 1 \in D /\ n - 1 < n /\ \A m \in D : m < n => m <= n - 1
        BY <1>1, <3>2
      <4>2. n - 1 \in P
        BY <1>2, <4>1
      <4> QED
        BY <4>1, <4>2
    <3> QED
      BY <3>1, <3>2
  <2> DEFINE h == [f EXCEPT ![n] = step[n][f]]
  <2>2. step[n][f] \in V
    BY <1>0
  <2>3. h \in [D -> V] /\ h[n] = step[n][f] /\ \A m \in D : m # n => h[m] = f[m]
    BY <2>2
  <2> HIDE DEF h
  <2>4. ASSUME NEW m \in D, m <= n PROVE h[m] = step[m][h]
    <3>1. \A k \in D : k < m => f[k] = h[k]
      BY <1>1, <2>3, <2>4
    <3>2. step[m][f] = step[m][h]
      BY <1>0, <2>3, <3>1
    <3>3. CASE m = n
      BY <2>3, <3>2, <3>3
    <3>4. CASE m # n
      BY <1>1, <2>1, <2>3, <2>4, <3>2, <3>4
    <3> QED
      BY <3>3, <3>4
  <2> QED
    BY <2>3, <2>4
<1>3. N \in P
  <2> HIDE DEF P
  <2>1. \A n \in 0..N : n \in P
    BY <1>2, UpToInduction
  <2> QED
    BY <1>1, <2>1
<1> QED
  BY <1>1, <1>3 DEF Solves

\* A finite set of numbers, negative ones too, has a least member.
LEMMA IntMinIs ==
    ASSUME NEW S \in SUBSET Int, S # {}, IsFiniteSet(S)
    PROVE  Min(S) \in S /\ \A x \in S : Min(S) <= x
<1> DEFINE P == {s \in SUBSET S : s = {} \/ \E m \in s : \A n \in s : m <= n}
<1>1. {} \in P
  OBVIOUS
<1>2. ASSUME NEW s \in SUBSET S, s \in P, NEW x \in S \ s PROVE s \cup {x} \in P
  <2>1. CASE s = {}
    BY <2>1
  <2>2. CASE s # {}
    <3>1. PICK m \in s : \A n \in s : m <= n
      BY <1>2, <2>2
    <3>2. CASE x < m
      BY <3>1, <3>2
    <3>3. CASE ~(x < m)
      BY <3>1, <3>3
    <3> QED
      BY <3>2, <3>3
  <2> QED
    BY <2>1, <2>2
<1>3. S \in P
  <2> HIDE DEF P
  <2> QED
    BY <1>1, <1>2, SetInduction
<1> QED
  BY <1>3 DEF Min

\* A function that is zero but at one place sums to what it is there.
LEMMA SumOfOne ==
    ASSUME NEW S, IsFiniteSet(S), NEW f, NEW x, \A y \in S : y # x => f[y] = 0,
           x \in S => f[x] \in Int
    PROVE  SumOf(f, S) = IF x \in S THEN f[x] ELSE 0
<1> DEFINE T == S \cap {x}
<1>1. Numbers(f, S) /\ T \in SUBSET S /\ \A y \in S \ T : f[y] = 0
  BY DEF Numbers
<1>2. SumOf(f, S) = SumOf(f, T)
  <2> HIDE DEF T
  <2> QED
    BY <1>1, SumOfOthers
<1>3. CASE x \in S
  <2>1. T = {x} /\ {x} = {} \cup {x} /\ IsFiniteSet({}) /\ Numbers(f, {} \cup {x}) /\ x \notin {}
    BY <1>3, FS_EmptySet DEF Numbers
  <2>2. SumOf(f, {} \cup {x}) = f[x] + SumOf(f, {})
    BY <2>1, SumWithOne
  <2> QED
    BY <1>2, <1>3, <2>1, <2>2, SumOfNone
<1>4. CASE x \notin S
  <2>1. T = {}
    BY <1>4
  <2> QED
    BY <1>2, <1>4, <2>1, SumOfNone
<1> QED
  BY <1>3, <1>4

\* Summands may be given other names, no two of them the same one.
LEMMA SumRenamed ==
    ASSUME NEW S, IsFiniteSet(S), NEW f, NEW g, NEW name, Numbers(f, S),
           \A x \in S : f[x] = g[name[x]],
           \A x, y \in S : name[x] = name[y] => x = y
    PROVE  SumOf(f, S) = SumOf(g, {name[x] : x \in S})
<1> DEFINE P == {s \in SUBSET S : SumOf(f, s) = SumOf(g, {name[x] : x \in s})}
<1>1. {} \in P
  <2>1. {name[x] : x \in {}} = {}
    OBVIOUS
  <2> QED
    BY <2>1, SumOfNone
<1>2. ASSUME NEW s \in SUBSET S, s \in P, NEW x \in S \ s PROVE s \cup {x} \in P
  <2> DEFINE N == {name[y] : y \in s}
  <2>1. IsFiniteSet(s) /\ IsFiniteSet(N) /\ Numbers(f, s \cup {x})
    BY FS_Subset, ImageIsFinite DEF Numbers
  <2>2. name[x] \notin N /\ Numbers(g, N \cup {name[x]})
    BY DEF Numbers
  <2>3. {name[y] : y \in s \cup {x}} = N \cup {name[x]}
    OBVIOUS
  <2>4. SumOf(f, s) = SumOf(g, N)
    BY <1>2
  <2> HIDE DEF N
  <2>5. SumOf(f, s \cup {x}) = f[x] + SumOf(f, s)
    BY <2>1, SumWithOne
  <2>6. SumOf(g, N \cup {name[x]}) = g[name[x]] + SumOf(g, N)
    BY <2>1, <2>2, SumWithOne
  <2> QED
    BY <2>3, <2>4, <2>5, <2>6
<1>3. S \in P
  <2> HIDE DEF P
  <2> QED
    BY <1>1, <1>2, SetInduction
<1> QED
  BY <1>3

\* A sum is as large as its summands are.
LEMMA SumRises ==
    ASSUME NEW S, IsFiniteSet(S), NEW f, NEW g, Numbers(f, S), Numbers(g, S),
           \A x \in S : f[x] <= g[x]
    PROVE  SumOf(f, S) <= SumOf(g, S)
<1> DEFINE P == {s \in SUBSET S : SumOf(f, s) <= SumOf(g, s)}
<1>1. {} \in P
  BY SumOfNone
<1>2. ASSUME NEW s \in SUBSET S, s \in P, NEW x \in S \ s PROVE s \cup {x} \in P
  <2>1. IsFiniteSet(s) /\ Numbers(f, s \cup {x}) /\ Numbers(g, s \cup {x}) /\ f[x] <= g[x]
    BY FS_Subset DEF Numbers
  <2>2. /\ SumOf(f, s \cup {x}) = f[x] + SumOf(f, s) /\ SumOf(f, s) \in Int /\ f[x] \in Int
        /\ SumOf(g, s \cup {x}) = g[x] + SumOf(g, s) /\ SumOf(g, s) \in Int /\ g[x] \in Int
    BY <2>1, SumWithOne
  <2> QED
    BY <1>2, <2>1, <2>2
<1>3. S \in P
  <2> HIDE DEF P
  <2> QED
    BY <1>1, <1>2, SetInduction
<1> QED
  BY <1>3
\* What is rounded is within a half, and on the half it is even.
LEMMA HalfEvenIs ==
    ASSUME NEW a \in Nat, NEW b \in Nat \ {0}
    PROVE  LET q == HalfEven(a, b)
           IN /\ q \in Nat
              /\ 2 * a - b <= 2 * (q * b) /\ 2 * (q * b) <= 2 * a + b
              /\ 2 * (q * b) \in {2 * a - b, 2 * a + b} => q % 2 = 0
<1> DEFINE k == a \div b
           r == a % b
           q == HalfEven(a, b)
<1>1. k \in Nat /\ r \in Nat /\ b * k + r = a /\ r < b
  BY DivisionIs
<1>2. q = IF 2 * r > b \/ (2 * r = b /\ k % 2 = 1) THEN k + 1 ELSE k
  BY DEF HalfEven
<1> HIDE DEF q, k, r
<1>3. k * b \in Int /\ (k + 1) * b = k * b + b /\ a = k * b + r
  BY <1>1
<1> DEFINE Rounded == /\ q \in Nat /\ 2 * a - b <= 2 * (q * b) /\ 2 * (q * b) <= 2 * a + b
                      /\ 2 * (q * b) \in {2 * a - b, 2 * a + b} => q % 2 = 0
<1>4. ASSUME q = k /\ (2 * r < b \/ (2 * r = b /\ k % 2 # 1))
      PROVE  Rounded
  <2>1. 2 * (q * b) = 2 * a - 2 * r
    BY <1>1, <1>3, <1>4
  <2>2. k % 2 # 1 => k % 2 = 0
    BY <1>1
  <2>3. 2 * a - 2 * r = 2 * a + b => FALSE
    BY <1>1
  <2>4. 2 * a - 2 * r = 2 * a - b => 2 * r = b
    BY <1>1
  <2>5. 2 * a - b <= 2 * a - 2 * r /\ 2 * a - 2 * r <= 2 * a + b
    BY <1>1, <1>4
  <2>6. 2 * (q * b) \in {2 * a - b, 2 * a + b} => q % 2 = 0
    BY <1>1, <1>4, <2>1, <2>2, <2>3, <2>4
  <2> QED
    BY <1>1, <1>4, <2>1, <2>5, <2>6
<1>5. ASSUME q = k + 1 /\ (2 * r > b \/ (2 * r = b /\ k % 2 = 1))
      PROVE  Rounded
  <2>1. 2 * (q * b) = 2 * a - 2 * r + 2 * b
    BY <1>1, <1>3, <1>5
  <2>2. k % 2 = 1 => (k + 1) % 2 = 0
    BY <1>1
  <2>3. 2 * a - 2 * r + 2 * b = 2 * a - b => FALSE
    BY <1>1
  <2>4. 2 * a - 2 * r + 2 * b = 2 * a + b => 2 * r = b
    BY <1>1
  <2>5. 2 * a - b <= 2 * a - 2 * r + 2 * b /\ 2 * a - 2 * r + 2 * b <= 2 * a + b
    BY <1>1, <1>5
  <2>6. 2 * (q * b) \in {2 * a - b, 2 * a + b} => q % 2 = 0
    BY <1>1, <1>5, <2>1, <2>2, <2>3, <2>4
  <2> QED
    BY <1>1, <1>5, <2>1, <2>5, <2>6
<1>6. \/ q = k /\ (2 * r < b \/ (2 * r = b /\ k % 2 # 1))
      \/ q = k + 1 /\ (2 * r > b \/ (2 * r = b /\ k % 2 = 1))
  BY <1>1, <1>2
<1>7. Rounded
  BY <1>4, <1>5, <1>6
<1> QED
  BY <1>7 DEF q

\* A fraction that is not less is not rounded to less.
LEMMA HalfEvenRises ==
    ASSUME NEW a \in Nat, NEW b \in Nat \ {0}, NEW c \in Nat, NEW d \in Nat \ {0}, a * d <= c * b
    PROVE  HalfEven(a, b) \in Nat /\ HalfEven(c, d) \in Nat /\ HalfEven(a, b) <= HalfEven(c, d)
<1> DEFINE p == HalfEven(a, b)
           q == HalfEven(c, d)
<1>1. /\ p \in Nat /\ 2 * (p * b) <= 2 * a + b
      /\ 2 * (p * b) = 2 * a + b => p % 2 = 0
  BY HalfEvenIs
<1>2. /\ q \in Nat /\ 2 * c - d <= 2 * (q * d)
      /\ 2 * (q * d) = 2 * c - d => q % 2 = 0
  BY HalfEvenIs
<1> HIDE DEF p, q
<1>3. ASSUME p > q PROVE FALSE
  <2> DEFINE m == 2 * p - 1
             n == 2 * q + 1
  <2>1. m \in Int /\ n \in Int /\ n <= m /\ (m = n => p = q + 1)
    BY <1>1, <1>2, <1>3
  <2>2. m * b <= 2 * a
    BY <1>1
  <2>3. 2 * c <= n * d
    BY <1>2
  <2> DEFINE e == b * d
  <2>4. e \in Nat \ {0}
    OBVIOUS
  <2>5. m * b \in Int /\ n * d \in Int /\ (m * b) * d <= (2 * a) * d /\ (2 * c) * b <= (n * d) * b
    BY <2>1, <2>2, <2>3, Scaled
  <2>6. (m * b) * d = m * e /\ (n * d) * b = n * e /\ m * e \in Int /\ n * e \in Int
    BY <2>1
  <2>7. (2 * a) * d = 2 * (a * d) /\ (2 * c) * b = 2 * (c * b) /\ a * d \in Int /\ c * b \in Int
    OBVIOUS
  <2>8. n * e <= m * e
    BY <2>1, <2>4, Scaled
  <2>9. m * e <= 2 * (a * d) /\ 2 * (a * d) <= 2 * (c * b) /\ 2 * (c * b) <= n * e
    BY <2>5, <2>6, <2>7
  <2>10. m * e = n * e /\ m * e = 2 * (a * d) /\ n * e = 2 * (c * b)
    BY <2>6, <2>7, <2>8, <2>9
  <2>11. m = n
    <3>1. (m - n) * e = 0
      BY <2>1, <2>4, <2>6, <2>10
    <3> QED
      BY <2>1, <2>4, <3>1
  <2>12. m * b = 2 * a
    <3>1. (m * b - 2 * a) * d = 0
      BY <2>5, <2>6, <2>7, <2>10
    <3>2. m * b - 2 * a \in Int
      BY <2>5
    <3> QED
      BY <2>5, <3>1, <3>2
  <2>13. n * d = 2 * c
    <3>1. (n * d - 2 * c) * b = 0
      BY <2>5, <2>6, <2>7, <2>10
    <3>2. n * d - 2 * c \in Int
      BY <2>5
    <3> QED
      BY <2>5, <3>1, <3>2
  <2>14. p % 2 = 0 /\ q % 2 = 0
    <3>1. 2 * (p * b) = 2 * a + b
      BY <1>1, <2>12
    <3>2. 2 * (q * d) = 2 * c - d
      BY <1>2, <2>13
    <3> QED
      BY <1>1, <1>2, <3>1, <3>2
  <2>15. p = q + 1
    BY <2>1, <2>11
  <2> QED
    BY <1>1, <1>2, <2>14, <2>15
<1>4. p <= q
  BY <1>1, <1>2, <1>3
<1> QED
  BY <1>1, <1>2, <1>4 DEF p, q

\* A whole number that is not passed before rounding is not passed after.
LEMMA HalfEvenAtMost ==
    ASSUME NEW a \in Nat, NEW b \in Nat \ {0}, NEW c \in Nat, a <= c * b
    PROVE  HalfEven(a, b) \in Nat /\ HalfEven(a, b) <= c
<1> DEFINE q == HalfEven(a, b)
<1>1. q \in Nat /\ 2 * (q * b) <= 2 * a + b
  BY HalfEvenIs
<1> HIDE DEF q
<1>2. ASSUME c + 1 <= q PROVE FALSE
  <2>1. (c + 1) * b <= q * b /\ (c + 1) * b = c * b + b /\ q * b \in Int /\ c * b \in Int
    BY <1>1, <1>2, Scaled
  <2> QED
    BY <1>1, <2>1
<1>3. q <= c
  BY <1>1, <1>2
<1> QED
  BY <1>1, <1>3 DEF q


\* Under an order of a finite set, some member has as many before it as there may be.
LEMMA RankIs ==
    ASSUME NEW S, IsFiniteSet(S), NEW R,
           \A x \in S : <<x, x>> \notin R,
           \A x, y, z \in S : <<x, y>> \in R /\ <<y, z>> \in R => <<x, z>> \in R,
           \A x, y \in S : x = y \/ <<x, y>> \in R \/ <<y, x>> \in R
    PROVE  \A n \in 1..Cardinality(S) : \E x \in S : Cardinality({y \in S : <<y, x>> \in R}) = n - 1
<1> DEFINE below(x) == {y \in S : <<y, x>> \in R}
           N == Cardinality(S)
           T == 0..(N - 1)
           r == [x \in S |-> Cardinality(below(x))]
<1>1. N \in Nat
  BY FS_CardinalityType
<1>2. ASSUME NEW x \in S
      PROVE  IsFiniteSet(below(x)) /\ Cardinality(below(x)) \in Nat /\ Cardinality(below(x)) < N
  <2>1. below(x) \in SUBSET S /\ below(x) # S
    OBVIOUS
  <2> HIDE DEF below
  <2> QED
    BY <1>1, <2>1, FS_Subset, FS_CardinalityType
<1>3. ASSUME NEW x \in S, NEW z \in S, <<x, z>> \in R PROVE Cardinality(below(x)) < Cardinality(below(z))
  <2>1. below(x) \in SUBSET below(z) /\ x \in below(z) /\ x \notin below(x)
    BY <1>3
  <2> HIDE DEF below
  <2> QED
    BY <1>2, <2>1, FS_Subset
<1>4. IsFiniteSet(T) /\ Cardinality(T) = N
  <2> DEFINE b == N - 1
  <2>1. b \in Int /\ 0 \in Int /\ T = 0..b /\ (IF 0 > b THEN 0 ELSE b - 0 + 1) = N
    BY <1>1
  <2> HIDE DEF b, T, N
  <2> QED
    BY <2>1, FS_Interval
<1>5. r \in [S -> T]
  <2>1. ASSUME NEW x \in S PROVE Cardinality(below(x)) \in T
    <3> DEFINE c == Cardinality(below(x))
    <3>1. c \in Nat /\ c < N
      BY <1>2
    <3> HIDE DEF c, N
    <3>2. c \in T
      BY <1>1, <3>1
    <3> QED
      BY <3>2 DEF c
  <2> HIDE DEF below, T
  <2> QED
    BY <2>1
<1>6. \A x, y \in S : r[x] = r[y] => x = y
  <2> TAKE x, y \in S
  <2> HAVE r[x] = r[y]
  <2> SUFFICES ASSUME x # y PROVE FALSE
    OBVIOUS
  <2>1. <<x, y>> \in R \/ <<y, x>> \in R
    OBVIOUS
  <2>2. Cardinality(below(x)) = Cardinality(below(y))
    OBVIOUS
  <2> HIDE DEF below, r
  <2> QED
    BY <1>2, <1>3, <2>1, <2>2
<1> HIDE DEF T, r
<1>7. r \in Injection(S, T)
  BY <1>5, <1>6 DEF Injection, IsInjective
<1>8. r \in Surjection(S, T)
  BY <1>4, <1>7, FS_Injection
<1>9. \A t \in T : \E x \in S : r[x] = t
  BY <1>8 DEF Surjection
<1>10. \A n \in 1..N : n - 1 \in T
  BY <1>1 DEF T
<1> QED
  BY <1>9, <1>10 DEF r

\* The less and the greater of two.
LEMMA OfTwo ==
    ASSUME NEW a \in Int, NEW b \in Int, NEW S, S = {a, b}
    PROVE  /\ Min(S) \in {a, b} /\ Min(S) \in Int /\ Min(S) <= a /\ Min(S) <= b
           /\ Max(S) \in {a, b} /\ Max(S) \in Int /\ a <= Max(S) /\ b <= Max(S)
<1>1. \E m \in S : \A n \in S : m <= n
  BY a <= b \/ b <= a
<1>2. \E m \in S : \A n \in S : n <= m
  BY a <= b \/ b <= a
<1> QED
  BY <1>1, <1>2 DEF Min, Max

=============================================================================
