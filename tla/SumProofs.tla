----------------------------- MODULE SumProofs ------------------------------
(* What the proofs about totals need to know of SumFunctionOnSet, the sum   *)
(* of a function's values over a finite set.  The operator is a recursive   *)
(* function on the subsets of the set, and every fact about it is an        *)
(* induction on them.  An induction principle takes the induction           *)
(* hypothesis as an operator; here it is a minimal counterexample instead:  *)
(* if some subset had not the property, a smallest one would not, and its   *)
(* own strict subsets would.                                                *)
EXTENDS Functions, FiniteSetTheorems, WellFoundedInduction, TLAPS

-----------------------------------------------------------------------------
(* Minimal counterexamples.                                                 *)

\* A set of natural numbers that is not empty has a least element.
LEMMA LeastNumber ==
    ASSUME NEW T \in SUBSET Nat, T # {}
    PROVE  \E m \in T : \A n \in T : m <= n
<1>1. PICK m \in T : \A n \in T : ~ (<<n, m>> \in OpToRel(<, Nat))
  BY NatLessThanWellFounded, WFMin, Zenon
<1>2. \A n \in T : m <= n
  <2>1. SUFFICES ASSUME NEW n \in T, n < m
                 PROVE  FALSE
    OBVIOUS
  <2>2. <<n, m>> \in OpToRel(<, Nat)
    BY <2>1 DEF OpToRel
  <2>3. QED
    BY <1>1, <2>2
<1>3. QED
  BY <1>2

\* A set of subsets of a finite set that is not empty has a smallest element:
\* one of which no strict subset is in the set.
LEMMA SmallestSubset ==
    ASSUME NEW S, IsFiniteSet(S), NEW B \in SUBSET (SUBSET S), B # {}
    PROVE  \E T \in B : \A U \in B : U \subseteq T => U = T
<1>1. IsWellFoundedOn(StrictSubsetOrdering(S), SUBSET S)
  BY FS_StrictSubsetOrderingWellFounded, FS_FiniteSubsetsOfFinite, Zenon
<1>2. PICK T \in B : \A U \in B : ~ (<<U, T>> \in StrictSubsetOrdering(S))
  BY <1>1, WFMin, Zenon
<1>3. \A U \in B : U \subseteq T => U = T
  <2>1. SUFFICES ASSUME NEW U \in B, U \subseteq T, U # T
                 PROVE  <<U, T>> \in StrictSubsetOrdering(S)
    BY <1>2
  <2>2. QED
    BY <2>1 DEF StrictSubsetOrdering
<1>4. QED
  BY <1>3

-----------------------------------------------------------------------------
(* The recursive function behind the sum.                                   *)

Pick(s) == CHOOSE x \in s : TRUE
SumStep(g, f, s) == IF s = {} THEN 0 ELSE f[Pick(s)] + g[s \ {Pick(s)}]
IsSumTable(g, f, S) == g = [s \in SUBSET S |-> SumStep(g, f, s)]
SumTable(f, S) == CHOOSE g : IsSumTable(g, f, S)

LEMMA PickInSet == \A s : s # {} => Pick(s) \in s
BY DEF Pick

\* The community operator, with its folds expanded.
LEMMA SumIsInTable ==
    ASSUME NEW f, NEW S
    PROVE  SumFunctionOnSet(f, S) = SumTable(f, S)[S]
BY DEF SumFunctionOnSet, FoldFunctionOnSet, MapThenFoldSet, SumTable, IsSumTable, SumStep, Pick

\* The recursion is well-founded: a function that satisfies it exists.  It is
\* built on the subsets of at most n elements, for one n after the other.
LEMMA TableExists ==
    ASSUME NEW f, NEW S, IsFiniteSet(S)
    PROVE  \E g : IsSumTable(g, f, S)
<1> DEFINE UpTo(n) == {s \in SUBSET S : Cardinality(s) <= n}
           IsPartial(g, n) == g = [s \in UpTo(n) |-> SumStep(g, f, s)]
           Missing == {n \in Nat : ~ \E g : IsPartial(g, n)}
<1> HIDE DEF UpTo
<1>1. \A s \in SUBSET S : IsFiniteSet(s) /\ Cardinality(s) \in Nat
  BY FS_Subset, FS_CardinalityType
<1>2. Missing = {}
  <2>1. SUFFICES ASSUME Missing # {}
                 PROVE  FALSE
    OBVIOUS
  <2>2. PICK n \in Missing : \A k \in Missing : n <= k
    BY <2>1, LeastNumber
  <2>3. CASE n = 0
    <3> DEFINE g == [s \in UpTo(0) |-> 0]
    <3>1. \A s \in UpTo(0) : s = {}
      BY <1>1, FS_EmptySet DEF UpTo
    <3>2. IsPartial(g, 0)
      BY <3>1 DEF SumStep
    <3>3. QED
      BY <3>2, <2>3, <2>2
  <2>4. CASE n # 0
    <3>1. n - 1 \in Nat /\ n - 1 \notin Missing
      BY <2>2, <2>4
    <3>2. PICK h : IsPartial(h, n - 1)
      BY <3>1
    <3> DEFINE g == [s \in UpTo(n) |-> SumStep(h, f, s)]
    <3>3. \A s \in UpTo(n - 1) : s \in UpTo(n) /\ h[s] = g[s]
      <4>1. UpTo(n - 1) \subseteq UpTo(n)
        BY <3>1, <2>2, <1>1 DEF UpTo
      <4>2. \A s \in UpTo(n - 1) : h[s] = SumStep(h, f, s)
        BY <3>2
      <4>3. QED
        BY <4>1, <4>2
    <3>4. \A s \in UpTo(n) : s # {} => s \ {Pick(s)} \in UpTo(n - 1)
      <4>1. SUFFICES ASSUME NEW s \in UpTo(n), s # {}
                     PROVE  s \ {Pick(s)} \in UpTo(n - 1)
        OBVIOUS
      <4>2. s \in SUBSET S /\ Cardinality(s) <= n
        BY DEF UpTo
      <4>3. Cardinality(s \ {Pick(s)}) = Cardinality(s) - 1
        BY <4>1, <4>2, <1>1, PickInSet, FS_RemoveElement
      <4>4. QED
        BY <4>2, <4>3, <1>1, <2>2 DEF UpTo
    <3>5. \A s \in UpTo(n) : SumStep(h, f, s) = SumStep(g, f, s)
      BY <3>3, <3>4 DEF SumStep
    <3>6. IsPartial(g, n)
      BY <3>5, Zenon
    <3>7. QED
      BY <3>6, <2>2
  <2>5. QED
    BY <2>3, <2>4
<1>3. Cardinality(S) \in Nat /\ UpTo(Cardinality(S)) = SUBSET S
  BY <1>1, FS_Subset, FS_CardinalityType DEF UpTo
<1>4. \E g : IsPartial(g, Cardinality(S))
  BY <1>2, <1>3
<1>5. QED
  BY <1>3, <1>4 DEF IsSumTable

LEMMA TableEquation ==
    ASSUME NEW f, NEW S, IsFiniteSet(S)
    PROVE  \A s \in SUBSET S : SumTable(f, S)[s] = SumStep(SumTable(f, S), f, s)
<1>1. IsSumTable(SumTable(f, S), f, S)
  BY TableExists, Zenon DEF SumTable
<1>2. QED
  BY <1>1 DEF IsSumTable

\* The recursion determines its values, and they depend on nothing but the
\* values of f on the set.
LEMMA TablesAgree ==
    ASSUME NEW f, NEW e, NEW S, NEW g, NEW h, IsFiniteSet(S),
           \A x \in S : f[x] = e[x],
           \A s \in SUBSET S : g[s] = SumStep(g, f, s),
           \A s \in SUBSET S : h[s] = SumStep(h, e, s)
    PROVE  \A s \in SUBSET S : g[s] = h[s]
<1> DEFINE Differ == {s \in SUBSET S : g[s] # h[s]}
<1>1. SUFFICES ASSUME Differ # {}
               PROVE  FALSE
  OBVIOUS
<1>2. PICK T \in Differ : \A U \in Differ : U \subseteq T => U = T
  <2>1. Differ \in SUBSET (SUBSET S)
    OBVIOUS
  <2> HIDE DEF Differ
  <2>2. QED
    BY <1>1, <2>1, SmallestSubset
<1>3. T # {}
  BY <1>2 DEF SumStep
<1>4. Pick(T) \in T
  BY <1>3, PickInSet
<1>5. g[T \ {Pick(T)}] = h[T \ {Pick(T)}]
  BY <1>2, <1>4
<1>6. g[T] = h[T]
  BY <1>2, <1>3, <1>4, <1>5 DEF SumStep
<1>7. QED
  BY <1>2, <1>6

-----------------------------------------------------------------------------
(* The facts the proofs about the contracts cite.                           *)

LEMMA SumEmpty == \A f : SumFunctionOnSet(f, {}) = 0
<1>1. SUFFICES ASSUME NEW f
               PROVE  SumFunctionOnSet(f, {}) = 0
  OBVIOUS
<1>2. SumTable(f, {})[{}] = SumStep(SumTable(f, {}), f, {})
  BY TableEquation, FS_EmptySet
<1>3. QED
  BY <1>2, SumIsInTable DEF SumStep

\* Only the values on the set count.
LEMMA SumSame ==
    ASSUME NEW f, NEW e, NEW S, IsFiniteSet(S), \A x \in S : f[x] = e[x]
    PROVE  SumFunctionOnSet(f, S) = SumFunctionOnSet(e, S)
<1>1. \A s \in SUBSET S : SumTable(f, S)[s] = SumTable(e, S)[s]
  BY TableEquation, TablesAgree
<1>2. QED
  BY <1>1, SumIsInTable

LEMMA SumPick ==
    ASSUME NEW f, NEW S, IsFiniteSet(S), S # {}
    PROVE  SumFunctionOnSet(f, S)
              = f[Pick(S)] + SumFunctionOnSet(f, S \ {Pick(S)})
<1> DEFINE R == S \ {Pick(S)}
<1>1. IsFiniteSet(R) /\ R \in SUBSET S
  BY FS_Subset
<1>2. \A s \in SUBSET R : SumTable(f, S)[s] = SumStep(SumTable(f, S), f, s)
  BY <1>1, TableEquation
<1>3. \A s \in SUBSET R : SumTable(f, R)[s] = SumStep(SumTable(f, R), f, s)
  BY <1>1, TableEquation
<1>4. SumTable(f, S)[R] = SumTable(f, R)[R]
  <2> DEFINE g == SumTable(f, S)
             h == SumTable(f, R)
  <2> HIDE DEF g, h, R
  <2>1. \A s \in SUBSET R : g[s] = h[s]
    BY <1>1, <1>2, <1>3, TablesAgree DEF g, h
  <2>2. QED
    BY <2>1 DEF g, h
<1>5. SumTable(f, S)[S] = f[Pick(S)] + SumTable(f, S)[R]
  BY TableEquation DEF SumStep
<1>6. QED
  BY <1>4, <1>5, SumIsInTable

\* A sum of integers is an integer.
LEMMA SumType ==
    ASSUME NEW f, NEW S, IsFiniteSet(S), \A x \in S : f[x] \in Int
    PROVE  SumFunctionOnSet(f, S) \in Int
<1> DEFINE Bad == {s \in SUBSET S : SumFunctionOnSet(f, s) \notin Int}
<1>1. SUFFICES ASSUME Bad # {}
               PROVE  FALSE
  OBVIOUS
<1>2. PICK T \in Bad : \A U \in Bad : U \subseteq T => U = T
  <2>1. Bad \in SUBSET (SUBSET S)
    OBVIOUS
  <2> HIDE DEF Bad
  <2>2. QED
    BY <1>1, <2>1, SmallestSubset
<1>3. T # {} /\ IsFiniteSet(T)
  <2>1. SumFunctionOnSet(f, {}) \in Int
    BY SumEmpty
  <2>2. QED
    BY <1>2, <2>1, FS_Subset, Zenon
<1>4. Pick(T) \in T
  BY <1>3, PickInSet
<1>5. SumFunctionOnSet(f, T \ {Pick(T)}) \in Int
  BY <1>2, <1>4
<1>6. QED
  BY <1>2, <1>3, <1>4, <1>5, SumPick

\* The order in which the set is gone through does not matter: any element may
\* be taken first.
LEMMA SumRemove ==
    ASSUME NEW f, NEW S, IsFiniteSet(S), \A y \in S : f[y] \in Int, NEW x \in S
    PROVE  SumFunctionOnSet(f, S) = f[x] + SumFunctionOnSet(f, S \ {x})
<1> DEFINE Total(s) == SumFunctionOnSet(f, s)
           Bad == {s \in SUBSET S : \E y \in s : Total(s) # f[y] + Total(s \ {y})}
<1>1. \A s \in SUBSET S : IsFiniteSet(s) /\ Total(s) \in Int
  BY FS_Subset, SumType
<1>2. \A s \in SUBSET S : s # {} => Total(s) = f[Pick(s)] + Total(s \ {Pick(s)})
  BY <1>1, SumPick
<1> HIDE DEF Total
<1>3. SUFFICES ASSUME Bad # {}
               PROVE  FALSE
  BY DEF Total
<1>4. PICK T \in Bad : \A U \in Bad : U \subseteq T => U = T
  <2>1. Bad \in SUBSET (SUBSET S)
    OBVIOUS
  <2> HIDE DEF Bad
  <2>2. QED
    BY <1>3, <2>1, SmallestSubset
<1>5. PICK y \in T : Total(T) # f[y] + Total(T \ {y})
  BY <1>4
<1> DEFINE p == Pick(T)
<1>6. p \in T /\ p # y
  BY <1>2, <1>5, PickInSet
<1> HIDE DEF p
<1>7. T \ {p} \notin Bad /\ T \ {y} \notin Bad
  BY <1>4, <1>5, <1>6
<1>8. Total(T \ {p}) = f[y] + Total((T \ {p}) \ {y})
  BY <1>4, <1>5, <1>6, <1>7
<1>9. Total(T \ {y}) = f[p] + Total((T \ {y}) \ {p})
  BY <1>4, <1>5, <1>6, <1>7
<1>10. (T \ {p}) \ {y} = (T \ {y}) \ {p}
  OBVIOUS
<1>11. Total(T) = f[p] + Total(T \ {p})
  BY <1>2, <1>4, <1>5 DEF p
<1>12. f[p] \in Int /\ f[y] \in Int /\ Total((T \ {y}) \ {p}) \in Int
  BY <1>1, <1>4, <1>5, <1>6
<1>13. Total(T) = f[y] + Total(T \ {y})
  <2> DEFINE rest == Total((T \ {y}) \ {p})
  <2>1. Total(T \ {p}) = f[y] + rest /\ Total(T \ {y}) = f[p] + rest
    BY <1>8, <1>9, <1>10
  <2> HIDE DEF rest
  <2>2. QED
    BY <2>1, <1>11, <1>12 DEF rest
<1>14. QED
  BY <1>5, <1>13

\* A new element adds its value.
LEMMA SumAdd ==
    ASSUME NEW f, NEW S, IsFiniteSet(S), NEW x, x \notin S,
           \A y \in S \cup {x} : f[y] \in Int
    PROVE  SumFunctionOnSet(f, S \cup {x}) = SumFunctionOnSet(f, S) + f[x]
<1>1. IsFiniteSet(S \cup {x}) /\ (S \cup {x}) \ {x} = S
  BY FS_AddElement
<1>2. SumFunctionOnSet(f, S \cup {x}) = f[x] + SumFunctionOnSet(f, S)
  BY <1>1, SumRemove
<1>3. QED
  BY <1>2, SumType

\* Two functions that differ in one element have sums that differ by as much.
LEMMA SumUpdate ==
    ASSUME NEW f, NEW e, NEW S, IsFiniteSet(S), NEW x \in S,
           \A y \in S : f[y] \in Int /\ e[y] \in Int,
           \A y \in S \ {x} : f[y] = e[y]
    PROVE  SumFunctionOnSet(e, S) = SumFunctionOnSet(f, S) - f[x] + e[x]
<1> DEFINE R == S \ {x}
<1>1. IsFiniteSet(R)
  BY FS_Subset
<1>2. SumFunctionOnSet(f, S) = f[x] + SumFunctionOnSet(f, R)
  BY SumRemove
<1>3. SumFunctionOnSet(e, S) = e[x] + SumFunctionOnSet(e, R)
  BY SumRemove
<1>4. SumFunctionOnSet(f, R) = SumFunctionOnSet(e, R) /\ SumFunctionOnSet(f, R) \in Int
  BY <1>1, SumSame, SumType
<1>5. QED
  BY <1>2, <1>3, <1>4

\* A sum over the indices of a sequence to which an element is appended.
LEMMA SumAppend ==
    ASSUME NEW n \in Nat, NEW f, NEW e, DOMAIN f = 1 .. n, DOMAIN e = 1 .. n + 1,
           \A i \in 1 .. n : f[i] \in Int /\ f[i] = e[i], e[n + 1] \in Int
    PROVE  /\ SumFunction(f) \in Int
           /\ SumFunction(e) = SumFunction(f) + e[n + 1]
<1>1. IsFiniteSet(1 .. n)
  BY FS_Interval
<1>2. n + 1 \notin 1 .. n /\ 1 .. n + 1 = (1 .. n) \cup {n + 1}
  OBVIOUS
<1>3. \A i \in (1 .. n) \cup {n + 1} : e[i] \in Int
  OBVIOUS
<1>4. SumFunctionOnSet(e, (1 .. n) \cup {n + 1}) = SumFunctionOnSet(e, 1 .. n) + e[n + 1]
  BY <1>1, <1>2, <1>3, SumAdd
<1>5. SumFunctionOnSet(f, 1 .. n) = SumFunctionOnSet(e, 1 .. n)
  BY <1>1, SumSame
<1>6. SumFunctionOnSet(f, 1 .. n) \in Int
  BY <1>1, SumType
<1>7. QED
  BY <1>2, <1>4, <1>5, <1>6 DEF SumFunction

\* A sum of which one summand changes.
LEMMA SumChange ==
    ASSUME NEW f, NEW e, NEW x \in DOMAIN f, IsFiniteSet(DOMAIN f), DOMAIN e = DOMAIN f,
           \A y \in DOMAIN f : f[y] \in Int /\ e[y] \in Int,
           \A y \in DOMAIN f \ {x} : f[y] = e[y]
    PROVE  /\ SumFunction(f) \in Int
           /\ SumFunction(e) = SumFunction(f) - f[x] + e[x]
<1> DEFINE S == DOMAIN f
<1>1. SumFunctionOnSet(e, S) = SumFunctionOnSet(f, S) - f[x] + e[x]
  BY SumUpdate
<1>2. SumFunctionOnSet(f, S) \in Int
  BY SumType
<1>3. QED
  BY <1>1, <1>2 DEF SumFunction

\* A sum whose summands are all zero.
LEMMA SumZero ==
    ASSUME NEW f, NEW S, IsFiniteSet(S), \A x \in S : f[x] = 0
    PROVE  SumFunctionOnSet(f, S) = 0
<1> DEFINE Bad == {s \in SUBSET S : SumFunctionOnSet(f, s) # 0}
<1>1. SUFFICES ASSUME Bad # {}
               PROVE  FALSE
  OBVIOUS
<1>2. PICK T \in Bad : \A U \in Bad : U \subseteq T => U = T
  <2>1. Bad \in SUBSET (SUBSET S)
    OBVIOUS
  <2> HIDE DEF Bad
  <2>2. QED
    BY <1>1, <2>1, SmallestSubset
<1>3. T # {} /\ IsFiniteSet(T)
  <2>1. SumFunctionOnSet(f, {}) = 0
    BY SumEmpty
  <2>2. QED
    BY <1>2, <2>1, FS_Subset, Zenon
<1>4. Pick(T) \in T
  BY <1>3, PickInSet
<1>5. SumFunctionOnSet(f, T \ {Pick(T)}) = 0
  BY <1>2, <1>4
<1>6. QED
  BY <1>2, <1>3, <1>4, <1>5, SumPick

\* A sum of natural numbers is one, and no less than any of its summands.
LEMMA SumOfNaturals ==
    ASSUME NEW f, NEW S, IsFiniteSet(S), \A x \in S : f[x] \in Nat
    PROVE  SumFunctionOnSet(f, S) \in Nat
<1> DEFINE Bad == {s \in SUBSET S : SumFunctionOnSet(f, s) \notin Nat}
<1>1. SUFFICES ASSUME Bad # {}
               PROVE  FALSE
  OBVIOUS
<1>2. PICK T \in Bad : \A U \in Bad : U \subseteq T => U = T
  <2>1. Bad \in SUBSET (SUBSET S)
    OBVIOUS
  <2> HIDE DEF Bad
  <2>2. QED
    BY <1>1, <2>1, SmallestSubset
<1>3. T # {} /\ IsFiniteSet(T)
  <2>1. SumFunctionOnSet(f, {}) \in Nat
    BY SumEmpty
  <2>2. QED
    BY <1>2, <2>1, FS_Subset, Zenon
<1>4. Pick(T) \in T
  BY <1>3, PickInSet
<1>5. SumFunctionOnSet(f, T \ {Pick(T)}) \in Nat
  BY <1>2, <1>4
<1>6. QED
  BY <1>2, <1>3, <1>4, <1>5, SumPick

LEMMA SumIsNoLess ==
    ASSUME NEW f, NEW x \in DOMAIN f, IsFiniteSet(DOMAIN f),
           \A y \in DOMAIN f : f[y] \in Nat
    PROVE  f[x] <= SumFunction(f)
<1> DEFINE S == DOMAIN f
           R == S \ {x}
<1>1. IsFiniteSet(R)
  BY FS_Subset
<1>2. SumFunctionOnSet(f, S) = f[x] + SumFunctionOnSet(f, R)
  BY SumRemove
<1>3. SumFunctionOnSet(f, R) \in Nat
  BY <1>1, SumOfNaturals
<1>4. QED
  BY <1>2, <1>3 DEF SumFunction

=============================================================================
