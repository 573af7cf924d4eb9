-------------------------------- MODULE Sums --------------------------------
(***************************************************************************)
(* What SumFunctionOnSet of the community modules computes, for every      *)
(* finite set.  The sums are those of rows: what a rider holds against     *)
(* what the trips and payouts of the tables add up to.  And what becomes   *)
(* of a sequence that a step appends to, writes in or takes from: those    *)
(* are the requests in flight and the lists that a page shows.             *)
(***************************************************************************)
EXTENDS Integers, Sequences, FiniteSets, Functions, FiniteSetTheorems,
        WellFoundedInduction, TLAPS

(* One step of a sum that takes the elements of s by choice.               *)
Pick(s) == CHOOSE x \in s : TRUE

SumStep(f, g, s) == IF s = {} THEN 0 ELSE f[Pick(s)] + g[s \ {Pick(s)}]

Summing(f, S, g) == \A s \in SUBSET S : g[s] = SumStep(f, g, s)

IsSum(f, S, g) == g = [s \in SUBSET S |-> SumStep(f, g, s)]

LEMMA SumUnfolds ==
    ASSUME NEW f, NEW S
    PROVE  SumFunctionOnSet(f, S) = (CHOOSE g : IsSum(f, S, g))[S]
  BY DEF SumFunctionOnSet, FoldFunctionOnSet, MapThenFoldSet, IsSum, SumStep, Pick

(* Every non-empty set of naturals has a least element: the intervals      *)
(* below its elements have a smallest one.                                 *)
LEMMA LeastNatural ==
    ASSUME NEW T, T \subseteq Nat, T # {}
    PROVE  \E n \in T : \A m \in T : n <= m
<1> DEFINE Below(n) == 0 .. (n - 1)
           B == {Below(n) : n \in T}
           R == StrictSubsetOrdering(Nat)
<1>1. B \subseteq FiniteSubsetsOf(Nat) /\ B # {}
  <2>1. ASSUME NEW n \in T
        PROVE  Below(n) \in SUBSET Nat /\ IsFiniteSet(Below(n))
    <3>1. n \in Nat /\ 0 \in Int /\ n - 1 \in Int
      OBVIOUS
    <3>2. QED
      BY <3>1, FS_Interval
  <2>2. QED
    BY <2>1 DEF FiniteSubsetsOf
<1>2. IsWellFoundedOn(R, FiniteSubsetsOf(Nat))
  BY FS_StrictSubsetOrderingWellFounded
<1>3. PICK I \in B : \A J \in B : <<J, I>> \notin R
  <2> HIDE DEF B, R
  <2>1. QED
    BY <1>1, <1>2, WFMin
<1>4. PICK n \in T : I = Below(n)
  OBVIOUS
<1>5. ASSUME NEW m \in T, m < n
      PROVE  FALSE
  <2>1. Below(m) \subseteq Below(n) /\ Below(m) # Below(n)
    <3>1. m \in Nat /\ n \in Nat /\ m \in Below(n) /\ m \notin Below(m)
      BY <1>5
    <3>2. QED
      BY <3>1
  <2>2. <<Below(m), I>> \in R
    BY <1>4, <2>1 DEF StrictSubsetOrdering
  <2>3. QED
    BY <1>3, <2>2
<1>6. QED
  BY <1>5

(* Induction, with a set for a predicate.                                  *)
LEMMA SetInduction ==
    ASSUME NEW T, 0 \in T, \A n \in Nat : n \in T => n + 1 \in T
    PROVE  Nat \subseteq T
<1> SUFFICES ASSUME Nat \ T # {}
             PROVE  FALSE
  OBVIOUS
<1>1. PICK n \in Nat \ T : \A m \in Nat \ T : n <= m
  <2>1. Nat \ T \subseteq Nat
    OBVIOUS
  <2>2. QED
    BY <2>1, LeastNatural
<1>2. n # 0 /\ n - 1 \in Nat /\ (n - 1) + 1 = n
  BY <1>1
<1>3. n - 1 \in T
  BY <1>1, <1>2
<1>4. QED
  BY <1>1, <1>2, <1>3

(* The choice of a sum is a function of that kind: there is one, built up  *)
(* by the size of the sets.                                                *)
LEMMA SumExists ==
    ASSUME NEW S, IsFiniteSet(S), NEW f, \A x \in S : f[x] \in Int
    PROVE  \E g \in [SUBSET S -> Int] : IsSum(f, S, g)
<1> DEFINE Upto(n) == {s \in SUBSET S : Cardinality(s) <= n}
           Good(n) == \E g \in [Upto(n) -> Int] : \A s \in Upto(n) : g[s] = SumStep(f, g, s)
<1>1. \A s \in SUBSET S : IsFiniteSet(s) /\ Cardinality(s) \in Nat
  BY FS_Subset, FS_CardinalityType
<1>2. ASSUME NEW s \in SUBSET S, s # {}
      PROVE  /\ Pick(s) \in s /\ s \ {Pick(s)} \in SUBSET S
             /\ Cardinality(s \ {Pick(s)}) = Cardinality(s) - 1
  <2>1. Pick(s) \in s
    BY <1>2 DEF Pick
  <2>2. QED
    BY <1>1, <2>1, FS_RemoveElement
<1>3. Good(0)
  <2>1. \A s \in Upto(0) : s = {}
    BY <1>1, FS_EmptySet
  <2>2. [s \in Upto(0) |-> 0] \in [Upto(0) -> Int]
    OBVIOUS
  <2>3. QED
    BY <2>1, <2>2 DEF SumStep
<1>4. ASSUME NEW n \in Nat, Good(n)
      PROVE  Good(n + 1)
  <2>1. PICK g \in [Upto(n) -> Int] : \A s \in Upto(n) : g[s] = SumStep(f, g, s)
    BY <1>4
  <2> DEFINE more == [s \in Upto(n + 1) |-> SumStep(f, g, s)]
  <2>2. ASSUME NEW s \in Upto(n + 1), s # {}
        PROVE  Pick(s) \in S /\ s \ {Pick(s)} \in Upto(n)
    BY <1>1, <1>2, <2>2
  <2>3. more \in [Upto(n + 1) -> Int]
    BY <2>2 DEF SumStep
  <2>4. \A s \in Upto(n) : s \in Upto(n + 1) /\ more[s] = g[s]
    BY <1>1, <2>1
  <2>5. \A s \in Upto(n + 1) : more[s] = SumStep(f, more, s)
    BY <2>2, <2>4 DEF SumStep
  <2>6. QED
    BY <2>3, <2>5
<1>5. \A n \in Nat : Good(n)
  <2> DEFINE Goods == {n \in Nat : Good(n)}
  <2> HIDE DEF Good
  <2>1. 0 \in Goods /\ \A n \in Nat : n \in Goods => n + 1 \in Goods
    BY <1>3, <1>4
  <2>2. Nat \subseteq Goods
    <3> HIDE DEF Goods
    <3>1. QED
      BY <2>1, SetInduction
  <2>3. QED
    BY <2>2
<1>6. Good(Cardinality(S))
  BY <1>1, <1>5, FS_Subset
<1>7. Upto(Cardinality(S)) = SUBSET S
  BY <1>1, FS_Subset
<1>8. QED
  BY <1>6, <1>7 DEF IsSum

(* Two functions that take their elements so are the same.                 *)
LEMMA SameSums ==
    ASSUME NEW S, IsFiniteSet(S), NEW f, NEW g, NEW d,
           Summing(f, S, g), Summing(f, S, d)
    PROVE  \A s \in SUBSET S : g[s] = d[s]
<1> DEFINE Same(n) == \A s \in SUBSET S : Cardinality(s) = n => g[s] = d[s]
           Sames == {n \in Nat : Same(n)}
<1>1. Same(0)
  BY FS_Subset, FS_EmptySet DEF Summing, SumStep
<1>2. ASSUME NEW n \in Nat, Same(n)
      PROVE  Same(n + 1)
  <2> SUFFICES ASSUME NEW s \in SUBSET S, Cardinality(s) = n + 1
               PROVE  g[s] = d[s]
    OBVIOUS
  <2>1. s # {} /\ IsFiniteSet(s)
    BY FS_Subset, FS_EmptySet
  <2>2. Pick(s) \in s
    BY <2>1 DEF Pick
  <2>3. s \ {Pick(s)} \in SUBSET S /\ Cardinality(s \ {Pick(s)}) = n
    <3>1. Cardinality(s \ {Pick(s)}) = Cardinality(s) - 1
      BY <2>1, <2>2, FS_RemoveElement
    <3>2. QED
      BY <3>1
  <2>4. g[s \ {Pick(s)}] = d[s \ {Pick(s)}]
    BY <1>2, <2>3
  <2>5. QED
    BY <2>1, <2>4 DEF Summing, SumStep
<1>3. Nat \subseteq Sames
  <2> HIDE DEF Same
  <2>1. 0 \in Sames /\ \A n \in Nat : n \in Sames => n + 1 \in Sames
    BY <1>1, <1>2
  <2> HIDE DEF Sames
  <2>2. QED
    BY <2>1, SetInduction
<1>4. \A s \in SUBSET S : Cardinality(s) \in Sames
  BY <1>3, FS_Subset, FS_CardinalityType
<1>5. QED
  BY <1>4

(* So a sum takes its elements by choice, from each subset alike.          *)
SumsUp(f, S, g) == g \in [SUBSET S -> Int] /\ Summing(f, S, g)

LEMMA SumIsChosen ==
    ASSUME NEW S, IsFiniteSet(S), NEW f, \A x \in S : f[x] \in Int
    PROVE  \E g : SumsUp(f, S, g) /\ SumFunctionOnSet(f, S) = g[S]
<1> DEFINE g == CHOOSE e : IsSum(f, S, e)
<1>1. PICK e \in [SUBSET S -> Int] : IsSum(f, S, e)
  BY SumExists
<1>2. IsSum(f, S, g)
  BY <1>1
<1>3. g = [s \in SUBSET S |-> SumStep(f, g, s)]
  BY <1>2 DEF IsSum
<1> HIDE DEF g
<1>4. Summing(f, S, g)
  BY <1>3 DEF Summing
<1>5. Summing(f, S, e)
  BY <1>1 DEF IsSum, Summing
<1>6. \A s \in SUBSET S : g[s] = e[s]
  BY <1>4, <1>5, SameSums
<1>7. g \in [SUBSET S -> Int]
  BY <1>3, <1>6
<1>8. SumFunctionOnSet(f, S) = g[S]
  BY SumUnfolds DEF g
<1>9. QED
  BY <1>4, <1>7, <1>8 DEF SumsUp

(* A sum depends only on the values at the elements summed up.             *)
THEOREM SumAgrees ==
    ASSUME NEW S, IsFiniteSet(S), NEW f, NEW e,
           \A x \in S : f[x] \in Int /\ e[x] = f[x]
    PROVE  SumFunctionOnSet(e, S) = SumFunctionOnSet(f, S)
<1>1. PICK g : SumsUp(f, S, g) /\ SumFunctionOnSet(f, S) = g[S]
  BY SumIsChosen
<1>2. \A x \in S : e[x] \in Int
  OBVIOUS
<1>3. PICK d : SumsUp(e, S, d) /\ SumFunctionOnSet(e, S) = d[S]
  BY <1>2, SumIsChosen
<1>4. Summing(f, S, d)
  BY <1>3 DEF SumsUp, Summing, SumStep, Pick
<1>5. \A s \in SUBSET S : g[s] = d[s]
  BY <1>1, <1>4, SameSums DEF SumsUp
<1>6. QED
  BY <1>1, <1>3, <1>5

THEOREM SumOfNothing ==
    ASSUME NEW f
    PROVE  SumFunctionOnSet(f, {}) = 0
<1>1. PICK g : SumsUp(f, {}, g) /\ SumFunctionOnSet(f, {}) = g[{}]
  BY SumIsChosen, FS_EmptySet
<1>2. QED
  BY <1>1 DEF SumsUp, Summing, SumStep

THEOREM SumType ==
    ASSUME NEW S, IsFiniteSet(S), NEW f, \A x \in S : f[x] \in Int
    PROVE  SumFunctionOnSet(f, S) \in Int
<1>1. PICK g : SumsUp(f, S, g) /\ SumFunctionOnSet(f, S) = g[S]
  BY SumIsChosen
<1>2. QED
  BY <1>1 DEF SumsUp

(* Which element a sum takes first does not matter.                        *)
LEMMA AnyFirst ==
    ASSUME NEW S, IsFiniteSet(S), NEW f, \A x \in S : f[x] \in Int, NEW g,
           SumsUp(f, S, g)
    PROVE  \A s \in SUBSET S : \A x \in s : g[s] = f[x] + g[s \ {x}]
<1> DEFINE Fine(n) == \A s \in SUBSET S : Cardinality(s) = n =>
                          \A x \in s : g[s] = f[x] + g[s \ {x}]
           Fines == {n \in Nat : Fine(n)}
<1>1. Fine(0)
  BY FS_Subset, FS_EmptySet
<1>2. ASSUME NEW n \in Nat, Fine(n)
      PROVE  Fine(n + 1)
  <2> SUFFICES ASSUME NEW s \in SUBSET S, Cardinality(s) = n + 1, NEW x \in s
               PROVE  g[s] = f[x] + g[s \ {x}]
    OBVIOUS
  <2> DEFINE y == Pick(s)
             u == s \ {x}
             v == s \ {y}
             w == s \ {x, y}
  <2>1. y \in s
    BY DEF Pick
  <2>2. g[s] = f[y] + g[v]
    BY <2>1 DEF SumsUp, Summing, SumStep
  <2>3. CASE y = x
    BY <2>2, <2>3
  <2>4. CASE y # x
    <3>1. u \in SUBSET S /\ v \in SUBSET S /\ w \in SUBSET S /\ IsFiniteSet(s)
      BY FS_Subset
    <3>2. Cardinality(u) = n /\ Cardinality(v) = n
      <4>1. Cardinality(u) = Cardinality(s) - 1 /\ Cardinality(v) = Cardinality(s) - 1
        <5> HIDE DEF y
        <5>1. QED
          BY <2>1, <3>1, FS_RemoveElement
      <4>2. QED
        BY <4>1
    <3>3. u \ {y} = w /\ v \ {x} = w /\ y \in u /\ x \in v
      BY <2>1, <2>4
    <3>4. g[u] = f[y] + g[w] /\ g[v] = f[x] + g[w]
      BY <1>2, <3>1, <3>2, <3>3
    <3>5. f[x] \in Int /\ f[y] \in Int /\ g[w] \in Int
      BY <2>1, <3>1 DEF SumsUp
    <3> HIDE DEF u, v, w, y
    <3>6. g[s] = f[x] + g[u]
      BY <2>2, <3>4, <3>5
    <3>7. QED
      BY <3>6 DEF u
  <2>5. QED
    BY <2>3, <2>4
<1>3. Nat \subseteq Fines
  <2> HIDE DEF Fine
  <2>1. 0 \in Fines /\ \A n \in Nat : n \in Fines => n + 1 \in Fines
    BY <1>1, <1>2
  <2> HIDE DEF Fines
  <2>2. QED
    BY <2>1, SetInduction
<1>4. \A s \in SUBSET S : Cardinality(s) \in Fines
  BY <1>3, FS_Subset, FS_CardinalityType
<1>5. QED
  BY <1>4

(* An element more is its value more.                                      *)
THEOREM SumAdds ==
    ASSUME NEW S, IsFiniteSet(S), NEW y, y \notin S,
           NEW f, \A x \in S \cup {y} : f[x] \in Int
    PROVE  SumFunctionOnSet(f, S \cup {y}) = SumFunctionOnSet(f, S) + f[y]
<1> DEFINE T == S \cup {y}
<1>1. IsFiniteSet(T) /\ T \ {y} = S /\ S \in SUBSET T /\ y \in T
  BY FS_AddElement
<1> HIDE DEF T
<1>2. PICK g : SumsUp(f, T, g) /\ SumFunctionOnSet(f, T) = g[T]
  BY <1>1, SumIsChosen DEF T
<1>3. PICK d : SumsUp(f, S, d) /\ SumFunctionOnSet(f, S) = d[S]
  BY SumIsChosen
<1>4. Summing(f, S, g)
  BY <1>1, <1>2 DEF SumsUp, Summing
<1>5. g[S] = d[S]
  BY <1>3, <1>4, SameSums DEF SumsUp
<1>6. \A x \in T : f[x] \in Int
  BY DEF T
<1>7. g[T] = f[y] + g[S]
  BY <1>1, <1>2, <1>6, AnyFirst
<1>8. g[S] \in Int /\ f[y] \in Int
  BY <1>1, <1>2, <1>6 DEF SumsUp
<1>9. QED
  BY <1>2, <1>3, <1>5, <1>7, <1>8 DEF T

(* An element less is its value less.                                      *)
THEOREM SumLoses ==
    ASSUME NEW S, IsFiniteSet(S), NEW y \in S, NEW f, \A x \in S : f[x] \in Int
    PROVE  SumFunctionOnSet(f, S \ {y}) = SumFunctionOnSet(f, S) - f[y]
<1> DEFINE T == S \ {y}
<1>1. IsFiniteSet(T) /\ y \notin T /\ T \cup {y} = S
  BY FS_RemoveElement
<1> HIDE DEF T
<1>2. SumFunctionOnSet(f, S) = SumFunctionOnSet(f, T) + f[y]
  BY <1>1, SumAdds
<1>3. SumFunctionOnSet(f, T) \in Int /\ f[y] \in Int
  BY <1>1, SumType DEF T
<1>4. QED
  BY <1>2, <1>3 DEF T

-----------------------------------------------------------------------------
(* Sums and counts before and after a step: e is what f has become, and    *)
(* agrees with it on the elements that stay.                               *)

(* An element joins.                                                       *)
THEOREM SumGains ==
    ASSUME NEW S, IsFiniteSet(S), NEW y, y \notin S, NEW f, NEW e,
           \A x \in S : f[x] \in Int /\ e[x] = f[x], e[y] \in Int
    PROVE  /\ SumFunctionOnSet(e, S \cup {y}) = SumFunctionOnSet(f, S) + e[y]
           /\ Cardinality(S \cup {y}) = Cardinality(S) + 1
<1>1. \A x \in S \cup {y} : e[x] \in Int
  OBVIOUS
<1>2. SumFunctionOnSet(e, S \cup {y}) = SumFunctionOnSet(e, S) + e[y]
  BY <1>1, SumAdds
<1>3. SumFunctionOnSet(e, S) = SumFunctionOnSet(f, S)
  BY SumAgrees
<1>4. QED
  BY <1>2, <1>3, FS_AddElement

(* An element leaves.                                                      *)
THEOREM SumDrops ==
    ASSUME NEW S, IsFiniteSet(S), NEW y \in S, NEW f, NEW e,
           \A x \in S : f[x] \in Int, \A x \in S \ {y} : e[x] = f[x]
    PROVE  /\ SumFunctionOnSet(e, S \ {y}) = SumFunctionOnSet(f, S) - f[y]
           /\ Cardinality(S \ {y}) = Cardinality(S) - 1
<1>1. SumFunctionOnSet(f, S \ {y}) = SumFunctionOnSet(f, S) - f[y]
  BY SumLoses
<1>2. IsFiniteSet(S \ {y}) /\ Cardinality(S \ {y}) = Cardinality(S) - 1
  BY FS_RemoveElement
<1>3. SumFunctionOnSet(e, S \ {y}) = SumFunctionOnSet(f, S \ {y})
  <2>1. \A x \in S \ {y} : f[x] \in Int /\ e[x] = f[x]
    OBVIOUS
  <2>2. QED
    BY <1>2, <2>1, SumAgrees
<1>4. QED
  BY <1>1, <1>2, <1>3

-----------------------------------------------------------------------------
(* A sum of numbers of which none exceeds c.                               *)
THEOREM SumBounded ==
    ASSUME NEW S, IsFiniteSet(S), NEW c \in Nat, NEW f, \A x \in S : f[x] \in 0 .. c
    PROVE  /\ SumFunctionOnSet(f, S) \in Int
           /\ 0 <= SumFunctionOnSet(f, S) /\ SumFunctionOnSet(f, S) <= c * Cardinality(S)
<1> \A x \in S : f[x] \in Int
  OBVIOUS
<1>1. PICK g : SumsUp(f, S, g) /\ SumFunctionOnSet(f, S) = g[S]
  BY SumIsChosen
<1> DEFINE Bounded(n) == \A s \in SUBSET S : Cardinality(s) = n =>
                             g[s] \in Int /\ 0 <= g[s] /\ g[s] <= c * n
           Sizes == {n \in Nat : Bounded(n)}
<1>2. Bounded(0)
  <2> SUFFICES ASSUME NEW s \in SUBSET S, Cardinality(s) = 0
               PROVE  g[s] \in Int /\ 0 <= g[s] /\ g[s] <= c * 0
    OBVIOUS
  <2>1. s = {}
    BY FS_Subset, FS_EmptySet
  <2>2. g[s] = 0
    BY <1>1, <2>1 DEF SumsUp, Summing, SumStep
  <2>3. QED
    BY <2>2
<1>3. ASSUME NEW n \in Nat, Bounded(n)
      PROVE  Bounded(n + 1)
  <2> SUFFICES ASSUME NEW s \in SUBSET S, Cardinality(s) = n + 1
               PROVE  g[s] \in Int /\ 0 <= g[s] /\ g[s] <= c * (n + 1)
    OBVIOUS
  <2>1. s # {} /\ IsFiniteSet(s)
    BY FS_Subset, FS_EmptySet
  <2>2. PICK x \in s : TRUE
    BY <2>1
  <2>3. g[s] = f[x] + g[s \ {x}]
    BY <1>1, AnyFirst
  <2>4. Cardinality(s \ {x}) = n
    <3>1. Cardinality(s \ {x}) = Cardinality(s) - 1
      BY <2>1, FS_RemoveElement
    <3>2. QED
      BY <3>1
  <2>5. g[s \ {x}] \in Int /\ 0 <= g[s \ {x}] /\ g[s \ {x}] <= c * n
    BY <1>3, <2>4
  <2>6. f[x] \in Int /\ 0 <= f[x] /\ f[x] <= c
    OBVIOUS
  <2>7. c * (n + 1) = c * n + c /\ c * n \in Int
    OBVIOUS
  <2> HIDE DEF Bounded
  <2>8. QED
    BY <2>3, <2>5, <2>6, <2>7
<1>4. Nat \subseteq Sizes
  <2> HIDE DEF Bounded
  <2>1. 0 \in Sizes /\ \A n \in Nat : n \in Sizes => n + 1 \in Sizes
    BY <1>2, <1>3
  <2> HIDE DEF Sizes
  <2>2. QED
    BY <2>1, SetInduction
<1>5. Cardinality(S) \in Sizes
  BY <1>4, FS_CardinalityType
<1>6. QED
  BY <1>1, <1>5

-----------------------------------------------------------------------------
(* Sequences                                                               *)

LEMMA Concatenation ==
    ASSUME NEW S, NEW a \in Seq(S), NEW b \in Seq(S)
    PROVE  /\ a \o b \in Seq(S) /\ Len(a \o b) = Len(a) + Len(b)
           /\ \A k \in 1 .. Len(a) + Len(b) :
                 (a \o b)[k] = IF k <= Len(a) THEN a[k] ELSE b[k - Len(a)]
  OBVIOUS

Cut(s, i) == SubSeq(s, 1, i - 1) \o SubSeq(s, i + 1, Len(s))

LEMMA CutOut ==
    ASSUME NEW S, NEW s \in Seq(S), NEW i \in 1 .. Len(s), NEW z, z = Cut(s, i)
    PROVE  /\ z \in Seq(S) /\ Len(z) = Len(s) - 1
           /\ \A k \in 1 .. Len(s) - 1 : z[k] = IF k < i THEN s[k] ELSE s[k + 1]
<1> DEFINE a == SubSeq(s, 1, i - 1)
           b == SubSeq(s, i + 1, Len(s))
<1>1. Len(s) \in Nat
  OBVIOUS
<1>2. a \in Seq(S) /\ Len(a) = i - 1 /\ \A k \in 1 .. i - 1 : a[k] = s[k]
  BY <1>1
<1>3. b \in Seq(S) /\ Len(b) = Len(s) - i /\ \A k \in 1 .. Len(s) - i : b[k] = s[k + i]
  BY <1>1
<1> HIDE DEF a, b
<1>4. /\ a \o b \in Seq(S) /\ Len(a \o b) = Len(s) - 1
      /\ \A k \in 1 .. Len(s) - 1 : (a \o b)[k] = IF k < i THEN a[k] ELSE b[k - (i - 1)]
  <2>1. a \o b \in Seq(S) /\ Len(a \o b) = Len(a) + Len(b)
    BY <1>2, <1>3, Concatenation
  <2>2. \A k \in 1 .. Len(a) + Len(b) :
            (a \o b)[k] = IF k <= Len(a) THEN a[k] ELSE b[k - Len(a)]
    BY <1>2, <1>3, Concatenation
  <2>3. Len(a) + Len(b) = Len(s) - 1
    BY <1>1, <1>2, <1>3
  <2>4. \A k \in 1 .. Len(s) - 1 : k <= Len(a) <=> k < i
    BY <1>1, <1>2
  <2>5. QED
    BY <1>2, <2>1, <2>2, <2>3, <2>4
<1>5. \A k \in 1 .. Len(s) - 1 : (a \o b)[k] = IF k < i THEN s[k] ELSE s[k + 1]
  <2> TAKE k \in 1 .. Len(s) - 1
  <2>1. CASE k < i
    BY <1>1, <1>2, <1>4, <2>1
  <2>2. CASE ~(k < i)
    <3>1. k - (i - 1) \in 1 .. Len(s) - i /\ k - (i - 1) + i = k + 1
      BY <1>1, <2>2
    <3>2. QED
      BY <1>3, <1>4, <2>2, <3>1
  <2>3. QED
    BY <2>1, <2>2
<1>6. z = a \o b
  BY DEF Cut, a, b
<1>7. QED
  BY <1>4, <1>5, <1>6

(* The places of a sequence, ...                                           *)
LEMMA PlacesOf ==
    ASSUME NEW s, NEW S, s \in Seq(S)
    PROVE  /\ Len(s) \in Nat /\ DOMAIN s = 1 .. Len(s)
           /\ \A k \in DOMAIN s : s[k] \in S
  OBVIOUS

(* ... of one with an element more, ...                                    *)
LEMMA Appended ==
    ASSUME NEW S, NEW s \in Seq(S), NEW r \in S, NEW z, z = Append(s, r)
    PROVE  /\ z \in Seq(S) /\ Len(z) = Len(s) + 1 /\ z[Len(s) + 1] = r
           /\ \A k \in DOMAIN s : z[k] = s[k]
  OBVIOUS

(* ... of one with an element changed ...                                  *)
LEMMA Written ==
    ASSUME NEW S, NEW s \in Seq(S), NEW i \in DOMAIN s, NEW x \in S, NEW z,
           z = [s EXCEPT ![i] = x]
    PROVE  /\ z \in Seq(S) /\ DOMAIN z = DOMAIN s /\ z[i] = x
           /\ \A k \in DOMAIN s : k # i => z[k] = s[k]
  OBVIOUS

(* ... and of one with an element less.                                    *)
LEMMA WithoutOne ==
    ASSUME NEW S, NEW s \in Seq(S), NEW i \in DOMAIN s, NEW z, z = Cut(s, i)
    PROVE  /\ z \in Seq(S) /\ DOMAIN z = 1 .. Len(s) - 1
           /\ \A k \in DOMAIN z : /\ k \in DOMAIN s /\ k + 1 \in DOMAIN s
                                  /\ z[k] = IF k < i THEN s[k] ELSE s[k + 1]
<1>1. i \in 1 .. Len(s) /\ Len(s) \in Nat
  BY PlacesOf
<1>2. /\ z \in Seq(S) /\ Len(z) = Len(s) - 1
      /\ \A k \in 1 .. Len(s) - 1 : z[k] = IF k < i THEN s[k] ELSE s[k + 1]
  BY <1>1, CutOut
<1>3. DOMAIN z = 1 .. Len(s) - 1
  BY <1>2
<1>4. \A k \in 1 .. Len(s) - 1 : k \in DOMAIN s /\ k + 1 \in DOMAIN s
  BY <1>1
<1>5. QED
  BY <1>2, <1>3, <1>4
=============================================================================
