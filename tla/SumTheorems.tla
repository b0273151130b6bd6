----------------------------- MODULE SumTheorems -----------------------------
(***************************************************************************)
(* Facts about the sums of module Functions: SumFunctionOnSet(f, S), the   *)
(* sum of f[x] for the x in S, and SumFunction(f), the one over the whole  *)
(* domain of f.  The library defines the sum by a recursive function; that *)
(* the function exists, and what holds of it whatever the order in which   *)
(* the elements are taken, is shown with a smallest counterexample, for    *)
(* the naturals are well founded.                                          *)
(***************************************************************************)
EXTENDS Functions, FiniteSetTheorems, WellFoundedInduction, TLAPS

\* The least number of a set.
LEMMA Least ==
  ASSUME NEW T, T \subseteq Nat, T # {}
  PROVE  \E x \in T : \A y \in T : x <= y
<1>1. PICK R : R = {ss \in Nat \X Nat : ss[1] < ss[2]}
  OBVIOUS
<1>2. IsWellFoundedOn(R, Nat)
  BY <1>1, NatLessThanWellFounded DEF OpToRel
<1>3. PICK x \in T : \A y \in T : ~(<<y, x>> \in R)
  BY <1>2, WFMin
<1>4. ASSUME NEW y \in T
      PROVE  x <= y
  <2>1. x \in Nat /\ y \in Nat
    OBVIOUS
  <2>2. y < x => <<y, x>> \in R
    BY <1>1, <2>1
  <2> QED BY <1>3, <2>1, <2>2
<1> QED BY <1>4

\* Of some subsets of a finite set, one that is in no way larger than it need be.
LEMMA SmallestSubset ==
  ASSUME NEW S, IsFiniteSet(S), NEW B, B \subseteq SUBSET S, B # {}
  PROVE  \E s \in B : \A x \in s : s \ {x} \notin B
<1>1. \A s \in B : IsFiniteSet(s) /\ Cardinality(s) \in Nat
  BY FS_Subset, FS_CardinalityType
<1>2. PICK N : N = {n \in Nat : \E s \in B : Cardinality(s) = n}
  OBVIOUS
<1>3. N \subseteq Nat /\ N # {}
  BY <1>1, <1>2
<1>4. PICK n \in N : \A m \in N : n <= m
  BY <1>3, Least
<1>5. PICK s \in B : Cardinality(s) = n
  BY <1>2
<1>6. ASSUME NEW x \in s, s \ {x} \in B
      PROVE  FALSE
  <2>1. Cardinality(s \ {x}) = Cardinality(s) - 1
    BY <1>1, FS_RemoveElement
  <2>2. Cardinality(s \ {x}) \in N
    BY <1>1, <1>2, <1>6
  <2> QED BY <1>1, <1>4, <1>5, <2>1, <2>2
<1> QED BY <1>6

-----------------------------------------------------------------------------
(* The sum is well defined.                                                 *)

Some(s) == CHOOSE x \in s : TRUE

\* g satisfies the equation of the sums of f over the sets in D.
Solves(g, D, f) ==
  g = [s \in D |-> IF s = {} THEN 0 ELSE f[Some(s)] + g[s \ {Some(s)}]]

\* There is a function that satisfies it.
LEMMA SumsExist ==
  ASSUME NEW f, NEW S, IsFiniteSet(S)
  PROVE  \E g : Solves(g, SUBSET S, f)
<1> DEFINE D(n) == {s \in SUBSET S : Cardinality(s) <= n}
<1>1. \A s \in SUBSET S : IsFiniteSet(s) /\ Cardinality(s) \in Nat /\ Cardinality(s) <= Cardinality(S)
  BY FS_Subset, FS_CardinalityType
<1>2. ASSUME NEW n \in Nat, NEW g, Solves(g, D(n), f)
      PROVE  \E h : Solves(h, D(n + 1), f)
  <2>1. PICK h : h = [s \in D(n + 1) |-> IF s = {} THEN 0 ELSE f[Some(s)] + g[s \ {Some(s)}]]
    OBVIOUS
  <2>2. \A s \in D(n) : s \in D(n + 1)
    BY <1>1
  <2>3. \A s \in D(n) : h[s] = g[s]
    BY <1>2, <2>1, <2>2 DEF Solves
  <2>4. \A s \in D(n + 1) : s # {} => s \ {Some(s)} \in D(n)
    <3> SUFFICES ASSUME NEW s \in D(n + 1), s # {}
                 PROVE  s \ {Some(s)} \in D(n)
      OBVIOUS
    <3>1. Some(s) \in s
      BY DEF Some
    <3>2. Cardinality(s \ {Some(s)}) = Cardinality(s) - 1
      BY <1>1, <3>1, FS_RemoveElement
    <3> QED BY <1>1, <3>2
  <2>5. \A s \in D(n + 1) : s # {} => h[s \ {Some(s)}] = g[s \ {Some(s)}]
    BY <2>3, <2>4
  <2> HIDE DEF D
  <2>6. h = [s \in D(n + 1) |-> IF s = {} THEN 0 ELSE f[Some(s)] + h[s \ {Some(s)}]]
    BY <2>1, <2>5
  <2> QED BY <2>6 DEF Solves
<1>3. \E g : Solves(g, D(0), f)
  <2>1. PICK g : g = [s \in D(0) |-> 0]
    OBVIOUS
  <2>2. \A s \in D(0) : s = {}
    BY <1>1, FS_EmptySet
  <2> HIDE DEF D
  <2>3. g = [s \in D(0) |-> IF s = {} THEN 0 ELSE f[Some(s)] + g[s \ {Some(s)}]]
    BY <2>1, <2>2
  <2> QED BY <2>3 DEF Solves
<1>4. \A n \in Nat : \E g : Solves(g, D(n), f)
  <2>1. PICK B : B = {n \in Nat : ~\E g : Solves(g, D(n), f)}
    OBVIOUS
  <2> HIDE DEF D
  <2>2. ASSUME B # {}
        PROVE  FALSE
    <3>1. PICK m \in B : \A n \in B : m <= n
      BY <2>1, <2>2, Least
    <3>2. m \in Nat /\ m # 0 /\ ~\E g : Solves(g, D(m), f)
      BY <1>3, <2>1
    <3>3. m - 1 \in Nat /\ m - 1 \notin B /\ (m - 1) + 1 = m
      BY <3>1, <3>2
    <3>4. PICK g : Solves(g, D(m - 1), f)
      BY <2>1, <3>3
    <3>5. \E h : Solves(h, D((m - 1) + 1), f)
      BY <1>2, <3>3, <3>4
    <3> QED BY <3>2, <3>3, <3>5
  <2> QED BY <2>1, <2>2
<1>5. Cardinality(S) \in Nat /\ D(Cardinality(S)) = SUBSET S
  BY <1>1
<1> QED BY <1>4, <1>5

\* The sum is the value at S of such a function.
LEMMA SumIs ==
  ASSUME NEW f, NEW S, IsFiniteSet(S)
  PROVE  \E g : Solves(g, SUBSET S, f) /\ SumFunctionOnSet(f, S) = g[S]
<1>1. PICK g : g = CHOOSE k : Solves(k, SUBSET S, f)
  OBVIOUS
<1>2. Solves(g, SUBSET S, f)
  BY <1>1, SumsExist
<1>3. SumFunctionOnSet(f, S) = g[S]
  BY <1>1 DEF SumFunctionOnSet, FoldFunctionOnSet, MapThenFoldSet, Solves, Some
<1> QED BY <1>2, <1>3

\* The functions for a set and for a larger one agree on the smaller.
LEMMA SolutionsAgree ==
  ASSUME NEW f, NEW S, NEW T, NEW g, NEW h, IsFiniteSet(S), T \subseteq S,
         Solves(g, SUBSET S, f), Solves(h, SUBSET T, f)
  PROVE  g[T] = h[T]
<1>1. PICK B : B = {s \in SUBSET T : g[s] # h[s]}
  OBVIOUS
<1>2. ASSUME B # {}
      PROVE  FALSE
  <2>1. B \subseteq SUBSET S
    BY <1>1
  <2>2. PICK s \in B : \A x \in s : s \ {x} \notin B
    BY <1>2, <2>1, SmallestSubset
  <2>3. s \in SUBSET T /\ s \in SUBSET S /\ g[s] # h[s]
    BY <1>1
  <2>4. CASE s = {}
    BY <2>3, <2>4 DEF Solves
  <2>5. CASE s # {}
    <3>1. Some(s) \in s
      BY <2>5 DEF Some
    <3>2. PICK r : r = s \ {Some(s)}
      OBVIOUS
    <3>3. r \in SUBSET T /\ r \notin B
      BY <2>2, <2>3, <3>1, <3>2
    <3>4. g[r] = h[r]
      BY <1>1, <3>3
    <3>5. g[s] = f[Some(s)] + g[r] /\ h[s] = f[Some(s)] + h[r]
      BY <2>3, <2>5, <3>2 DEF Solves
    <3> QED BY <2>3, <3>4, <3>5
  <2> QED BY <2>4, <2>5
<1>3. T \in SUBSET T /\ T \notin B
  BY <1>2
<1> QED BY <1>1, <1>3

-----------------------------------------------------------------------------
(* What it is.                                                              *)

\* The empty sum.
LEMMA SumEmpty ==
  ASSUME NEW f
  PROVE  SumFunctionOnSet(f, {}) = 0
<1>1. PICK g : Solves(g, SUBSET {}, f) /\ SumFunctionOnSet(f, {}) = g[{}]
  BY SumIs, FS_EmptySet
<1>2. {} \in SUBSET {}
  OBVIOUS
<1>3. g[{}] = 0
  BY <1>1, <1>2 DEF Solves
<1> QED BY <1>1, <1>3

\* A sum is its first term and the sum of the others.
LEMMA SumFirst ==
  ASSUME NEW f, NEW S, IsFiniteSet(S), S # {}
  PROVE  /\ Some(S) \in S
         /\ SumFunctionOnSet(f, S) = f[Some(S)] + SumFunctionOnSet(f, S \ {Some(S)})
<1>1. Some(S) \in S
  BY DEF Some
<1>2. PICK T : T = S \ {Some(S)}
  OBVIOUS
<1>3. T \subseteq S /\ IsFiniteSet(T)
  BY <1>2, FS_Subset
<1>4. PICK g : Solves(g, SUBSET S, f) /\ SumFunctionOnSet(f, S) = g[S]
  BY SumIs
<1>5. PICK h : Solves(h, SUBSET T, f) /\ SumFunctionOnSet(f, T) = h[T]
  BY <1>3, SumIs
<1>6. g[T] = h[T]
  <2>1. IsFiniteSet(S) /\ T \subseteq S /\ Solves(g, SUBSET S, f) /\ Solves(h, SUBSET T, f)
    BY <1>3, <1>4, <1>5
  <2> QED BY <2>1, SolutionsAgree
<1>7. g[S] = f[Some(S)] + g[T]
  <2>1. S \in SUBSET S
    OBVIOUS
  <2> QED BY <1>2, <1>4, <2>1 DEF Solves
<1> QED BY <1>1, <1>2, <1>4, <1>5, <1>6, <1>7

\* A sum of integers is an integer.
LEMMA SumInt ==
  ASSUME NEW f, NEW S, IsFiniteSet(S), \A x \in S : f[x] \in Int
  PROVE  SumFunctionOnSet(f, S) \in Int
<1>1. PICK B : B = {s \in SUBSET S : SumFunctionOnSet(f, s) \notin Int}
  OBVIOUS
<1>2. ASSUME B # {}
      PROVE  FALSE
  <2>1. PICK s \in B : \A x \in s : s \ {x} \notin B
    BY <1>1, <1>2, SmallestSubset
  <2>2. s \in SUBSET S /\ IsFiniteSet(s) /\ SumFunctionOnSet(f, s) \notin Int
    BY <1>1, FS_Subset
  <2>3. s # {}
    BY <2>2, SumEmpty
  <2>4. /\ Some(s) \in s
        /\ SumFunctionOnSet(f, s) = f[Some(s)] + SumFunctionOnSet(f, s \ {Some(s)})
    BY <2>2, <2>3, SumFirst
  <2>5. SumFunctionOnSet(f, s \ {Some(s)}) \in Int
    BY <1>1, <2>1, <2>2, <2>4
  <2>6. f[Some(s)] \in Int
    BY <2>2, <2>4
  <2> QED BY <2>2, <2>4, <2>5, <2>6
<1> QED BY <1>1, <1>2

\* Equal terms have equal sums.
LEMMA SumSame ==
  ASSUME NEW f, NEW g, NEW S, IsFiniteSet(S), \A x \in S : f[x] = g[x]
  PROVE  SumFunctionOnSet(f, S) = SumFunctionOnSet(g, S)
<1>1. PICK B : B = {s \in SUBSET S : SumFunctionOnSet(f, s) # SumFunctionOnSet(g, s)}
  OBVIOUS
<1>2. ASSUME B # {}
      PROVE  FALSE
  <2>1. PICK s \in B : \A x \in s : s \ {x} \notin B
    BY <1>1, <1>2, SmallestSubset
  <2>2. s \in SUBSET S /\ IsFiniteSet(s) /\ SumFunctionOnSet(f, s) # SumFunctionOnSet(g, s)
    BY <1>1, FS_Subset
  <2>3. s # {}
    BY <2>2, SumEmpty
  <2>4. /\ Some(s) \in s
        /\ SumFunctionOnSet(f, s) = f[Some(s)] + SumFunctionOnSet(f, s \ {Some(s)})
        /\ SumFunctionOnSet(g, s) = g[Some(s)] + SumFunctionOnSet(g, s \ {Some(s)})
    BY <2>2, <2>3, SumFirst
  <2>5. SumFunctionOnSet(f, s \ {Some(s)}) = SumFunctionOnSet(g, s \ {Some(s)})
    BY <1>1, <2>1, <2>2, <2>4
  <2>6. f[Some(s)] = g[Some(s)]
    BY <2>2, <2>4
  <2> QED BY <2>2, <2>4, <2>5, <2>6
<1> QED BY <1>1, <1>2

\* Any element may be the one that is taken out first.
LEMMA SumTake ==
  ASSUME NEW f, NEW S, IsFiniteSet(S), \A x \in S : f[x] \in Int, NEW x \in S
  PROVE  SumFunctionOnSet(f, S) = f[x] + SumFunctionOnSet(f, S \ {x})
<1>1. PICK B : B = {s \in SUBSET S : \E y \in s :
                      SumFunctionOnSet(f, s) # f[y] + SumFunctionOnSet(f, s \ {y})}
  OBVIOUS
<1>2. ASSUME B # {}
      PROVE  FALSE
  <2>1. PICK s \in B : \A y \in s : s \ {y} \notin B
    BY <1>1, <1>2, SmallestSubset
  <2>2. PICK y \in s : SumFunctionOnSet(f, s) # f[y] + SumFunctionOnSet(f, s \ {y})
    BY <1>1
  <2>3. s \in SUBSET S /\ IsFiniteSet(s)
    BY <1>1, FS_Subset
  <2>4. PICK c : c = Some(s)
    OBVIOUS
  <2>5. c \in s /\ SumFunctionOnSet(f, s) = f[c] + SumFunctionOnSet(f, s \ {c})
    BY <2>2, <2>3, <2>4, SumFirst
  <2>6. c # y
    BY <2>2, <2>5
  <2>7. PICK a, b, r : a = s \ {c} /\ b = s \ {y} /\ r = (s \ {c}) \ {y}
    OBVIOUS
  <2>8. /\ a \in SUBSET S /\ a \notin B /\ y \in a /\ a \ {y} = r
        /\ b \in SUBSET S /\ b \notin B /\ c \in b /\ b \ {c} = r /\ IsFiniteSet(r)
    BY <2>1, <2>3, <2>5, <2>6, <2>7, FS_Subset
  <2>9. SumFunctionOnSet(f, a) = f[y] + SumFunctionOnSet(f, r)
    BY <1>1, <2>8
  <2>10. SumFunctionOnSet(f, b) = f[c] + SumFunctionOnSet(f, r)
    BY <1>1, <2>8
  <2>11. f[y] \in Int /\ f[c] \in Int /\ SumFunctionOnSet(f, r) \in Int
    <3>1. r \subseteq S
      BY <2>8
    <3> QED BY <2>3, <2>5, <2>8, <3>1, SumInt
  <2>12. SumFunctionOnSet(f, s) = f[c] + SumFunctionOnSet(f, a)
    BY <2>5, <2>7
  <2>13. SumFunctionOnSet(f, s) # f[y] + SumFunctionOnSet(f, b)
    BY <2>2, <2>7
  <2> QED BY <2>9, <2>10, <2>11, <2>12, <2>13
<1>3. S \notin B
  BY <1>2
<1>4. S \in SUBSET S
  OBVIOUS
<1> QED BY <1>1, <1>3, <1>4

\* A term is added.
LEMMA SumPut ==
  ASSUME NEW f, NEW S, IsFiniteSet(S), NEW y, y \notin S, \A x \in S \union {y} : f[x] \in Int
  PROVE  SumFunctionOnSet(f, S \union {y}) = SumFunctionOnSet(f, S) + f[y]
<1>1. PICK T : T = S \union {y}
  OBVIOUS
<1>2. IsFiniteSet(T) /\ y \in T /\ T \ {y} = S /\ \A x \in T : f[x] \in Int
  BY <1>1, FS_AddElement
<1>3. SumFunctionOnSet(f, T) = f[y] + SumFunctionOnSet(f, S)
  BY <1>2, SumTake
<1>4. SumFunctionOnSet(f, S) \in Int /\ f[y] \in Int
  BY <1>1, <1>2, SumInt
<1> QED BY <1>1, <1>3, <1>4

\* One term changes.
LEMMA SumChange ==
  ASSUME NEW f, NEW g, NEW S, IsFiniteSet(S), NEW y \in S,
         \A x \in S : f[x] \in Int, g[y] \in Int, \A x \in S : x # y => g[x] = f[x]
  PROVE  SumFunctionOnSet(g, S) = SumFunctionOnSet(f, S) - f[y] + g[y]
<1>1. PICK T : T = S \ {y}
  OBVIOUS
<1>2. IsFiniteSet(T) /\ T \subseteq S /\ \A x \in T : f[x] \in Int /\ g[x] = f[x]
  BY <1>1, FS_Subset
<1>3. SumFunctionOnSet(f, S) = f[y] + SumFunctionOnSet(f, T)
  BY <1>1, SumTake
<1>4. SumFunctionOnSet(g, S) = g[y] + SumFunctionOnSet(g, T)
  <2>1. \A x \in S : g[x] \in Int
    OBVIOUS
  <2> QED BY <1>1, <2>1, SumTake
<1>5. SumFunctionOnSet(f, T) = SumFunctionOnSet(g, T) /\ SumFunctionOnSet(f, T) \in Int
  BY <1>2, SumSame, SumInt
<1>6. f[y] \in Int
  OBVIOUS
<1> QED BY <1>3, <1>4, <1>5, <1>6

\* The sum over two sets that have nothing in common.
LEMMA SumUnion ==
  ASSUME NEW f, NEW S, IsFiniteSet(S), NEW T, IsFiniteSet(T), S \cap T = {},
         \A x \in S \union T : f[x] \in Int
  PROVE  SumFunctionOnSet(f, S \union T) = SumFunctionOnSet(f, S) + SumFunctionOnSet(f, T)
<1>1. PICK B : B = {t \in SUBSET T : SumFunctionOnSet(f, S \union t)
                                       # SumFunctionOnSet(f, S) + SumFunctionOnSet(f, t)}
  OBVIOUS
<1>2. SumFunctionOnSet(f, S) \in Int
  BY SumInt
<1>3. ASSUME B # {}
      PROVE  FALSE
  <2>1. B \subseteq SUBSET T /\ B # {}
    BY <1>1, <1>3
  <2>2. PICK t \in B : \A y \in t : t \ {y} \notin B
    BY <2>1, SmallestSubset
  <2>3. t \in SUBSET T /\ IsFiniteSet(t)
    BY <1>1, FS_Subset
  <2>4. SumFunctionOnSet(f, S \union t) # SumFunctionOnSet(f, S) + SumFunctionOnSet(f, t)
    BY <1>1
  <2>5. CASE t = {}
    <3>1. S \union t = S
      BY <2>5
    <3>2. SumFunctionOnSet(f, t) = 0
      BY <2>5, SumEmpty
    <3>3. SumFunctionOnSet(f, S) # SumFunctionOnSet(f, S) + 0
      BY <2>4, <3>1, <3>2
    <3> QED BY <1>2, <3>3
  <2>6. CASE t # {}
    <3>1. PICK y \in t : TRUE
      BY <2>6
    <3>2. PICK r, u : r = t \ {y} /\ u = S \union (t \ {y})
      OBVIOUS
    <3>3. IsFiniteSet(r) /\ r \in SUBSET T /\ r \notin B /\ y \notin u /\ u \union {y} = S \union t
      BY <2>2, <2>3, <3>1, <3>2, FS_Subset
    <3>4. IsFiniteSet(u)
      BY <3>2, <3>3, FS_Union
    <3>5. SumFunctionOnSet(f, u) = SumFunctionOnSet(f, S) + SumFunctionOnSet(f, r)
      BY <1>1, <3>2, <3>3
    <3>6. \A x \in u \union {y} : f[x] \in Int
      BY <2>3, <3>3
    <3>7. SumFunctionOnSet(f, u \union {y}) = SumFunctionOnSet(f, u) + f[y]
      BY <3>3, <3>4, <3>6, SumPut
    <3>8. SumFunctionOnSet(f, t) = f[y] + SumFunctionOnSet(f, r)
      BY <2>3, <3>1, <3>2, SumTake
    <3>9. f[y] \in Int /\ SumFunctionOnSet(f, r) \in Int
      BY <2>3, <3>1, <3>3, SumInt
    <3>10. SumFunctionOnSet(f, S \union t) = SumFunctionOnSet(f, u) + f[y]
      BY <3>3, <3>7
    <3> QED BY <1>2, <2>4, <3>5, <3>8, <3>9, <3>10
  <2> QED BY <2>5, <2>6
<1>4. T \in SUBSET T /\ T \notin B
  BY <1>3
<1> QED BY <1>1, <1>4

-----------------------------------------------------------------------------
(* The sum of all of a function.                                            *)

\* It is an integer.
LEMMA WholeInt ==
  ASSUME NEW f, IsFiniteSet(DOMAIN f), \A x \in DOMAIN f : f[x] \in Int
  PROVE  SumFunction(f) \in Int
BY SumInt DEF SumFunction

\* A function that is g but for one more argument has the more of a sum.
LEMMA WholeGrows ==
  ASSUME NEW f, NEW g, NEW y, IsFiniteSet(DOMAIN f), y \notin DOMAIN f,
         DOMAIN g = DOMAIN f \union {y}, \A x \in DOMAIN f : f[x] \in Int /\ g[x] = f[x],
         g[y] \in Int
  PROVE  SumFunction(g) = SumFunction(f) + g[y]
<1>1. PICK S : S = DOMAIN f
  OBVIOUS
<1>2. SumFunctionOnSet(g, S \union {y}) = SumFunctionOnSet(g, S) + g[y]
  BY <1>1, SumPut
<1>3. SumFunctionOnSet(g, S) = SumFunctionOnSet(f, S)
  BY <1>1, SumSame
<1> QED BY <1>1, <1>2, <1>3 DEF SumFunction

\* One of its values changes.
LEMMA WholeChanges ==
  ASSUME NEW f, NEW g, NEW y \in DOMAIN f, IsFiniteSet(DOMAIN f), DOMAIN g = DOMAIN f,
         \A x \in DOMAIN f : f[x] \in Int, g[y] \in Int,
         \A x \in DOMAIN f : x # y => g[x] = f[x]
  PROVE  SumFunction(g) = SumFunction(f) - f[y] + g[y]
BY SumChange DEF SumFunction

\* The sum over a function without arguments.
LEMMA WholeEmpty ==
  ASSUME NEW f, DOMAIN f = {}
  PROVE  SumFunction(f) = 0
BY SumEmpty DEF SumFunction

=============================================================================
