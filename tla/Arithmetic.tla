----------------------------- MODULE Arithmetic -----------------------------
(***************************************************************************)
(* Facts about the sum of a function's values (SumFunction of the module   *)
(* Functions) and about division, for the ledgers of Vault, Exchange and   *)
(* SlpVault.                                                               *)
(*                                                                         *)
(* The induction theorems of the library take a predicate as a parameter.  *)
(* Induction is stated here with sets instead: what holds of the smaller   *)
(* sets and yet fails somewhere fails for a set all of whose parts are     *)
(* good, because inclusion of finite sets is well founded.                 *)
(***************************************************************************)
EXTENDS Functions, FiniteSetTheorems, WellFoundedInduction, TLAPS

-----------------------------------------------------------------------------
(* Induction *)

\* A set of finite sets that is not empty has a member none of whose proper
\* subsets belongs to it.
LEMMA SmallestSet ==
    ASSUME NEW S, IsFiniteSet(S), NEW Q \in SUBSET SUBSET S, Q # {}
    PROVE  \E T \in Q : \A U \in Q : U \subseteq T => U = T
<1>1. IsWellFoundedOn(StrictSubsetOrdering(S), SUBSET S)
  BY FS_StrictSubsetOrderingWellFounded, FS_FiniteSubsetsOfFinite
<1>2. \E T \in Q : \A U \in Q : <<U, T>> \notin StrictSubsetOrdering(S)
  BY <1>1, WFMin
<1> QED
  BY <1>2 DEF StrictSubsetOrdering

\* A set of natural numbers with 0 and every successor has them all.
LEMMA AllNumbers ==
    ASSUME NEW N \in SUBSET Nat, 0 \in N, \A n \in N : n + 1 \in N
    PROVE  N = Nat
<1> SUFFICES ASSUME Nat \ N # {} PROVE FALSE
  OBVIOUS
<1>1. \E m \in Nat \ N : \A n \in Nat \ N : <<n, m>> \notin OpToRel(<, Nat)
  BY NatLessThanWellFounded, WFMin, Zenon
<1>2. PICK m \in Nat \ N : \A n \in Nat \ N : ~(n < m)
  BY <1>1 DEF OpToRel
<1>3. m - 1 \in Nat /\ m - 1 < m
  BY <1>2
<1> QED
  BY <1>2, <1>3

-----------------------------------------------------------------------------
(* The recursion that defines a sum *)

AnyOf(s) == CHOOSE x \in s : TRUE

Part(f, g, s) == IF s = {} THEN 0 ELSE f[AnyOf(s)] + g[s \ {AnyOf(s)}]

Parts(f, S) == CHOOSE g : g = [s \in SUBSET S |-> Part(f, g, s)]

LEMMA AnyOfIn == ASSUME NEW s, s # {} PROVE AnyOf(s) \in s
BY DEF AnyOf

LEMMA SumIsParts ==
    ASSUME NEW f, NEW S
    PROVE  SumFunctionOnSet(f, S) = Parts(f, S)[S]
BY DEF SumFunctionOnSet, FoldFunctionOnSet, MapThenFoldSet, Parts, Part, AnyOf

\* The function of partial sums exists.
LEMMA PartsDefined ==
    ASSUME NEW f, NEW S, IsFiniteSet(S), NEW s \in SUBSET S
    PROVE  Parts(f, S)[s] = Part(f, Parts(f, S), s)
<1> DEFINE Good(g, n) ==
             \A r \in SUBSET S : Cardinality(r) <= n => g[r] = Part(f, g, r)
           N == {n \in Nat : \E g : g = [r \in SUBSET S |-> g[r]] /\ Good(g, n)}
<1>1. \A r \in SUBSET S : IsFiniteSet(r) /\ Cardinality(r) \in Nat
  BY FS_Subset, FS_CardinalityType
<1>2. 0 \in N
  <2> DEFINE g == [r \in SUBSET S |-> 0]
  <2>1. ASSUME NEW r \in SUBSET S, Cardinality(r) <= 0 PROVE g[r] = Part(f, g, r)
    <3>1. r = {}
      BY <1>1, <2>1, FS_EmptySet
    <3> QED
      BY <3>1 DEF Part
  <2>2. g = [r \in SUBSET S |-> g[r]]
    OBVIOUS
  <2> HIDE DEF g
  <2> QED
    BY <2>1, <2>2
<1>3. ASSUME NEW n \in N PROVE n + 1 \in N
  <2>1. PICK g : g = [r \in SUBSET S |-> g[r]] /\ Good(g, n)
    OBVIOUS
  <2> DEFINE h == [r \in SUBSET S |-> Part(f, g, r)]
  <2>2. ASSUME NEW r \in SUBSET S, Cardinality(r) <= n + 1 PROVE h[r] = Part(f, h, r)
    <3>1. CASE r = {}
      BY <3>1 DEF Part
    <3>2. CASE r # {}
      <4> DEFINE q == r \ {AnyOf(r)}
      <4>1. q \in SUBSET S /\ Cardinality(q) <= n
        <5>1. Cardinality(q) = Cardinality(r) - 1
          BY <1>1, <3>2, AnyOfIn, FS_RemoveElement
        <5> QED
          BY <1>1, <2>2, <5>1
      <4>2. h[q] = g[q]
        BY <2>1, <4>1
      <4> QED
        BY <3>2, <4>2 DEF Part
    <3> QED
      BY <3>1, <3>2
  <2>3. h = [r \in SUBSET S |-> h[r]]
    OBVIOUS
  <2> HIDE DEF h
  <2>4. Good(h, n + 1)
    BY <2>2
  <2>5. n + 1 \in Nat
    OBVIOUS
  <2> HIDE DEF Good
  <2> QED
    BY <2>3, <2>4, <2>5
<1>4. Cardinality(S) \in N
  <2> HIDE DEF N
  <2>1. N \in SUBSET Nat
    BY DEF N
  <2> QED
    BY <1>1, <1>2, <1>3, <2>1, AllNumbers
<1>5. PICK g : g = [r \in SUBSET S |-> g[r]] /\ Good(g, Cardinality(S))
  BY <1>4
<1>6. g = [r \in SUBSET S |-> Part(f, g, r)]
  <2>1. \A r \in SUBSET S : Cardinality(r) <= Cardinality(S)
    BY FS_Subset
  <2>2. \A r \in SUBSET S : g[r] = Part(f, g, r)
    BY <1>5, <2>1
  <2> HIDE DEF Good
  <2> QED
    BY <1>5, <2>2
<1>7. Parts(f, S) = [r \in SUBSET S |-> Part(f, Parts(f, S), r)]
  BY <1>6 DEF Parts
<1> DEFINE p == Parts(f, S)
<1> HIDE DEF p
<1>8. p = [r \in SUBSET S |-> Part(f, p, r)]
  BY <1>7 DEF p
<1>9. p[s] = Part(f, p, s)
  BY <1>8
<1> QED
  BY <1>9 DEF p

\* A part of the function of partial sums of S is that of a part of S.
LEMMA PartsAgree ==
    ASSUME NEW f, NEW g, NEW S, IsFiniteSet(S), NEW U \in SUBSET S,
           \A x \in U : f[x] = g[x]
    PROVE  Parts(f, S)[U] = Parts(g, U)[U]
<1> DEFINE Q == {s \in SUBSET U : Parts(f, S)[s] # Parts(g, U)[s]}
<1> SUFFICES ASSUME Q # {} PROVE FALSE
  OBVIOUS
<1>1. IsFiniteSet(U)
  BY FS_Subset
<1>2. PICK s \in Q : \A r \in Q : r \subseteq s => r = s
  <2> HIDE DEF Q
  <2>1. Q \in SUBSET SUBSET U
    BY DEF Q
  <2> QED
    BY <1>1, <2>1, SmallestSet
<1>3. Parts(f, S)[s] = Part(f, Parts(f, S), s) /\ Parts(g, U)[s] = Part(g, Parts(g, U), s)
  BY <1>1, PartsDefined
<1>4. s # {}
  BY <1>3 DEF Part
<1>5. AnyOf(s) \in s
  BY <1>4, AnyOfIn
<1>6. Parts(f, S)[s \ {AnyOf(s)}] = Parts(g, U)[s \ {AnyOf(s)}]
  BY <1>2, <1>5
<1> QED
  BY <1>3, <1>4, <1>5, <1>6 DEF Part

\* Functions that agree on a set have the same sum over it.
LEMMA SumAgrees ==
    ASSUME NEW f, NEW g, NEW S, IsFiniteSet(S), \A x \in S : f[x] = g[x]
    PROVE  SumFunctionOnSet(f, S) = SumFunctionOnSet(g, S)
BY PartsAgree, SumIsParts

LEMMA SumEmpty == ASSUME NEW f PROVE SumFunctionOnSet(f, {}) = 0
<1>1. Parts(f, {})[{}] = Part(f, Parts(f, {}), {})
  BY FS_EmptySet, PartsDefined
<1> QED
  BY <1>1, SumIsParts DEF Part

\* The sum over a set is that over the rest and the value of the element that
\* CHOOSE picks.
LEMMA SumChosen ==
    ASSUME NEW f, NEW S, IsFiniteSet(S), S # {}
    PROVE  SumFunctionOnSet(f, S)
             = f[AnyOf(S)] + SumFunctionOnSet(f, S \ {AnyOf(S)})
<1> DEFINE R == S \ {AnyOf(S)}
<1>1. Parts(f, S)[S] = f[AnyOf(S)] + Parts(f, S)[R]
  BY PartsDefined DEF Part
<1>2. Parts(f, S)[R] = Parts(f, R)[R]
  BY PartsAgree
<1> QED
  BY <1>1, <1>2, SumIsParts

-----------------------------------------------------------------------------
(* Sums of integers *)

\* A sum of integers is an integer; it is 0 or more if all of them are.
LEMMA SumType ==
    ASSUME NEW f, NEW S, IsFiniteSet(S), \A x \in S : f[x] \in Int
    PROVE  /\ SumFunctionOnSet(f, S) \in Int
           /\ (\A x \in S : f[x] >= 0) => SumFunctionOnSet(f, S) >= 0
<1> DEFINE Fine(T) == /\ SumFunctionOnSet(f, T) \in Int
                      /\ (\A x \in S : f[x] >= 0) => SumFunctionOnSet(f, T) >= 0
           Q == {T \in SUBSET S : ~Fine(T)}
<1> SUFFICES ASSUME Q # {} PROVE FALSE
  OBVIOUS
<1>1. PICK T \in Q : \A U \in Q : U \subseteq T => U = T
  <2> HIDE DEF Q
  <2>1. Q \in SUBSET SUBSET S
    BY DEF Q
  <2> QED
    BY <2>1, SmallestSet
<1>2. IsFiniteSet(T) /\ T \subseteq S
  BY FS_Subset
<1>3. T # {}
  BY SumEmpty
<1>4. AnyOf(T) \in T
  BY <1>3, AnyOfIn
<1>5. Fine(T \ {AnyOf(T)})
  BY <1>1, <1>4
<1>6. SumFunctionOnSet(f, T) = f[AnyOf(T)] + SumFunctionOnSet(f, T \ {AnyOf(T)})
  BY <1>2, <1>3, SumChosen
<1>7. f[AnyOf(T)] \in Int /\ ((\A x \in S : f[x] >= 0) => f[AnyOf(T)] >= 0)
  BY <1>2, <1>4
<1> QED
  BY <1>5, <1>6, <1>7

\* Any element can be taken out first.
LEMMA SumSplit ==
    ASSUME NEW f, NEW S, IsFiniteSet(S), \A x \in S : f[x] \in Int,
           NEW a \in S
    PROVE  SumFunctionOnSet(f, S) = f[a] + SumFunctionOnSet(f, S \ {a})
<1> DEFINE Out(T, x) == SumFunctionOnSet(f, T) = f[x] + SumFunctionOnSet(f, T \ {x})
           Q == {T \in SUBSET S : \E x \in T : ~Out(T, x)}
<1> SUFFICES ASSUME Q # {} PROVE FALSE
  OBVIOUS
<1>1. PICK T \in Q : \A U \in Q : U \subseteq T => U = T
  <2> HIDE DEF Q
  <2>1. Q \in SUBSET SUBSET S
    BY DEF Q
  <2> QED
    BY <2>1, SmallestSet
<1>2. PICK x \in T : ~Out(T, x)
  OBVIOUS
<1> DEFINE y == AnyOf(T)
<1>3. IsFiniteSet(T) /\ T \subseteq S
  BY FS_Subset
<1>4. y \in T
  BY AnyOfIn
<1>5. Out(T, y)
  BY <1>3, SumChosen
<1>6. x # y
  BY <1>2, <1>5
<1> HIDE DEF y
<1>7. ASSUME NEW U \in SUBSET T, U # T, NEW z \in U PROVE Out(U, z)
  BY <1>1, <1>3, <1>7
<1>8. (T \ {y}) \ {x} = (T \ {x}) \ {y}
  OBVIOUS
<1>9. Out(T \ {y}, x) /\ Out(T \ {x}, y)
  BY <1>4, <1>6, <1>7
<1>10. /\ SumFunctionOnSet(f, (T \ {y}) \ {x}) \in Int
       /\ f[x] \in Int /\ f[y] \in Int
  <2>1. IsFiniteSet((T \ {y}) \ {x})
    BY <1>3, FS_Subset
  <2> QED
    BY <1>3, <1>4, <2>1, SumType
<1> DEFINE r == SumFunctionOnSet(f, (T \ {y}) \ {x})
<1>11. /\ SumFunctionOnSet(f, T) = f[y] + SumFunctionOnSet(f, T \ {y})
       /\ SumFunctionOnSet(f, T \ {y}) = f[x] + r
       /\ SumFunctionOnSet(f, T \ {x}) = f[y] + r
  BY <1>5, <1>8, <1>9
<1>12. f[y] + (f[x] + r) = f[x] + (f[y] + r)
  BY <1>10
<1> QED
  BY <1>2, <1>11, <1>12

-----------------------------------------------------------------------------
(* Sums of functions *)

\* The sum of a function into the integers is an integer; if no value is below
\* zero, neither is the sum, and none exceeds it.
LEMMA SumFunctionType ==
    ASSUME NEW S, IsFiniteSet(S), NEW f \in [S -> Int]
    PROVE  /\ SumFunction(f) \in Int
           /\ f \in [S -> Nat] =>
                 SumFunction(f) \in Nat /\ \A a \in S : f[a] <= SumFunction(f)
<1>1. DOMAIN f = S /\ \A x \in S : f[x] \in Int
  OBVIOUS
<1>2. SumFunction(f) = SumFunctionOnSet(f, S)
  BY <1>1 DEF SumFunction
<1>3. SumFunction(f) \in Int
  BY <1>1, <1>2, SumType
<1>4. ASSUME f \in [S -> Nat]
      PROVE  SumFunction(f) \in Nat /\ \A a \in S : f[a] <= SumFunction(f)
  <2>1. \A x \in S : f[x] >= 0
    BY <1>4
  <2>2. SumFunction(f) >= 0
    BY <1>1, <1>2, <2>1, SumType
  <2>3. ASSUME NEW a \in S PROVE f[a] <= SumFunction(f)
    <3> DEFINE rest == SumFunctionOnSet(f, S \ {a})
    <3>1. IsFiniteSet(S \ {a})
      BY FS_Subset
    <3>2. rest \in Int /\ rest >= 0
      BY <1>1, <2>1, <3>1, SumType
    <3>3. SumFunctionOnSet(f, S) = f[a] + rest
      BY <1>1, SumSplit
    <3> HIDE DEF rest
    <3> QED
      BY <1>1, <1>2, <3>2, <3>3
  <2> QED
    BY <1>3, <2>2, <2>3
<1> QED
  BY <1>3, <1>4

\* When one value of a function changes, its sum changes by as much.
LEMMA SumChange ==
    ASSUME NEW S, IsFiniteSet(S), NEW f \in [S -> Int], NEW g \in [S -> Int],
           NEW a \in S, \A x \in S \ {a} : g[x] = f[x]
    PROVE  SumFunction(g) = SumFunction(f) + (g[a] - f[a])
<1> DEFINE rest == SumFunctionOnSet(f, S \ {a})
<1>1. DOMAIN f = S /\ DOMAIN g = S /\ \A x \in S : f[x] \in Int /\ g[x] \in Int
  OBVIOUS
<1>2. IsFiniteSet(S \ {a})
  BY FS_Subset
<1>3. rest \in Int
  BY <1>1, <1>2, SumType
<1>4. SumFunctionOnSet(g, S \ {a}) = rest
  BY <1>2, SumAgrees
<1>5. SumFunctionOnSet(f, S) = f[a] + rest
  BY <1>1, SumSplit
<1>6. SumFunctionOnSet(g, S) = g[a] + rest
  BY <1>1, <1>4, SumSplit
<1> HIDE DEF rest
<1> QED
  BY <1>1, <1>3, <1>5, <1>6 DEF SumFunction

\* A function that is zero everywhere sums up to zero.
LEMMA SumZero ==
    ASSUME NEW S, IsFiniteSet(S), NEW f \in [S -> Int], \A x \in S : f[x] = 0
    PROVE  SumFunction(f) = 0
<1> DEFINE Q == {T \in SUBSET S : SumFunctionOnSet(f, T) # 0}
<1> SUFFICES ASSUME Q # {} PROVE FALSE
  <2>1. DOMAIN f = S
    OBVIOUS
  <2> QED
    BY <2>1 DEF SumFunction
<1>1. PICK T \in Q : \A U \in Q : U \subseteq T => U = T
  <2> HIDE DEF Q
  <2>1. Q \in SUBSET SUBSET S
    BY DEF Q
  <2> QED
    BY <2>1, SmallestSet
<1>2. IsFiniteSet(T) /\ T # {}
  BY FS_Subset, SumEmpty
<1>3. AnyOf(T) \in T
  BY <1>2, AnyOfIn
<1>4. SumFunctionOnSet(f, T \ {AnyOf(T)}) = 0
  BY <1>1, <1>3
<1>5. SumFunctionOnSet(f, T) = f[AnyOf(T)] + SumFunctionOnSet(f, T \ {AnyOf(T)})
  BY <1>2, SumChosen
<1> QED
  BY <1>3, <1>4, <1>5

\* Outside D the function is zero: its sum is that of its restriction to D.
LEMMA SumRestrict ==
    ASSUME NEW S, IsFiniteSet(S), NEW D \in SUBSET S, NEW f \in [S -> Int],
           NEW g \in [D -> Int], \A x \in D : g[x] = f[x], \A x \in S \ D : f[x] = 0
    PROVE  SumFunction(f) = SumFunction(g)
<1> DEFINE Q == {T \in SUBSET S : SumFunctionOnSet(f, T) # SumFunctionOnSet(f, T \cap D)}
<1>1. Q = {}
  <2> SUFFICES ASSUME Q # {} PROVE FALSE
    OBVIOUS
  <2>1. PICK T \in Q : \A U \in Q : U \subseteq T => U = T
    <3> HIDE DEF Q
    <3>1. Q \in SUBSET SUBSET S
      BY DEF Q
    <3> QED
      BY <3>1, SmallestSet
  <2>2. IsFiniteSet(T) /\ T # {}
    <3>1. {} \cap D = {}
      OBVIOUS
    <3> QED
      BY <3>1, FS_Subset
  <2>3. PICK x \in T : TRUE
    BY <2>2
  <2>4. SumFunctionOnSet(f, T \ {x}) = SumFunctionOnSet(f, (T \ {x}) \cap D)
    BY <2>1
  <2>5. SumFunctionOnSet(f, T) = f[x] + SumFunctionOnSet(f, T \ {x})
    <3>1. \A y \in T : f[y] \in Int
      OBVIOUS
    <3> QED
      BY <2>2, <3>1, SumSplit
  <2>6. CASE x \in D
    <3>1. IsFiniteSet(T \cap D) /\ x \in T \cap D /\ \A y \in T \cap D : f[y] \in Int
      BY <2>2, <2>6, FS_Subset
    <3>2. SumFunctionOnSet(f, T \cap D) = f[x] + SumFunctionOnSet(f, (T \cap D) \ {x})
      BY <3>1, SumSplit
    <3>3. (T \cap D) \ {x} = (T \ {x}) \cap D
      OBVIOUS
    <3> QED
      BY <2>4, <2>5, <3>2, <3>3
  <2>7. CASE x \notin D
    <3>1. f[x] = 0 /\ T \cap D = (T \ {x}) \cap D
      BY <2>7
    <3>2. IsFiniteSet(T \ {x}) /\ \A y \in T \ {x} : f[y] \in Int
      BY <2>2, FS_Subset
    <3>3. SumFunctionOnSet(f, T \ {x}) \in Int
      BY <3>2, SumType
    <3>4. SumFunctionOnSet(f, T) = SumFunctionOnSet(f, T \ {x})
      BY <2>5, <3>1, <3>3
    <3>5. SumFunctionOnSet(f, T) = SumFunctionOnSet(f, T \cap D)
      BY <2>4, <3>1, <3>4, Zenon
    <3> QED
      BY <3>5
  <2> QED
    BY <2>6, <2>7
<1>2. SumFunctionOnSet(f, S) = SumFunctionOnSet(f, D)
  <2>1. S \in SUBSET S /\ S \cap D = D
    OBVIOUS
  <2> QED
    BY <1>1, <2>1
<1>3. SumFunctionOnSet(g, D) = SumFunctionOnSet(f, D)
  <2>1. IsFiniteSet(D)
    BY FS_Subset
  <2> QED
    BY <2>1, SumAgrees
<1>4. DOMAIN f = S /\ DOMAIN g = D
  OBVIOUS
<1> QED
  BY <1>2, <1>3, <1>4 DEF SumFunction

\* A constant value sums up to the value times the number of arguments.
LEMMA SumConstant ==
    ASSUME NEW S, IsFiniteSet(S), NEW c \in Int,
           NEW f \in [S -> Int], \A x \in S : f[x] = c
    PROVE  SumFunction(f) = c * Cardinality(S)
<1> DEFINE Q == {T \in SUBSET S : SumFunctionOnSet(f, T) # c * Cardinality(T)}
<1>1. Q = {}
  <2> SUFFICES ASSUME Q # {} PROVE FALSE
    OBVIOUS
  <2>1. PICK T \in Q : \A U \in Q : U \subseteq T => U = T
    <3> HIDE DEF Q
    <3>1. Q \in SUBSET SUBSET S
      BY DEF Q
    <3> QED
      BY <3>1, SmallestSet
  <2>2. IsFiniteSet(T) /\ T # {}
    <3>1. c * Cardinality({}) = 0
      BY FS_EmptySet
    <3> QED
      BY <3>1, FS_Subset, SumEmpty
  <2>3. PICK x \in T : TRUE
    BY <2>2
  <2>4. SumFunctionOnSet(f, T \ {x}) = c * Cardinality(T \ {x})
    BY <2>1
  <2>5. SumFunctionOnSet(f, T) = f[x] + SumFunctionOnSet(f, T \ {x})
    <3>1. \A y \in T : f[y] \in Int
      OBVIOUS
    <3> QED
      BY <2>2, <3>1, SumSplit
  <2>6. Cardinality(T \ {x}) = Cardinality(T) - 1 /\ Cardinality(T) \in Nat
    BY <2>2, FS_RemoveElement, FS_CardinalityType
  <2> DEFINE n == Cardinality(T)
  <2> HIDE DEF n
  <2>7. c * (n - 1) + c = c * n
    <3>1. n \in Int
      BY <2>6 DEF n
    <3> QED
      BY <3>1, SMT
  <2>8. f[x] = c
    OBVIOUS
  <2>9. SumFunctionOnSet(f, T) = c + c * (n - 1)
    BY <2>4, <2>5, <2>6, <2>8 DEF n
  <2>10. c * (n - 1) \in Int /\ n \in Int
    BY <2>6 DEF n
  <2>11. SumFunctionOnSet(f, T) = c * n
    BY <2>7, <2>9, <2>10
  <2> QED
    BY <2>11 DEF n
<1>2. SumFunctionOnSet(f, S) = c * Cardinality(S)
  BY <1>1
<1>3. DOMAIN f = S
  OBVIOUS
<1> QED
  BY <1>2, <1>3 DEF SumFunction

-----------------------------------------------------------------------------
(* Products and quotients *)

\* Division of a natural number by a positive one gives a natural number.
LEMMA DivNat ==
    ASSUME NEW a \in Nat, NEW b \in Nat \ {0}
    PROVE  a \div b \in Nat
BY SMT

\* A product of natural numbers is one.
LEMMA TimesNat ==
    ASSUME NEW a \in Nat, NEW b \in Nat
    PROVE  a * b \in Nat
BY SMT

\* The remainder of a division is what the quotient leaves.
LEMMA DivMod ==
    ASSUME NEW a \in Nat, NEW b \in Nat \ {0}
    PROVE  /\ b * (a \div b) <= a
           /\ a < b * (a \div b) + b
BY SMT

\* A share of at most all of an amount is at most the amount.
LEMMA ShareBound ==
    ASSUME NEW x \in Nat, NEW y \in Nat \ {0}, NEW r \in 0..y
    PROVE  (x * r) \div y \in Nat /\ (x * r) \div y <= x
<1> DEFINE s == (x * r) \div y
<1>1. x * r \in Nat
  BY TimesNat
<1>2. s \in Nat
  BY <1>1, DivNat
<1>3. y * s <= x * r
  BY <1>1, DivMod
<1>4. x * r <= x * y
  BY SMT
<1>5. ASSUME s > x PROVE FALSE
  <2>1. y * s >= y * (x + 1)
    BY <1>2, <1>5, SMT
  <2>2. y * (x + 1) = x * y + y
    BY SMT
  <2>3. y * s \in Int /\ x * y \in Int /\ x * r \in Int
    BY <1>2, SMT
  <2> QED
    BY <2>1, <2>2, <2>3, <1>3, <1>4, SMT
<1> QED
  BY <1>2, <1>5, SMT

\* A ratio of at least one does not lower an amount.
LEMMA AtLeastPar ==
    ASSUME NEW x \in Nat, NEW y \in Nat \ {0}, NEW r \in Nat, r >= y
    PROVE  (x * r) \div y \in Nat /\ (x * r) \div y >= x
<1> DEFINE s == (x * r) \div y
<1>1. x * r \in Nat
  BY TimesNat
<1>2. s \in Nat
  BY <1>1, DivNat
<1>3. x * r < y * s + y
  BY <1>1, DivMod
<1>4. x * y <= x * r
  BY SMT
<1>5. ASSUME s < x PROVE FALSE
  <2>1. y * (s + 1) <= y * x
    BY <1>2, <1>5, SMT
  <2>2. y * (s + 1) = y * s + y /\ y * x = x * y
    BY <1>2, SMT
  <2>3. y * s \in Int /\ x * y \in Int
    BY <1>2, SMT
  <2> QED
    BY <1>1, <1>3, <1>4, <2>1, <2>2, <2>3, SMT
<1> QED
  BY <1>2, <1>5, SMT

\* Division of an integer by a positive number gives an integer.
LEMMA DivInt ==
    ASSUME NEW a \in Int, NEW b \in Nat \ {0}
    PROVE  a \div b \in Int
BY SMT

LEMMA TimesInt ==
    ASSUME NEW a \in Int, NEW b \in Int
    PROVE  a * b \in Int
BY SMT

LEMMA TimesZero ==
    ASSUME NEW a \in Int
    PROVE  0 * a = 0 /\ -(0 * a) = 0
BY SMT
=============================================================================
