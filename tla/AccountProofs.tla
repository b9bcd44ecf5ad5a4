---------------------------- MODULE AccountProofs ----------------------------
(***************************************************************************)
(* With one keyboard that stays and a loop that keeps up with the user the *)
(* applications have each key as often as it was pressed and, if the user  *)
(* waits for what is typed again, with the modifiers it was pressed with,  *)
(* for all keys, sequences and grabs.                                      *)
(***************************************************************************)
EXTENDS MainProofs, WellFoundedInduction

-----------------------------------------------------------------------------
(* Sums.  Induction over the subsets of a finite set is by a least           *)
(* counterexample.                                                           *)

LEMMA LeastSubset ==
  ASSUME NEW D, IsFiniteSet(D), NEW B \in SUBSET SUBSET D, B # {}
  PROVE  \E s \in B : \A t \in B : t \subseteq s => t = s
<1>. DEFINE R == StrictSubsetOrdering(D)
<1>1. IsWellFoundedOn(R, SUBSET D)
  BY FS_StrictSubsetOrderingWellFounded, FS_FiniteSubsetsOfFinite
<1>2. PICK s \in B : \A t \in B : ~(<<t, s>> \in R)
  <2>. HIDE DEF R
  <2>. QED  BY <1>1, WFMin, Zenon
<1>3. ASSUME NEW t \in B, t \subseteq s, t # s PROVE FALSE
  <2>1. <<t, s>> \in R
    BY <1>3 DEF StrictSubsetOrdering
  <2>. QED  BY <1>2, <2>1
<1>. QED  BY <1>3

LEMMA LeastNat ==
  ASSUME NEW B \in SUBSET Nat, B # {}
  PROVE  \E n \in B : \A k \in Nat : k < n => k \notin B
<1>1. \E n \in B : \A k \in B : <<k, n>> \notin OpToRel(<, Nat)
  BY NatLessThanWellFounded, WFMin, Zenon
<1>2. \E n \in B : \A k \in B : ~(k < n)
  BY <1>1, Zenon DEF OpToRel
<1>. QED  BY <1>2

\* The sums over the subsets of at most n elements, as SumFunction adds them.
Some(s) == CHOOSE x \in s : TRUE

Small(f, n) == {s \in SUBSET DOMAIN f : Cardinality(s) <= n}

Adds(g, f, S) ==
  g = [s \in S |-> IF s = {} THEN 0 ELSE f[Some(s)] + g[s \ {Some(s)}]]

LEMMA AddsExists ==
  ASSUME NEW f, IsFiniteSet(DOMAIN f), NEW n \in Nat
  PROVE  \E g : Adds(g, f, Small(f, n))
<1>. DEFINE B == {i \in Nat : ~ \E g : Adds(g, f, Small(f, i))}
<1>0. \A s \in SUBSET DOMAIN f : IsFiniteSet(s) /\ Cardinality(s) \in Nat
  BY FS_Subset, FS_CardinalityType
<1>1. ASSUME B # {} PROVE FALSE
  <2>1. PICK i \in B : \A k \in Nat : k < i => k \notin B
    BY <1>1, LeastNat
  <2>2. CASE i = 0
    <3>1. \A s \in Small(f, 0) : s = {}
      <4>. SUFFICES ASSUME NEW s \in Small(f, 0) PROVE s = {}
        OBVIOUS
      <4>1. Cardinality(s) = 0 /\ IsFiniteSet(s)
        BY <1>0 DEF Small
      <4>. QED  BY <4>1, FS_EmptySet
    <3>2. Adds([s \in Small(f, 0) |-> 0], f, Small(f, 0))
      BY <3>1 DEF Adds
    <3>. QED  BY <2>1, <2>2, <3>2
  <2>3. CASE i # 0
    <3>1. i - 1 \in Nat /\ i - 1 < i /\ i \in Nat
      BY <2>1, <2>3
    <3>2. PICK g : Adds(g, f, Small(f, i - 1))
      BY <2>1, <3>1
    <3>3. \A s \in Small(f, i - 1) : g[s] = IF s = {} THEN 0 ELSE f[Some(s)] + g[s \ {Some(s)}]
      BY <3>2 DEF Adds
    <3>. DEFINE h == [s \in Small(f, i) |->
                        IF s \in Small(f, i - 1) THEN g[s]
                        ELSE f[Some(s)] + g[s \ {Some(s)}]]
    <3>4. ASSUME NEW s \in Small(f, i), s # {}
          PROVE  s \ {Some(s)} \in Small(f, i - 1) /\ s \ {Some(s)} \in Small(f, i)
      <4>1. Some(s) \in s
        BY <3>4 DEF Some
      <4>2. s \in SUBSET DOMAIN f /\ Cardinality(s) <= i /\ IsFiniteSet(s) /\ Cardinality(s) \in Nat
        BY <1>0 DEF Small
      <4>3. Cardinality(s \ {Some(s)}) = Cardinality(s) - 1
        BY <4>1, <4>2, FS_RemoveElement
      <4>4. Cardinality(s) - 1 <= i - 1 /\ Cardinality(s) - 1 <= i
        BY <3>1, <4>2
      <4>. QED  BY <4>2, <4>3, <4>4 DEF Small
    <3>5. {} \in Small(f, i - 1)
      BY <3>1, FS_EmptySet DEF Small
    <3>6. \A s \in Small(f, i) : s # {} => h[s \ {Some(s)}] = g[s \ {Some(s)}]
      BY <3>4
    <3>7. \A s \in Small(f, i) : h[s] = IF s = {} THEN 0 ELSE f[Some(s)] + h[s \ {Some(s)}]
      <4>. SUFFICES ASSUME NEW s \in Small(f, i)
                    PROVE  h[s] = IF s = {} THEN 0 ELSE f[Some(s)] + h[s \ {Some(s)}]
        OBVIOUS
      <4>1. CASE s \in Small(f, i - 1)
        <5>1. h[s] = g[s]
          BY <4>1
        <5>. HIDE DEF h
        <5>. QED  BY <3>3, <3>6, <4>1, <5>1
      <4>2. CASE s \notin Small(f, i - 1)
        <5>1. h[s] = f[Some(s)] + g[s \ {Some(s)}] /\ s # {}
          BY <3>5, <4>2
        <5>. HIDE DEF h
        <5>. QED  BY <3>6, <5>1
      <4>. QED  BY <4>1, <4>2
    <3>8. h = [s \in Small(f, i) |-> h[s]]
      OBVIOUS
    <3>. HIDE DEF h
    <3>9. Adds(h, f, Small(f, i))
      BY <3>7, <3>8 DEF Adds
    <3>. QED  BY <2>1, <3>9
  <2>. QED  BY <2>2, <2>3
<1>. QED  BY <1>1

LEMMA SumIs ==
  ASSUME NEW f, IsFiniteSet(DOMAIN f)
  PROVE  \E g : Adds(g, f, SUBSET DOMAIN f) /\ SumFunction(f) = g[DOMAIN f]
<1>. DEFINE P(g) == g = [s \in SUBSET DOMAIN f |->
                           IF s = {} THEN 0
                           ELSE LET x == CHOOSE x \in s : TRUE IN f[x] + g[s \ {x}]]
<1>1. Cardinality(DOMAIN f) \in Nat /\ Small(f, Cardinality(DOMAIN f)) = SUBSET DOMAIN f
  <2>1. \A s \in SUBSET DOMAIN f : Cardinality(s) <= Cardinality(DOMAIN f)
    BY FS_Subset
  <2>. QED  BY <2>1, FS_CardinalityType DEF Small
<1>2. \E g : P(g)
  <2>1. PICK g : Adds(g, f, SUBSET DOMAIN f)
    <3>1. \E g : Adds(g, f, Small(f, Cardinality(DOMAIN f)))
      BY <1>1, AddsExists
    <3>. QED  BY <1>1, <3>1
  <2>2. P(g)
    BY <2>1 DEF Adds, Some
  <2>. QED  BY <2>2
<1>3. P(CHOOSE g : P(g))
  BY <1>2
<1>4. SumFunction(f) = (CHOOSE g : P(g))[DOMAIN f]
  BY DEF SumFunction, SumFunctionOnSet, FoldFunctionOnSet, MapThenFoldSet
<1>5. Adds(CHOOSE g : P(g), f, SUBSET DOMAIN f)
  BY <1>3 DEF Adds, Some
<1>. QED  BY <1>4, <1>5

Splits(g, f, D) == \A s \in SUBSET D : \A x \in s : g[s] = f[x] + g[s \ {x}]

LEMMA SumAny ==
  ASSUME NEW D, IsFiniteSet(D), NEW f \in [D -> Int], NEW g, Adds(g, f, SUBSET D)
  PROVE  /\ g[{}] = 0
         /\ \A s \in SUBSET D : g[s] \in Int
         /\ Splits(g, f, D)
<1>0. \A s \in SUBSET D : g[s] = IF s = {} THEN 0 ELSE f[Some(s)] + g[s \ {Some(s)}]
  BY DEF Adds
<1>1. \A s \in SUBSET D : s # {} => Some(s) \in s /\ s \ {Some(s)} \in SUBSET D
  BY DEF Some
<1>2. \A s \in SUBSET D : g[s] \in Int
  <2>. DEFINE B == {s \in SUBSET D : g[s] \notin Int}
  <2>1. ASSUME B # {} PROVE FALSE
    <3>1. PICK s \in B : \A t \in B : t \subseteq s => t = s
      <4>. HIDE DEF B
      <4>1. B \in SUBSET SUBSET D
        BY DEF B
      <4>. QED  BY <2>1, <4>1, LeastSubset
    <3>0. s \in SUBSET D /\ g[s] \notin Int /\ 0 \in Int
      BY <3>1
    <3>. HIDE DEF B
    <3>2. CASE s = {}
      <4>1. g[s] = 0
        BY <1>0, <3>0, <3>2
      <4>. QED  BY <3>0, <4>1
    <3>3. CASE s # {}
      <4>1. Some(s) \in s /\ s \ {Some(s)} \in SUBSET D
        BY <1>1, <3>0, <3>3
      <4>2. g[s \ {Some(s)}] \in Int
        <5>1. s \ {Some(s)} \notin B
          BY <3>1, <4>1
        <5>. QED  BY <4>1, <5>1 DEF B
      <4>3. f[Some(s)] \in Int
        BY <3>0, <4>1
      <4>4. g[s] = f[Some(s)] + g[s \ {Some(s)}]
        BY <1>0, <3>0, <3>3
      <4>. QED  BY <3>0, <4>2, <4>3, <4>4
    <3>. QED  BY <3>2, <3>3
  <2>. QED  BY <2>1
<1>3. \A s \in SUBSET D : \A x \in s : g[s] = f[x] + g[s \ {x}]
  <2>. DEFINE B == {s \in SUBSET D : ~ \A x \in s : g[s] = f[x] + g[s \ {x}]}
  <2>1. ASSUME B # {} PROVE FALSE
    <3>1. PICK s \in B : \A t \in B : t \subseteq s => t = s
      <4>. HIDE DEF B
      <4>1. B \in SUBSET SUBSET D
        BY DEF B
      <4>. QED  BY <2>1, <4>1, LeastSubset
    <3>2. PICK x \in s : g[s] # f[x] + g[s \ {x}]
      BY <3>1
    <3>. DEFINE c == Some(s)
    <3>3. s \in SUBSET D /\ s # {} /\ c \in s /\ g[s] = f[c] + g[s \ {c}]
      BY <1>0, <1>1, <3>1, <3>2
    <3>. HIDE DEF c
    <3>4. x # c /\ s \ {c} \in SUBSET D /\ s \ {x} \in SUBSET D /\ (s \ {c}) \ {x} = (s \ {x}) \ {c}
      BY <3>2, <3>3
    <3>5. s \ {c} \notin B /\ s \ {x} \notin B
      BY <3>1, <3>2, <3>3
    <3>6. g[s \ {c}] = f[x] + g[(s \ {c}) \ {x}] /\ g[s \ {x}] = f[c] + g[(s \ {x}) \ {c}]
      BY <3>2, <3>3, <3>4, <3>5
    <3>7. f[x] \in Int /\ f[c] \in Int /\ g[(s \ {x}) \ {c}] \in Int
      <4>1. x \in D /\ c \in D /\ (s \ {x}) \ {c} \in SUBSET D
        BY <3>2, <3>3
      <4>. QED  BY <1>2, <4>1
    <3>. DEFINE z == g[(s \ {x}) \ {c}]
    <3>8. g[s] = f[c] + (f[x] + z) /\ f[x] + g[s \ {x}] = f[x] + (f[c] + z) /\ z \in Int
      BY <3>3, <3>4, <3>6, <3>7
    <3>. HIDE DEF z
    <3>. QED  BY <3>2, <3>7, <3>8
  <2>. QED  BY <2>1
<1>4. {} \in SUBSET D
  OBVIOUS
<1>. QED  BY <1>0, <1>2, <1>3, <1>4 DEF Splits

\* Sums add up,
LEMMA SumPlus ==
  ASSUME NEW D, IsFiniteSet(D), NEW f \in [D -> Int], NEW e \in [D -> Int], NEW h \in [D -> Int],
         \A x \in D : h[x] = f[x] + e[x]
  PROVE  /\ SumFunction(h) = SumFunction(f) + SumFunction(e)
         /\ SumFunction(f) \in Int /\ SumFunction(e) \in Int
<1>0. /\ DOMAIN f = D /\ DOMAIN e = D /\ DOMAIN h = D
      /\ \A x \in D : f[x] \in Int /\ e[x] \in Int /\ h[x] \in Int
  OBVIOUS
<1>1. PICK F : Adds(F, f, SUBSET D) /\ SumFunction(f) = F[D]
  BY <1>0, SumIs
<1>2. PICK E : Adds(E, e, SUBSET D) /\ SumFunction(e) = E[D]
  BY <1>0, SumIs
<1>3. PICK H1 : Adds(H1, h, SUBSET D) /\ SumFunction(h) = H1[D]
  BY <1>0, SumIs
<1>4. F[{}] = 0 /\ E[{}] = 0 /\ H1[{}] = 0
  BY <1>1, <1>2, <1>3, SumAny
<1>5. \A s \in SUBSET D : F[s] \in Int /\ E[s] \in Int /\ H1[s] \in Int
  BY <1>1, <1>2, <1>3, SumAny
<1>6. Splits(F, f, D) /\ Splits(E, e, D) /\ Splits(H1, h, D)
  BY <1>1, <1>2, <1>3, SumAny
<1>. DEFINE B == {s \in SUBSET D : H1[s] # F[s] + E[s]}
<1>7. ASSUME B # {} PROVE FALSE
  <2>1. PICK s \in B : \A t \in B : t \subseteq s => t = s
    <3>. HIDE DEF B
    <3>1. B \in SUBSET SUBSET D
      BY DEF B
    <3>. QED  BY <1>7, <3>1, LeastSubset
  <2>2. s # {} /\ s \in SUBSET D /\ H1[s] # F[s] + E[s]
    <3>1. s \in SUBSET D /\ H1[s] # F[s] + E[s] /\ 0 = 0 + 0
      BY <2>1
    <3>. QED  BY <1>4, <3>1
  <2>3. PICK x \in s : TRUE
    BY <2>2
  <2>4. s \ {x} \in SUBSET D /\ s \ {x} \notin B
    BY <2>1, <2>2, <2>3
  <2>5. H1[s \ {x}] = F[s \ {x}] + E[s \ {x}]
    BY <2>4
  <2>6. x \in D /\ f[x] \in Int /\ e[x] \in Int /\ h[x] = f[x] + e[x]
    BY <2>2, <2>3
  <2>7. /\ F[s] = f[x] + F[s \ {x}] /\ E[s] = e[x] + E[s \ {x}]
        /\ H1[s] = h[x] + H1[s \ {x}]
    BY <1>6, <2>2, <2>3 DEF Splits
  <2>8. F[s \ {x}] \in Int /\ E[s \ {x}] \in Int
    BY <1>5, <2>4
  <2>. QED  BY <2>2, <2>5, <2>6, <2>7, <2>8
<1>8. D \in SUBSET D /\ D \notin B
  BY <1>7
<1>. QED  BY <1>1, <1>2, <1>3, <1>5, <1>8

\* and where one alone counts, it is the sum.
LEMMA SumPoint ==
  ASSUME NEW D, IsFiniteSet(D), NEW f \in [D -> Int], NEW a,
         \A x \in D : x # a => f[x] = 0
  PROVE  SumFunction(f) = IF a \in D THEN f[a] ELSE 0
<1>0. DOMAIN f = D /\ \A x \in D : f[x] \in Int
  OBVIOUS
<1>1. PICK F : Adds(F, f, SUBSET D) /\ SumFunction(f) = F[D]
  BY <1>0, SumIs
<1>2. /\ F[{}] = 0
      /\ \A s \in SUBSET D : F[s] \in Int
      /\ Splits(F, f, D)
  BY <1>1, SumAny
<1>. DEFINE B == {s \in SUBSET D : a \notin s /\ F[s] # 0}
<1>3. ASSUME B # {} PROVE FALSE
  <2>1. PICK s \in B : \A t \in B : t \subseteq s => t = s
    <3>. HIDE DEF B
    <3>1. B \in SUBSET SUBSET D
      BY DEF B
    <3>. QED  BY <1>3, <3>1, LeastSubset
  <2>2. s # {} /\ s \in SUBSET D /\ a \notin s
    BY <1>2, <2>1
  <2>3. PICK x \in s : TRUE
    BY <2>2
  <2>4. s \ {x} \in SUBSET D /\ s \ {x} \notin B
    BY <2>1, <2>2, <2>3
  <2>5. F[s \ {x}] = 0 /\ f[x] = 0 /\ F[s] = f[x] + F[s \ {x}]
    BY <1>2, <2>2, <2>3, <2>4 DEF Splits
  <2>. QED  BY <2>1, <2>5
<1>4. \A s \in SUBSET D : a \notin s => F[s] = 0
  BY <1>3
<1>5. CASE a \in D
  <2>1. F[D] = f[a] + F[D \ {a}] /\ F[D \ {a}] = 0 /\ f[a] \in Int
    BY <1>2, <1>4, <1>5 DEF Splits
  <2>. QED  BY <1>1, <1>5, <2>1
<1>6. CASE a \notin D
  BY <1>1, <1>4, <1>6
<1>. QED  BY <1>5, <1>6

\* What is counted by a mark is counted by all its marks together.
LEMMA SumCounts ==
  ASSUME NEW D, IsFiniteSet(D), NEW A, IsFiniteSet(A), NEW h \in [A -> D],
         NEW f \in [D -> Int], \A m \in D : f[m] = Cardinality({i \in A : h[i] = m})
  PROVE  SumFunction(f) = Cardinality(A)
<1>. DEFINE c(S) == [m \in D |-> Cardinality({i \in S : h[i] = m})]
            B == {S \in SUBSET A : SumFunction(c(S)) # Cardinality(S)}
<1>1. \A S \in SUBSET A : IsFiniteSet(S) /\ c(S) \in [D -> Int]
  <2>. SUFFICES ASSUME NEW S \in SUBSET A PROVE IsFiniteSet(S) /\ c(S) \in [D -> Int]
    OBVIOUS
  <2>1. IsFiniteSet(S)
    BY FS_Subset
  <2>2. ASSUME NEW m \in D PROVE Cardinality({i \in S : h[i] = m}) \in Int
    <3>1. {i \in S : h[i] = m} \in SUBSET S
      OBVIOUS
    <3>2. IsFiniteSet({i \in S : h[i] = m})
      BY <2>1, <3>1, FS_Subset
    <3>. QED  BY <3>2, FS_CardinalityType
  <2>. QED  BY <2>1, <2>2
<1>2. ASSUME B # {} PROVE FALSE
  <2>1. PICK S \in B : \A T \in B : T \subseteq S => T = S
    <3>. HIDE DEF B
    <3>1. B \in SUBSET SUBSET A
      BY DEF B
    <3>. QED  BY <1>2, <3>1, LeastSubset
  <2>2. S \in SUBSET A /\ SumFunction(c(S)) # Cardinality(S)
    BY <2>1
  <2>3. CASE S = {}
    <3>1. \A m \in D : {i \in S : h[i] = m} = {}
      BY <2>3
    <3>2. \A m \in D : c(S)[m] = 0
      BY <3>1, FS_EmptySet
    <3>3. c(S) \in [D -> Int]
      BY <1>1, <2>2
    <3>4. SumFunction(c(S)) = 0
      <4>. HIDE DEF c
      <4>1. \A a : SumFunction(c(S)) = IF a \in D THEN c(S)[a] ELSE 0
        BY <3>2, <3>3, SumPoint
      <4>. QED  BY <3>2, <4>1
    <3>. QED  BY <2>2, <2>3, <3>4, FS_EmptySet
  <2>4. CASE S # {}
    <3>1. PICK a \in S : TRUE
      BY <2>4
    <3>. DEFINE R == S \ {a}
                p == [m \in D |-> IF m = h[a] THEN 1 ELSE 0]
    <3>2. a \in A /\ h[a] \in D /\ R \in SUBSET A /\ R \notin B /\ IsFiniteSet(S) /\ IsFiniteSet(R)
      BY <1>1, <2>1, <2>2, <3>1
    <3>3. SumFunction(c(R)) = Cardinality(R)
      BY <3>2
    <3>4. p \in [D -> Int] /\ p[h[a]] = 1 /\ \A m \in D : m # h[a] => p[m] = 0
      BY <3>2
    <3>5. SumFunction(p) = 1
      <4>. HIDE DEF p
      <4>. QED  BY <3>2, <3>4, SumPoint
    <3>6. \A m \in D : c(S)[m] = c(R)[m] + p[m]
      <4>. SUFFICES ASSUME NEW m \in D PROVE c(S)[m] = c(R)[m] + p[m]
        OBVIOUS
      <4>. DEFINE X == {i \in R : h[i] = m}
      <4>1. IsFiniteSet(X)
        <5>1. X \in SUBSET R
          OBVIOUS
        <5>. QED  BY <3>2, <5>1, FS_Subset
      <4>2. CASE m = h[a]
        <5>1. {i \in S : h[i] = m} = X \cup {a} /\ a \notin X
          BY <3>1, <4>2
        <5>2. Cardinality(X \cup {a}) = Cardinality(X) + 1
          BY <4>1, <5>1, FS_AddElement
        <5>. QED  BY <4>2, <5>1, <5>2
      <4>3. CASE m # h[a]
        <5>1. {i \in S : h[i] = m} = X
          BY <3>1, <4>3
        <5>2. Cardinality(X) \in Int
          BY <4>1, FS_CardinalityType
        <5>. QED  BY <4>3, <5>1, <5>2
      <4>. QED  BY <4>2, <4>3
    <3>7. c(S) \in [D -> Int] /\ c(R) \in [D -> Int]
      BY <1>1, <2>2, <3>2
    <3>8. SumFunction(c(S)) = SumFunction(c(R)) + SumFunction(p)
      <4>. DEFINE cS == c(S)
                  cR == c(R)
      <4>1. /\ cS \in [D -> Int] /\ cR \in [D -> Int] /\ p \in [D -> Int]
            /\ \A m \in D : cS[m] = cR[m] + p[m]
        BY <3>4, <3>6, <3>7
      <4>. HIDE DEF cS, cR, p
      <4>2. SumFunction(cS) = SumFunction(cR) + SumFunction(p)
        BY <4>1, SumPlus
      <4>. QED  BY <4>2 DEF cS, cR
    <3>9. Cardinality(R) = Cardinality(S) - 1 /\ Cardinality(S) \in Int
      BY <3>1, <3>2, FS_RemoveElement, FS_CardinalityType
    <3>. QED  BY <2>2, <3>3, <3>5, <3>8, <3>9
  <2>. QED  BY <2>3, <2>4
<1>3. f = c(A)
  OBVIOUS
<1>4. A \in SUBSET A /\ A \notin B
  BY <1>2
<1>. QED  BY <1>3, <1>4

-----------------------------------------------------------------------------
(* What the applications are owed of a key, whatever its modifiers.          *)

Owing(k) == SumFunction([m \in SUBSET Modifiers |-> due[<<k, m>>]])

LEMMA OwingOwed ==
  ASSUME TypeOK, NEW k \in Keys \ Modifiers, NEW C, NEW m0 \in SUBSET Modifiers,
         NEW E, NEW m1 \in SUBSET Modifiers,
         due' = Owed(C \X {m0}, E \X {m1})
  PROVE  Owing(k)' = Owing(k) + One(k \in C) - One(k \in E) /\ Owing(k) \in Int
<1>. DEFINE D == SUBSET Modifiers
            f0 == [m \in D |-> due[<<k, m>>]]
            f1 == [m \in D |-> due'[<<k, m>>]]
            p  == [m \in D |-> One(<<k, m>> \in C \X {m0})]
            q  == [m \in D |-> One(<<k, m>> \in E \X {m1})]
            h  == [m \in D |-> f0[m] + p[m]]
<1>1. IsFiniteSet(D)
  BY XServerAssumption, FS_SUBSET DEF XServerAssumption
<1>2. \A m \in D : <<k, m>> \in Stroke /\ due[<<k, m>>] \in Int
  BY DEF TypeOK, XTypeOK, Stroke
<1>3. \A m \in D : due'[<<k, m>>] = due[<<k, m>>] + One(<<k, m>> \in C \X {m0}) - One(<<k, m>> \in E \X {m1})
  BY <1>2 DEF Owed
<1>4. \A m \in D : One(<<k, m>> \in C \X {m0}) \in Int /\ One(<<k, m>> \in E \X {m1}) \in Int
  BY DEF One
<1>5. f0 \in [D -> Int] /\ f1 \in [D -> Int] /\ p \in [D -> Int] /\ q \in [D -> Int] /\ h \in [D -> Int]
  <2>1. \A m \in D : f0[m] \in Int /\ p[m] \in Int /\ q[m] \in Int
    BY <1>2, <1>4
  <2>2. (\A m \in D : h[m] = f0[m] + p[m]) /\ \A m \in D : f1[m] = f0[m] + p[m] - q[m]
    BY <1>3
  <2>3. /\ f0 = [m \in D |-> f0[m]] /\ f1 = [m \in D |-> f1[m]] /\ p = [m \in D |-> p[m]]
        /\ q = [m \in D |-> q[m]] /\ h = [m \in D |-> h[m]]
    OBVIOUS
  <2>. HIDE DEF f0, f1, p, q, h, D
  <2>4. \A m \in D : h[m] \in Int /\ f1[m] \in Int
    BY <2>1, <2>2
  <2>. QED  BY <2>1, <2>3, <2>4
<1>6. SumFunction(p) = One(k \in C)
  <2>1. \A m \in D : m # m0 => p[m] = 0
    BY DEF One
  <2>2. p[m0] = One(k \in C) /\ m0 \in D
    BY DEF One
  <2>. HIDE DEF p, D
  <2>. QED  BY <1>1, <1>5, <2>1, <2>2, SumPoint
<1>7. SumFunction(q) = One(k \in E)
  <2>1. \A m \in D : m # m1 => q[m] = 0
    BY DEF One
  <2>2. q[m1] = One(k \in E) /\ m1 \in D
    BY DEF One
  <2>. HIDE DEF q, D
  <2>. QED  BY <1>1, <1>5, <2>1, <2>2, SumPoint
<1>8. (\A m \in D : h[m] = f0[m] + p[m]) /\ \A m \in D : h[m] = f1[m] + q[m]
  <2>1. \A m \in D : h[m] = f0[m] + p[m]
    OBVIOUS
  <2>2. \A m \in D : f1[m] = f0[m] + p[m] - q[m]
    BY <1>3
  <2>3. \A m \in D : f0[m] \in Int /\ p[m] \in Int /\ q[m] \in Int
    BY <1>5
  <2>. HIDE DEF f0, f1, p, q, h
  <2>. QED  BY <2>1, <2>2, <2>3
<1>9. Owing(k) = SumFunction(f0) /\ Owing(k)' = SumFunction(f1)
  BY DEF Owing
<1>. HIDE DEF D, f0, f1, p, q, h
<1>10. /\ SumFunction(h) = SumFunction(f0) + SumFunction(p)
       /\ SumFunction(f0) \in Int /\ SumFunction(p) \in Int
  BY <1>1, <1>5, <1>8, SumPlus
<1>11. /\ SumFunction(h) = SumFunction(f1) + SumFunction(q)
       /\ SumFunction(f1) \in Int /\ SumFunction(q) \in Int
  BY <1>1, <1>5, <1>8, SumPlus
<1>. QED  BY <1>6, <1>7, <1>9, <1>10, <1>11

\* The presses of a key in a queue of kseqi's.
Presses(q, k) == Cardinality({i \in DOMAIN q : q[i].press /\ k \in q[i].codes})

\* A sequence as it is faked.
Faked(s) == [i \in DOMAIN s |-> [codes |-> {s[i].code}, press |-> s[i].press]]

LEMMA IndicesFinite ==
  ASSUME NEW n \in Nat, NEW A \in SUBSET (1 .. n)
  PROVE  IsFiniteSet(A) /\ Cardinality(A) \in Nat
<1>1. IsFiniteSet(1 .. n)
  BY FS_Interval
<1>2. IsFiniteSet(A)
  BY <1>1, FS_Subset
<1>. QED  BY <1>2, FS_CardinalityType

Appends(T, A, C, n) == \A i : i \in T <=> i \in A \/ \E j \in C : i = n + j

LEMMA IndicesJoined ==
  ASSUME NEW n \in Nat, NEW m \in Nat, NEW A \in SUBSET (1 .. n), NEW C \in SUBSET (1 .. m),
         NEW T, Appends(T, A, C, n)
  PROVE  Cardinality(T) = Cardinality(A) + Cardinality(C)
<1>. DEFINE U == {n + j : j \in C}
            f == [j \in C |-> n + j]
<1>1. IsFiniteSet(A) /\ IsFiniteSet(C) /\ Cardinality(A) \in Nat /\ Cardinality(C) \in Nat
  BY IndicesFinite
<1>2. f \in Bijection(C, U)
  <2>1. f \in [C -> U]
    OBVIOUS
  <2>2. \A i, j \in C : f[i] = f[j] => i = j
    <3>1. \A j \in C : j \in Int /\ f[j] = n + j
      OBVIOUS
    <3>. HIDE DEF f
    <3>. QED  BY <3>1
  <2>3. \A u \in U : \E j \in C : f[j] = u
    OBVIOUS
  <2>. HIDE DEF f, U
  <2>. QED  BY <2>1, <2>2, <2>3 DEF Bijection, Injection, IsInjective, Surjection
<1>3. IsFiniteSet(U) /\ Cardinality(U) = Cardinality(C)
  BY <1>1, <1>2, FS_Bijection DEF ExistsBijection
<1>4. A \cap U = {}
  <2>1. \A i \in A : i <= n
    OBVIOUS
  <2>2. \A j \in C : ~(n + j <= n)
    OBVIOUS
  <2>. QED  BY <2>1, <2>2
<1>5. T = A \cup U
  BY DEF Appends
<1>. HIDE DEF U
<1>6. Cardinality(A \cup U) = Cardinality(A) + Cardinality(U) - Cardinality(A \cap U)
  BY <1>1, <1>3, FS_Union
<1>7. Cardinality(A \cap U) = 0
  BY <1>4, FS_EmptySet
<1>8. Cardinality(T) = Cardinality(A) + Cardinality(C) - 0
  BY <1>3, <1>5, <1>6, <1>7
<1>. QED  BY <1>1, <1>8

LEMMA PressesJoined ==
  ASSUME NEW p \in Seq(FakeEvent), NEW q \in Seq(FakeEvent), NEW k
  PROVE  Presses(p \o q, k) = Presses(p, k) + Presses(q, k)
<1>. DEFINE A == {i \in DOMAIN p : p[i].press /\ k \in p[i].codes}
            C == {i \in DOMAIN q : q[i].press /\ k \in q[i].codes}
            T == {i \in DOMAIN (p \o q) : (p \o q)[i].press /\ k \in (p \o q)[i].codes}
<1>1. /\ Len(p) \in Nat /\ Len(q) \in Nat /\ DOMAIN p = 1 .. Len(p) /\ DOMAIN q = 1 .. Len(q)
      /\ DOMAIN (p \o q) = 1 .. Len(p) + Len(q)
      /\ \A i \in 1 .. Len(p) : (p \o q)[i] = p[i]
      /\ \A i \in 1 .. Len(q) : (p \o q)[Len(p) + i] = q[i]
  OBVIOUS
<1>2. ASSUME NEW i PROVE i \in T <=> i \in A \/ \E j \in C : i = Len(p) + j
  <2>1. CASE i \in 1 .. Len(p)
    <3>1. \A j \in C : i # Len(p) + j
      BY <1>1, <2>1
    <3>2. i \in 1 .. Len(p) + Len(q)
      BY <1>1, <2>1
    <3>. QED  BY <1>1, <2>1, <3>1, <3>2
  <2>2. CASE i \in 1 .. Len(p) + Len(q) /\ i \notin 1 .. Len(p)
    <3>1. /\ i - Len(p) \in 1 .. Len(q) /\ i = Len(p) + (i - Len(p))
          /\ \A j \in 1 .. Len(q) : i = Len(p) + j => j = i - Len(p)
      BY <1>1, <2>2
    <3>2. (p \o q)[i] = q[i - Len(p)]
      BY <1>1, <3>1
    <3>. QED  BY <1>1, <2>2, <3>1, <3>2
  <2>3. CASE i \notin 1 .. Len(p) + Len(q)
    <3>1. i \notin 1 .. Len(p) /\ \A j \in 1 .. Len(q) : i # Len(p) + j
      BY <1>1, <2>3
    <3>. QED  BY <1>1, <2>3, <3>1
  <2>. QED  BY <1>1, <2>1, <2>2, <2>3
<1>3. A \in SUBSET (1 .. Len(p)) /\ C \in SUBSET (1 .. Len(q))
  BY <1>1
<1>4. Presses(p \o q, k) = Cardinality(T) /\ Presses(p, k) = Cardinality(A) /\ Presses(q, k) = Cardinality(C)
  BY DEF Presses
<1>5. Appends(T, A, C, Len(p))
  BY <1>2 DEF Appends
<1>6. Len(p) \in Nat /\ Len(q) \in Nat
  BY <1>1
<1>. HIDE DEF A, C, T
<1>7. Cardinality(T) = Cardinality(A) + Cardinality(C)
  <2>1. \A n, m \in Nat : \A X \in SUBSET (1 .. n), Y \in SUBSET (1 .. m) :
          \A Z : Appends(Z, X, Y, n) => Cardinality(Z) = Cardinality(X) + Cardinality(Y)
    BY IndicesJoined
  <2>2. \A X \in SUBSET (1 .. Len(p)), Y \in SUBSET (1 .. Len(q)) :
          \A Z : Appends(Z, X, Y, Len(p)) => Cardinality(Z) = Cardinality(X) + Cardinality(Y)
    BY <1>6, <2>1
  <2>3. \A Z : Appends(Z, A, C, Len(p)) => Cardinality(Z) = Cardinality(A) + Cardinality(C)
    BY <1>3, <2>2
  <2>. QED  BY <1>5, <2>3
<1>. QED  BY <1>4, <1>7

LEMMA PressesOne ==
  ASSUME NEW f \in FakeEvent, NEW k
  PROVE  /\ Presses(<<>>, k) = 0
         /\ Presses(<<f>>, k) = One(f.press /\ k \in f.codes)
<1>1. {i \in DOMAIN <<>> : <<>>[i].press /\ k \in <<>>[i].codes} = {}
  OBVIOUS
<1>. DEFINE A == {i \in DOMAIN <<f>> : <<f>>[i].press /\ k \in <<f>>[i].codes}
<1>2. f.press \in BOOLEAN
  BY DEF FakeEvent
<1>3. CASE f.press /\ k \in f.codes
  <2>1. A = {1}
    BY <1>3
  <2>. QED  BY <1>1, <1>3, <2>1, FS_EmptySet, FS_Singleton DEF Presses, One
<1>4. CASE ~(f.press /\ k \in f.codes)
  <2>1. A = {}
    BY <1>4
  <2>. QED  BY <1>1, <1>4, <2>1, FS_EmptySet DEF Presses, One
<1>. QED  BY <1>3, <1>4

-----------------------------------------------------------------------------
(* A loop that keeps up: it and the server handle each report before the     *)
(* user's next act.  Then at most one report is on its way, and the loop's   *)
(* view of the keyboard is the server's but for that report.                 *)

KeepsUp == /\ OneKeyboard /\ MaxPlugs = 0 /\ MaxBacklog <= 1
           /\ \A d \in Keyboards : <<"grab_device", d>> \notin MayFail

\* The loop and the server agree on what floats, but for a passive grab that
\* the press on its way has made active.
Synced ==
  \A d \in Keyboards :
    /\ d \in plugged /\ d \notin detached
    /\ d \in active <=> floating = d /\ pc # "grab"
    /\ passive[d] # NoKey => events # <<>> /\ (pc = "grab" \/ floating = NoDev)
    /\ pc = "grab" => floating = d /\ passive[d] # NoKey

InStep ==
  /\ events # <<>> => Tail(events) = <<>>
  /\ pc = "settle" => events = <<>> /\ down = {}
  /\ \A d \in Keyboards :
       /\ events = <<>> => held[d] = down
       /\ events # <<>> => /\ held[d] = DownAfter(Head(events))
                           /\ Head(events).press <=> Head(events).code \notin down

\* A sequence has plain keys only since its keyboard floats, and if it counts.
NoPlain ==
  floating = NoDev \/ ~maybe =>
    \A i \in DOMAIN seqbuf : seqbuf[i].press => seqbuf[i].code \in Modifiers

Even ==
  /\ IsFiniteSet(down)
  /\ maybe => Len(seqbuf) % 2 = Cardinality(down) % 2

Prompt == pc # "exit" => Synced /\ InStep /\ NoPlain /\ Even

LEMMA PromptInit == ASSUME StartHeld = {}, KeepsUp PROVE Init => Prompt
<1>. SUFFICES ASSUME Init PROVE Synced /\ InStep /\ NoPlain /\ Even
  BY DEF Prompt
<1>1. \A d \in Keyboards : held[d] = {} /\ passive[d] = NoKey
  BY DEF Init, XInit
<1>2. Synced /\ InStep /\ NoPlain
  BY <1>1, MainAssumption DEF Init, XInit, MainInit, Synced, InStep, NoPlain, MainAssumption
<1>3. Even
  BY FS_EmptySet DEF Init, MainInit, Even
<1>. QED  BY <1>2, <1>3

\* The user's next act finds no report on its way and no key to be faked.
LEMMA UserAlone ==
  ASSUME KeepsUp, TypeInv, pc # "exit", User
  PROVE  /\ events = <<>> /\ fakes = <<>> /\ pc = "recv" /\ UNCHANGED mainVars
         /\ hasty' = (hasty \/ replay # <<>>)
         /\ \E d \in Keyboards, k \in Keys : KeyDown(d, k) \/ KeyUp(d, k)
<1>1. Len(events) \in Nat /\ Len(fakes) \in Nat /\ (Len(events) = 0 => events = <<>>) /\ (Len(fakes) = 0 => fakes = <<>>)
  BY DEF TypeInv, TypeOK, XTypeOK
<1>2. Backlog < MaxBacklog /\ MaxBacklog \in Nat
  BY XServerAssumption DEF User, XServerAssumption
<1>3. Len(events) + Len(fakes) + (IF pc = "settle" THEN 1 ELSE 0) < 1
  BY <1>2 DEF Backlog, KeepsUp
<1>4. Len(events) = 0 /\ Len(fakes) = 0 /\ pc # "settle"
  BY <1>1, <1>3
<1>5. plugs = 0
  BY DEF KeepsUp, TypeInv, TypeOK, XTypeOK
<1>6. \E d \in Keyboards, k \in Keys : KeyDown(d, k) \/ KeyUp(d, k)
  BY <1>5 DEF KeepsUp, User, Plug, Unplug, Detach, Reattach, Hotplug
<1>7. pc = "recv"
  BY <1>1, <1>4 DEF TypeInv, TypeOK, GrabPending
<1>. QED  BY <1>1, <1>4, <1>6, <1>7 DEF User

LEMMA PromptKey ==
  ASSUME KeepsUp, TypeInv, Tracked, Prompt, pc = "recv", events = <<>>,
         NEW d \in Keyboards, NEW k \in Keys,
         KeyDown(d, k) \/ KeyUp(d, k), UNCHANGED mainVars
  PROVE  /\ Prompt'
         /\ events' = <<KeyReport(d, k, k \notin down)>>
<1>1. PICK p \in BOOLEAN : /\ p <=> k \notin held[d]
                           /\ events' = <<KeyReport(d, k, p)>>
  <2>1. PICK p \in BOOLEAN : (p <=> k \notin held[d]) /\ Report(d, k, p)
    BY DEF KeyDown, KeyUp
  <2>2. events' = Append(<<>>, KeyReport(d, k, p))
    BY <2>1 DEF Report, Tracked
  <2>. QED  BY <2>1, <2>2
<1>2. held[d] = down /\ \A c \in Keyboards : c = d
  BY DEF Prompt, InStep, KeepsUp, OneKeyboard
<1>3. events' # <<>> /\ Head(events') = KeyReport(d, k, p) /\ Tail(events') = <<>>
  BY <1>1
<1>4. /\ Head(events').press = p /\ Head(events').code = k
  BY <1>3, Reports
<1>5. held'[d] = IF p THEN down \cup {k} ELSE down \ {k}
  BY <1>1, <1>2 DEF KeyDown, KeyUp, TypeInv, TypeOK, XTypeOK
<1>6. InStep'
  BY <1>1, <1>2, <1>3, <1>4, <1>5 DEF InStep, DownAfter, mainVars
<1>7. Synced'
  <2>1. UNCHANGED <<plugged, detached, active, floating, pc>>
    BY DEF KeyDown, KeyUp, setup, mainVars
  <2>2. passive[d] = NoKey /\ (d \in active <=> floating = d)
    BY <1>2 DEF Prompt, Synced
  <2>3. passive'[d] # NoKey => floating = NoDev
    <3>1. ASSUME passive'[d] # NoKey PROVE ~Floating(d)
      BY <2>2, <3>1 DEF KeyDown, KeyUp, TypeInv, TypeOK, XTypeOK
    <3>2. floating # NoDev => floating = d
      BY <1>2 DEF TypeInv, TypeOK
    <3>. QED  BY <2>2, <3>1, <3>2 DEF Floating
  <2>. QED  BY <1>2, <1>3, <2>1, <2>2, <2>3 DEF Prompt, Synced
<1>8. NoPlain' /\ Even'
  BY DEF Prompt, NoPlain, Even, mainVars
<1>9. p = (k \notin down)
  BY <1>1, <1>2
<1>. QED  BY <1>1, <1>6, <1>7, <1>8, <1>9 DEF Prompt

\* The head of the queue is taken in: how the server and the loop are then.
LEMMA PromptHandle ==
  ASSUME KeepsUp, TypeInv, Tracked, Prompt, pc \in {"recv", "grab"}, events # <<>>,
         HandleKey(Head(events)), UNCHANGED <<plugged, detached, held>>,
         LET d == Head(events).dev IN
           \/ pc = "recv" /\ floating # NoDev /\ UNCHANGED <<active, passive, floating>>
           \/ pc = "recv" /\ floating = NoDev /\ ~Floating(d) /\ UNCHANGED <<active, passive, floating>>
           \/ pc = "grab" /\ floating' = floating /\ GrabDevice(d)
  PROVE  Prompt'
<1>. DEFINE e == Head(events)
<1>1. e \in KeyEvent /\ e.dev \in Keyboards /\ e.code \in Keys /\ e.press \in BOOLEAN
  BY Popped DEF Tracked, KeyEvent, TypeInv, TypeOK, XTypeOK
<1>2. events' = <<>> /\ down' = DownAfter(e) /\ TakeIn(e) /\ (pc' = "settle" => down' = {})
      /\ pc' \in {"recv", "settle"}
  BY DEF HandleKey, Prompt, InStep
<1>3. PICK d \in Keyboards : d = e.dev /\ \A c \in Keyboards : c = d
  BY <1>1 DEF KeepsUp, OneKeyboard
<1>4. InStep'
  BY <1>1, <1>2, <1>3 DEF Prompt, InStep
<1>5. Synced'
  <2>1. passive'[d] = NoKey /\ (d \in active' <=> floating' = d) /\ d \in plugged' /\ d \notin detached'
    <3>1. d \in plugged /\ d \notin detached /\ (d \in active <=> floating = d /\ pc # "grab")
          /\ (passive[d] # NoKey => pc = "grab" \/ floating = NoDev)
          /\ (pc = "grab" => floating = d)
      BY DEF Prompt, Synced
    <3>2. passive \in [Keyboards -> Keys \cup {NoKey}]
      BY DEF TypeInv, TypeOK, XTypeOK
    <3>. QED  BY <1>3, <3>1, <3>2 DEF GrabDevice, Floating
  <2>. QED  BY <1>2, <1>3, <2>1 DEF Synced
<1>6. seqbuf \in Seq(KeyChange) /\ Len(seqbuf) \in Nat /\ DOMAIN seqbuf = 1 .. Len(seqbuf)
  BY DEF TypeInv, TypeOK
<1>. DEFINE k == [code |-> e.code, press |-> e.press]
<1>7. /\ DOMAIN Append(seqbuf, k) = 1 .. Len(seqbuf) + 1 /\ Len(Append(seqbuf, k)) = Len(seqbuf) + 1
      /\ \A i \in 1 .. Len(seqbuf) : Append(seqbuf, k)[i] = seqbuf[i]
      /\ Append(seqbuf, k)[Len(seqbuf) + 1] = k
      /\ \A i \in 1 .. Len(seqbuf) + 1 : i \in 1 .. Len(seqbuf) \/ i = Len(seqbuf) + 1
  BY <1>6
<1>8. NoPlain'
  <2>1. \/ seqbuf' = seqbuf /\ (~maybe \/ floating = NoDev)
        \/ seqbuf' = Append(seqbuf, k) /\ maybe' = maybe /\ maybe
             /\ ~(e.press /\ e.code \notin Modifiers /\ floating = NoDev)
    <3>. DEFINE X == e.press /\ e.code \notin Modifiers /\ floating = NoDev
    <3>1. CASE ~maybe
      <4>1. seqbuf' = seqbuf
        BY <1>2, <3>1 DEF TakeIn
      <4>. QED  BY <3>1, <4>1
    <3>2. CASE maybe /\ X
      <4>1. seqbuf' = seqbuf
        BY <1>2, <3>2 DEF TakeIn
      <4>. QED  BY <3>2, <4>1
    <3>3. CASE maybe /\ ~X
      <4>1. seqbuf' = Append(seqbuf, k) /\ maybe' = maybe
        BY <1>2, <3>3 DEF TakeIn
      <4>. QED  BY <3>3, <4>1
    <3>. QED  BY <3>1, <3>2, <3>3
  <2>2. floating' = floating
    OBVIOUS
  <2>3. CASE seqbuf' = seqbuf /\ (~maybe \/ floating = NoDev)
    BY <2>2, <2>3 DEF Prompt, NoPlain
  <2>4. CASE seqbuf' = Append(seqbuf, k) /\ maybe' = maybe /\ maybe
             /\ ~(e.press /\ e.code \notin Modifiers /\ floating = NoDev)
    <3>. SUFFICES ASSUME floating = NoDev, NEW i \in DOMAIN seqbuf', seqbuf'[i].press
                  PROVE  seqbuf'[i].code \in Modifiers
      BY <2>2, <2>4 DEF NoPlain
    <3>1. i \in 1 .. Len(seqbuf) \/ i = Len(seqbuf) + 1
      BY <1>7, <2>4
    <3>2. CASE i \in 1 .. Len(seqbuf)
      BY <1>6, <1>7, <2>4, <3>2 DEF Prompt, NoPlain
    <3>3. CASE i = Len(seqbuf) + 1
      BY <1>7, <2>4, <3>3
    <3>. QED  BY <3>1, <3>2, <3>3
  <2>. QED  BY <2>1, <2>3, <2>4
<1>9. Even'
  <2>1. IsFiniteSet(down) /\ Cardinality(down) \in Nat
    BY FS_CardinalityType DEF Prompt, Even
  <2>2. e.press <=> e.code \notin down
    BY <1>3 DEF Prompt, InStep
  <2>3. IsFiniteSet(down') /\ (Cardinality(down') = Cardinality(down) + 1 \/ Cardinality(down') = Cardinality(down) - 1)
    <3>1. CASE e.press
      BY <1>2, <2>1, <2>2, <3>1, FS_AddElement DEF DownAfter
    <3>2. CASE ~e.press
      BY <1>2, <2>1, <2>2, <3>2, FS_RemoveElement DEF DownAfter
    <3>. QED  BY <3>1, <3>2
  <2>4. maybe' => maybe /\ Len(seqbuf') = Len(seqbuf) + 1
    BY <1>2, <1>7 DEF TakeIn
  <2>5. Cardinality(down') \in Nat
    BY <2>3, FS_CardinalityType
  <2>6. ASSUME maybe' PROVE Len(seqbuf') % 2 = Cardinality(down') % 2
    <3>1. Len(seqbuf) % 2 = Cardinality(down) % 2 /\ Len(seqbuf') = Len(seqbuf) + 1
      BY <2>4, <2>6 DEF Prompt, Even
    <3>. DEFINE a == Len(seqbuf)
                b == Cardinality(down)
                c == Cardinality(down')
    <3>2. a \in Nat /\ b \in Nat /\ c \in Nat /\ a % 2 = b % 2 /\ (c = b + 1 \/ c = b - 1)
      BY <1>6, <2>1, <2>3, <2>5, <3>1
    <3>. HIDE DEF a, b, c
    <3>3. (a + 1) % 2 = c % 2
      BY <3>2
    <3>. QED  BY <3>1, <3>3 DEF a, c
  <2>. QED  BY <2>3, <2>6 DEF Even
<1>. QED  BY <1>4, <1>5, <1>8, <1>9 DEF Prompt

\* What becomes of a sequence leaves nothing behind.
LEMMA PromptSettle ==
  ASSUME KeepsUp, TypeInv, Prompt, Settle
  PROVE  Prompt'
<1>1. /\ pc' = "recv" /\ seqbuf' = <<>> /\ floating' = NoDev /\ events' = events /\ down' = down
      /\ plugged' = plugged /\ detached' = detached /\ held' = held
  BY DEF Settle, Unfloat, setup
<1>2. events = <<>> /\ down = {}
  BY DEF Settle, Prompt, InStep
<1>3. Synced'
  <2>1. ASSUME NEW d \in Keyboards
        PROVE  d \in plugged' /\ d \notin detached' /\ d \notin active' /\ passive'[d] = NoKey
    <3>1. /\ d \in plugged /\ d \notin detached /\ (d \in active => floating = d)
          /\ passive[d] = NoKey
      BY <1>2 DEF Prompt, Synced, Settle
    <3>2. passive \in [Keyboards -> Keys \cup {NoKey}]
      BY DEF TypeInv, TypeOK, XTypeOK
    <3>3. CASE floating = NoDev
      BY <1>1, <3>1, <3>3, MainAssumption DEF Settle, Unfloat, MainAssumption
    <3>4. CASE floating # NoDev
      BY <1>1, <3>1, <3>2, <3>4 DEF Settle, Unfloat, UngrabDevice
    <3>. QED  BY <3>3, <3>4
  <2>. QED  BY <1>1, <2>1, MainAssumption DEF Synced, MainAssumption
<1>4. InStep'
  BY <1>1, <1>2 DEF Settle, Prompt, InStep
<1>5. NoPlain'
  BY <1>1 DEF NoPlain
<1>6. Even'
  BY <1>1, <1>2, FS_EmptySet DEF Even
<1>. QED  BY <1>3, <1>4, <1>5, <1>6 DEF Prompt

LEMMA PromptStep ==
  ASSUME KeepsUp, TypeInv, Tracked, Prompt, [Next]_vars
  PROVE  Prompt'
<1>1. CASE pc = "exit"
  <2>1. pc' = "exit"
    BY <1>1 DEF Next, User, Server, Daemon, RecvKey, GrabFloating, Settle, RecvHier, ProcReplay, Quit,
                vars, mainVars
  <2>. QED  BY <2>1 DEF Prompt
<1>2. CASE pc # "exit" /\ User
  BY <1>2, UserAlone, PromptKey
<1>3. CASE UNCHANGED <<plugged, detached, active, passive, held, events, down, floating, maybe, seqbuf, pc>>
  BY <1>3 DEF Prompt, Synced, InStep, NoPlain, Even, DownAfter
<1>4. CASE pc # "exit" /\ RecvKey
  <2>1. Head(events).dev \in devs /\ Head(events) \in KeyEvent
    BY <1>4, Popped DEF RecvKey, Tracked, KeyEvent, TypeInv, TypeOK, XTypeOK
  <2>2. UNCHANGED <<plugged, detached, held, active, passive>> /\ pc = "recv" /\ events # <<>>
    BY <1>4 DEF RecvKey, setup
  <2>3. CASE HandleKey(Head(events)) /\ ~(floating = NoDev /\ Floating(Head(events).dev)) /\ UNCHANGED floating
    BY <2>2, <2>3, PromptHandle
  <2>4. CASE /\ floating = NoDev /\ Floating(Head(events).dev)
             /\ floating' = Head(events).dev /\ pc' = "grab"
             /\ UNCHANGED <<seqbuf, down, maybe, events>>
    <3>. DEFINE d == Head(events).dev
    <3>1. d \in Keyboards /\ \A c \in Keyboards : c = d
      BY <2>1 DEF KeepsUp, OneKeyboard, KeyEvent
    <3>2. d \in plugged /\ d \notin detached /\ d \notin active /\ passive[d] # NoKey
      BY <1>4, <2>4, <3>1, MainAssumption DEF Prompt, Synced, Floating, MainAssumption
    <3>3. Synced'
      BY <2>2, <2>4, <3>1, <3>2 DEF Synced
    <3>4. InStep' /\ NoPlain' /\ Even'
      BY <1>4, <2>2, <2>4 DEF Prompt, InStep, NoPlain, Even, DownAfter
    <3>. QED  BY <3>3, <3>4 DEF Prompt
  <2>. QED  BY <1>4, <2>1, <2>3, <2>4 DEF RecvKey
<1>5. CASE pc # "exit" /\ GrabFloating
  <2>1. /\ pc = "grab" /\ events # <<>> /\ floating = Head(events).dev /\ floating' = floating
        /\ UNCHANGED <<plugged, detached, held>> /\ HandleKey(Head(events))
    BY <1>5 DEF GrabFloating, TypeInv, GrabPending, setup
  <2>2. /\ Head(events) \in KeyEvent /\ Head(events).dev \in plugged
        /\ Head(events).dev \in Keyboards
    BY <2>1, Popped DEF Tracked, KeyEvent, TypeInv, TypeOK, XTypeOK, Prompt, Synced
  <2>3. GrabDevice(Head(events).dev)
    BY <1>5, <2>1, <2>2 DEF GrabFloating, KeepsUp
  <2>. QED  BY <2>1, <2>3, PromptHandle
<1>6. CASE pc # "exit" /\ Settle
  BY <1>6, PromptSettle
<1>7. CASE pc # "exit" /\ RecvHier
  BY <1>7, Popped DEF RecvHier, Tracked, KeyEvent, TypeInv, TypeOK, XTypeOK
<1>8. CASE Quit
  BY <1>8 DEF Quit, Prompt
<1>9. CASE Server \/ ProcReplay \/ UNCHANGED vars
  BY <1>3, <1>9 DEF Server, ServeFakes, ProcReplay, setup, mainVars, vars, srvVars
<1>. QED  BY <1>1, <1>2, <1>4, <1>5, <1>6, <1>7, <1>8, <1>9 DEF Next, Daemon

-----------------------------------------------------------------------------
(* Why a loop that keeps up neither loses a key nor types one twice: what    *)
(* the applications are owed of a key is what kseqi has of it, in one of its *)
(* queues or still to be read.                                               *)

LEMMA PressesType ==
  ASSUME NEW q \in Seq(FakeEvent), NEW k
  PROVE  Presses(q, k) \in Nat
<1>1. Len(q) \in Nat /\ {i \in DOMAIN q : q[i].press /\ k \in q[i].codes} \in SUBSET (1 .. Len(q))
  OBVIOUS
<1>. QED  BY <1>1, IndicesFinite DEF Presses

LEMMA PressesAppended ==
  ASSUME NEW q \in Seq(FakeEvent), NEW f \in FakeEvent, NEW k
  PROVE  /\ Append(q, f) \in Seq(FakeEvent)
         /\ Presses(Append(q, f), k) = Presses(q, k) + One(f.press /\ k \in f.codes)
<1>1. Append(q, f) = q \o <<f>> /\ <<f>> \in Seq(FakeEvent) /\ Append(q, f) \in Seq(FakeEvent)
  OBVIOUS
<1>2. Presses(q \o <<f>>, k) = Presses(q, k) + Presses(<<f>>, k)
  BY <1>1, PressesJoined
<1>. QED  BY <1>1, <1>2, PressesOne

LEMMA PressesTaken ==
  ASSUME NEW q \in Seq(FakeEvent), q # <<>>, NEW k
  PROVE  /\ Head(q) \in FakeEvent /\ Tail(q) \in Seq(FakeEvent)
         /\ Presses(q, k) = One(Head(q).press /\ k \in Head(q).codes) + Presses(Tail(q), k)
<1>1. q = <<Head(q)>> \o Tail(q) /\ <<Head(q)>> \in Seq(FakeEvent) /\ Tail(q) \in Seq(FakeEvent) /\ Head(q) \in FakeEvent
  OBVIOUS
<1>2. Presses(<<Head(q)>> \o Tail(q), k) = Presses(<<Head(q)>>, k) + Presses(Tail(q), k)
  BY <1>1, PressesJoined
<1>. QED  BY <1>1, <1>2, PressesOne

LEMMA FakedIs ==
  ASSUME NEW s \in Seq(KeyChange)
  PROVE  /\ Faked(s) \in Seq(FakeEvent) /\ Len(Faked(s)) = Len(s) /\ DOMAIN Faked(s) = DOMAIN s
         /\ \A i \in DOMAIN s : Faked(s)[i] = [codes |-> {s[i].code}, press |-> s[i].press]
<1>1. Len(s) \in Nat /\ DOMAIN s = 1 .. Len(s)
  OBVIOUS
<1>2. \A i \in DOMAIN s : [codes |-> {s[i].code}, press |-> s[i].press] \in FakeEvent
  <2>1. \A i \in DOMAIN s : s[i].code \in Keys /\ s[i].press \in BOOLEAN
    <3>1. \A i \in DOMAIN s : s[i] \in KeyChange
      OBVIOUS
    <3>. QED  BY <3>1 DEF KeyChange
  <2>. QED  BY <2>1 DEF FakeEvent
<1>. QED  BY <1>1, <1>2 DEF Faked

LEMMA FakedJoined ==
  ASSUME NEW s \in Seq(KeyChange), NEW t \in Seq(KeyChange)
  PROVE  Faked(s \o t) = Faked(s) \o Faked(t)
<1>1. /\ Len(s) \in Nat /\ Len(t) \in Nat /\ DOMAIN s = 1 .. Len(s) /\ DOMAIN t = 1 .. Len(t)
      /\ s \o t \in Seq(KeyChange) /\ Len(s \o t) = Len(s) + Len(t) /\ DOMAIN (s \o t) = 1 .. Len(s) + Len(t)
      /\ \A i \in 1 .. Len(s) : (s \o t)[i] = s[i]
      /\ \A i \in 1 .. Len(t) : (s \o t)[Len(s) + i] = t[i]
  OBVIOUS
<1>. DEFINE p == Faked(s)
            q == Faked(t)
            r == Faked(s \o t)
            pq == p \o q
<1>2. /\ p \in Seq(FakeEvent) /\ Len(p) = Len(s)
      /\ q \in Seq(FakeEvent) /\ Len(q) = Len(t)
      /\ r \in Seq(FakeEvent) /\ Len(r) = Len(s) + Len(t)
  BY <1>1, FakedIs
<1>3. /\ \A i \in 1 .. Len(s) : r[i] = p[i]
      /\ \A i \in 1 .. Len(t) : r[Len(s) + i] = q[i]
  <2>1. ASSUME NEW i \in 1 .. Len(s) PROVE r[i] = p[i]
    <3>1. i \in DOMAIN s /\ i \in DOMAIN (s \o t)
      BY <1>1
    <3>. QED  BY <1>1, <3>1 DEF Faked
  <2>2. ASSUME NEW i \in 1 .. Len(t) PROVE r[Len(s) + i] = q[i]
    <3>1. i \in DOMAIN t /\ Len(s) + i \in DOMAIN (s \o t)
      BY <1>1
    <3>. QED  BY <1>1, <3>1 DEF Faked
  <2>. QED  BY <2>1, <2>2
<1>. HIDE DEF p, q, r
<1>4. /\ pq \in Seq(FakeEvent) /\ Len(pq) = Len(s) + Len(t)
      /\ \A i \in 1 .. Len(s) : pq[i] = p[i]
      /\ \A i \in 1 .. Len(t) : pq[Len(s) + i] = q[i]
  <2>1. /\ pq \in Seq(FakeEvent) /\ Len(pq) = Len(p) + Len(q)
        /\ \A i \in 1 .. Len(p) : pq[i] = p[i]
        /\ \A i \in 1 .. Len(q) : pq[Len(p) + i] = q[i]
    <3>1. p \in Seq(FakeEvent) /\ q \in Seq(FakeEvent)
      BY <1>2
    <3>. QED  BY <3>1
  <2>. QED  BY <1>2, <2>1
<1>. HIDE DEF pq
<1>5. ASSUME NEW i \in 1 .. Len(s) + Len(t) PROVE r[i] = pq[i]
  <2>1. CASE i \in 1 .. Len(s)
    BY <1>3, <1>4, <2>1
  <2>2. CASE i \notin 1 .. Len(s)
    <3>1. i - Len(s) \in 1 .. Len(t) /\ Len(s) + (i - Len(s)) = i
      BY <1>1, <2>2
    <3>2. r[Len(s) + (i - Len(s))] = q[i - Len(s)] /\ pq[Len(s) + (i - Len(s))] = q[i - Len(s)]
      BY <1>3, <1>4, <3>1
    <3>. QED  BY <3>1, <3>2
  <2>. QED  BY <2>1, <2>2
<1>6. r = pq
  BY <1>1, <1>2, <1>4, <1>5
<1>. QED  BY <1>6 DEF r, pq, p, q

LEMMA FakedOne ==
  ASSUME NEW c \in KeyChange
  PROVE  /\ Faked(<<c>>) = <<[codes |-> {c.code}, press |-> c.press]>>
         /\ [codes |-> {c.code}, press |-> c.press] \in FakeEvent
  BY DEF Faked, KeyChange, FakeEvent

\* The same of a sequence that is faked.
LEMMA FakedAppended ==
  ASSUME NEW s \in Seq(KeyChange), NEW c \in KeyChange, NEW k
  PROVE  /\ Append(s, c) \in Seq(KeyChange)
         /\ Faked(Append(s, c)) = Append(Faked(s), [codes |-> {c.code}, press |-> c.press])
         /\ Presses(Faked(Append(s, c)), k) = Presses(Faked(s), k) + One(c.press /\ k = c.code)
<1>. DEFINE f == [codes |-> {c.code}, press |-> c.press]
<1>1. Append(s, c) = s \o <<c>> /\ <<c>> \in Seq(KeyChange) /\ Append(s, c) \in Seq(KeyChange)
  OBVIOUS
<1>2. Faked(<<c>>) = <<f>> /\ f \in FakeEvent
  BY FakedOne
<1>3. Faked(s) \in Seq(FakeEvent)
  BY FakedIs
<1>4. Faked(Append(s, c)) = Faked(s) \o <<f>>
  BY <1>1, <1>2, FakedJoined
<1>5. Faked(s) \o <<f>> = Append(Faked(s), f)
  BY <1>3
<1>6. Presses(Append(Faked(s), f), k) = Presses(Faked(s), k) + One(f.press /\ k \in f.codes)
  BY <1>2, <1>3, PressesAppended
<1>7. One(f.press /\ k \in f.codes) = One(c.press /\ k = c.code)
  BY DEF One
<1>. QED  BY <1>1, <1>4, <1>5, <1>6, <1>7

LEMMA FakedTaken ==
  ASSUME NEW s \in Seq(KeyChange), s # <<>>, NEW k
  PROVE  /\ Head(s) \in KeyChange /\ Tail(s) \in Seq(KeyChange)
         /\ Faked(s) = <<[codes |-> {Head(s).code}, press |-> Head(s).press]>> \o Faked(Tail(s))
         /\ Presses(Faked(s), k) = One(Head(s).press /\ k = Head(s).code) + Presses(Faked(Tail(s)), k)
<1>. DEFINE c == Head(s)
            f == [codes |-> {c.code}, press |-> c.press]
<1>1. s = <<c>> \o Tail(s) /\ c \in KeyChange /\ <<c>> \in Seq(KeyChange) /\ Tail(s) \in Seq(KeyChange)
  OBVIOUS
<1>. HIDE DEF c
<1>2. Faked(<<c>>) = <<f>> /\ f \in FakeEvent
  BY <1>1, FakedOne
<1>3. Faked(<<c>> \o Tail(s)) = <<f>> \o Faked(Tail(s))
  BY <1>1, <1>2, FakedJoined
<1>4. Faked(Tail(s)) \in Seq(FakeEvent) /\ <<f>> \in Seq(FakeEvent)
  BY <1>1, <1>2, FakedIs
<1>5. Presses(<<f>> \o Faked(Tail(s)), k) = Presses(<<f>>, k) + Presses(Faked(Tail(s)), k)
  BY <1>4, PressesJoined
<1>6. Presses(<<f>>, k) = One(f.press /\ k \in f.codes)
  BY <1>2, PressesOne
<1>7. One(f.press /\ k \in f.codes) = One(c.press /\ k = c.code)
  BY DEF One
<1>. QED  BY <1>1, <1>3, <1>5, <1>6, <1>7 DEF c

LEMMA PressesNone ==
  ASSUME NEW s \in Seq(KeyChange), NEW k, \A i \in DOMAIN s : s[i].press => s[i].code # k
  PROVE  Presses(Faked(s), k) = 0
<1>1. {i \in DOMAIN Faked(s) : Faked(s)[i].press /\ k \in Faked(s)[i].codes} = {}
  <2>1. /\ DOMAIN Faked(s) = DOMAIN s
        /\ \A i \in DOMAIN s : Faked(s)[i].codes = {s[i].code} /\ Faked(s)[i].press = s[i].press
    <3>. DEFINE q == Faked(s)
    <3>1. /\ DOMAIN q = DOMAIN s
          /\ \A i \in DOMAIN s : q[i] = [codes |-> {s[i].code}, press |-> s[i].press]
      BY FakedIs
    <3>. HIDE DEF q
    <3>2. \A i \in DOMAIN s : q[i].codes = {s[i].code} /\ q[i].press = s[i].press
      BY <3>1
    <3>. QED  BY <3>1, <3>2 DEF q
  <2>. QED  BY <2>1
<1>. QED  BY <1>1, FS_EmptySet DEF Presses

LEMMA OwingSpent ==
  ASSUME TypeOK, Spend(seqbuf), NEW k \in Keys \ Modifiers
  PROVE  Owing(k)' = Owing(k) - Presses(Faked(seqbuf), k) /\ Owing(k) \in Int
<1>. DEFINE D  == SUBSET Modifiers
            A  == {i \in DOMAIN seqbuf : seqbuf[i].press /\ seqbuf[i].code = k}
            h  == [i \in A |-> ModsAt(seqbuf, i)]
            c  == [m \in D |-> Cardinality({i \in A : h[i] = m})]
            f0 == [m \in D |-> due[<<k, m>>]]
            f1 == [m \in D |-> due'[<<k, m>>]]
<1>1. IsFiniteSet(D)
  BY XServerAssumption, FS_SUBSET DEF XServerAssumption
<1>2. seqbuf \in Seq(KeyChange) /\ Len(seqbuf) \in Nat /\ A \in SUBSET (1 .. Len(seqbuf))
  BY DEF TypeOK
<1>3. IsFiniteSet(A)
  BY <1>2, IndicesFinite
<1>4. h \in [A -> D]
  BY DEF ModsAt
<1>5. ASSUME NEW m \in D
      PROVE  {i \in DOMAIN seqbuf : seqbuf[i].press /\ <<seqbuf[i].code, ModsAt(seqbuf, i)>> = <<k, m>>}
               = {i \in A : h[i] = m}
  OBVIOUS
<1>6. \A m \in D : <<k, m>> \in Stroke /\ due[<<k, m>>] \in Int
  BY DEF TypeOK, XTypeOK, Stroke
<1>7. ASSUME NEW m \in D PROVE f1[m] = f0[m] - c[m] /\ f0[m] \in Int /\ c[m] \in Int
  <2>1. {i \in A : h[i] = m} \in SUBSET (1 .. Len(seqbuf))
    BY <1>2
  <2>2. Cardinality({i \in A : h[i] = m}) \in Nat
    BY <1>2, <2>1, IndicesFinite
  <2>3. due'[<<k, m>>] = due[<<k, m>>] - Cardinality({i \in A : h[i] = m})
    BY <1>5, <1>6 DEF Spend
  <2>. QED  BY <1>6, <2>2, <2>3
<1>8. f0 = [m \in D |-> f0[m]] /\ f1 = [m \in D |-> f1[m]] /\ c = [m \in D |-> c[m]]
  OBVIOUS
<1>9. Owing(k) = SumFunction(f0) /\ Owing(k)' = SumFunction(f1)
  BY DEF Owing
<1>10. \A m \in D : c[m] = Cardinality({i \in A : h[i] = m})
  OBVIOUS
<1>11. A = {i \in DOMAIN Faked(seqbuf) : Faked(seqbuf)[i].press /\ k \in Faked(seqbuf)[i].codes}
  <2>1. /\ DOMAIN Faked(seqbuf) = DOMAIN seqbuf
        /\ \A i \in DOMAIN seqbuf : Faked(seqbuf)[i] = [codes |-> {seqbuf[i].code}, press |-> seqbuf[i].press]
    BY <1>2, FakedIs
  <2>2. \A i \in DOMAIN seqbuf : /\ Faked(seqbuf)[i].press = seqbuf[i].press
                                 /\ k \in Faked(seqbuf)[i].codes <=> seqbuf[i].code = k
    BY <2>1
  <2>. QED  BY <2>1, <2>2
<1>. HIDE DEF D, A, h, c, f0, f1
<1>12. f0 \in [D -> Int] /\ f1 \in [D -> Int] /\ c \in [D -> Int]
  <2>1. \A m \in D : f0[m] \in Int /\ c[m] \in Int /\ f1[m] \in Int
    BY <1>7
  <2>. QED  BY <1>8, <2>1
<1>13. SumFunction(c) = Cardinality(A)
  BY <1>1, <1>3, <1>4, <1>10, <1>12, SumCounts
<1>14. \A m \in D : f0[m] = f1[m] + c[m]
  BY <1>7
<1>15. /\ SumFunction(f0) = SumFunction(f1) + SumFunction(c)
       /\ SumFunction(f1) \in Int /\ SumFunction(c) \in Int
  BY <1>1, <1>12, <1>14, SumPlus
<1>. QED  BY <1>9, <1>11, <1>13, <1>15 DEF Presses

\* The press at the head of the queue has not reached the applications.
Withheld(k) == /\ events # <<>> /\ Head(events).press /\ Head(events).code = k
               /\ Floating(Head(events).dev)

Balanced ==
  pc # "exit" => \A k \in Keys \ Modifiers :
    Owing(k) = Presses(fakes, k) + Presses(Faked(replay), k) + Presses(Faked(seqbuf), k)
                 + One(Withheld(k))

LEMMA BalancedInit == ASSUME Init PROVE Balanced
<1>. SUFFICES ASSUME NEW k \in Keys \ Modifiers
              PROVE  Owing(k) = Presses(fakes, k) + Presses(Faked(replay), k)
                                  + Presses(Faked(seqbuf), k) + One(Withheld(k))
  BY DEF Balanced
<1>. DEFINE f == [m \in SUBSET Modifiers |-> due[<<k, m>>]]
<1>1. f \in [SUBSET Modifiers -> Int] /\ \A m \in SUBSET Modifiers : f[m] = 0
  BY DEF Init, XInit, Stroke
<1>2. IsFiniteSet(SUBSET Modifiers)
  BY XServerAssumption, FS_SUBSET DEF XServerAssumption
<1>3. SumFunction(f) = 0
  <2>. HIDE DEF f
  <2>1. {} \in SUBSET Modifiers /\ f[{}] = 0
    BY <1>1
  <2>. QED  BY <1>1, <1>2, <2>1, SumPoint
<1>4. fakes = <<>> /\ replay = <<>> /\ seqbuf = <<>> /\ events = <<>>
  BY DEF Init, XInit, MainInit
<1>5. Presses(fakes, k) = 0
  BY <1>4, FS_EmptySet DEF Presses
<1>6. Presses(Faked(<<>>), k) = 0
  <2>1. <<>> \in Seq(KeyChange) /\ \A i \in DOMAIN <<>> : <<>>[i].press => <<>>[i].code # k
    OBVIOUS
  <2>. QED  BY <2>1, PressesNone
<1>7. One(Withheld(k)) = 0
  BY <1>4 DEF One, Withheld
<1>. QED  BY <1>3, <1>4, <1>5, <1>6, <1>7 DEF Owing

\* What kseqi has of a key, all counted.
LEMMA CountsType ==
  ASSUME TypeOK, NEW k
  PROVE  /\ fakes \in Seq(FakeEvent) /\ replay \in Seq(KeyChange) /\ seqbuf \in Seq(KeyChange)
         /\ Presses(fakes, k) \in Nat /\ Presses(Faked(replay), k) \in Nat
         /\ Presses(Faked(seqbuf), k) \in Nat /\ One(Withheld(k)) \in {0, 1}
<1>1. fakes \in Seq(FakeEvent) /\ replay \in Seq(KeyChange) /\ seqbuf \in Seq(KeyChange)
  BY DEF TypeOK, XTypeOK
<1>2. Faked(replay) \in Seq(FakeEvent) /\ Faked(seqbuf) \in Seq(FakeEvent)
  BY <1>1, FakedIs
<1>. QED  BY <1>1, <1>2, PressesType DEF One

LEMMA BalancedKey ==
  ASSUME KeepsUp, TypeInv, Tracked, Prompt, Balanced, pc # "exit", User
  PROVE  Balanced'
<1>1. /\ events = <<>> /\ fakes = <<>> /\ pc = "recv" /\ UNCHANGED mainVars
  BY UserAlone
<1>2. PICK d \in Keyboards, k \in Keys : KeyDown(d, k) \/ KeyUp(d, k)
  BY UserAlone
<1>3. events' = <<KeyReport(d, k, k \notin down)>> /\ held[d] = down /\ fakes' = fakes
  BY <1>1, <1>2, PromptKey DEF KeyDown, KeyUp, Prompt, InStep
<1>4. Head(events').press = (k \notin down) /\ Head(events').code = k /\ Head(events').dev = d /\ events' # <<>>
  BY <1>3, Reports
<1>. SUFFICES ASSUME NEW j \in Keys \ Modifiers
              PROVE  Owing(j)' = Presses(fakes, j) + Presses(Faked(replay), j)
                                   + Presses(Faked(seqbuf), j) + One(Withheld(j)')
  BY <1>1, <1>3 DEF Balanced, mainVars
<1>5. Owing(j) = Presses(fakes, j) + Presses(Faked(replay), j) + Presses(Faked(seqbuf), j) + 0
  BY <1>1 DEF Balanced, Withheld, One
<1>6. TypeOK /\ Owing(j) \in Int /\ Presses(fakes, j) \in Nat
      /\ Presses(Faked(replay), j) \in Nat /\ Presses(Faked(seqbuf), j) \in Nat
  BY <1>5, CountsType DEF TypeInv
<1>7. CASE KeyUp(d, k)
  <2>1. due' = due /\ k \in down
    BY <1>3, <1>7 DEF KeyUp
  <2>2. ~(Withheld(j)') /\ Owing(j)' = Owing(j)
    BY <1>4, <2>1 DEF Withheld, Owing
  <2>. QED  BY <1>5, <2>2 DEF One
<1>8. CASE KeyDown(d, k)
  <2>. DEFINE mods  == held[d] \cap Modifiers
              grabs == ~Floating(d) /\ <<k, mods>> \in armed[d]
  <2>1. k \notin down /\ detached' = detached /\ active' = active
        /\ passive' = (IF grabs THEN [passive EXCEPT ![d] = k] ELSE passive)
        /\ (grabs \/ Floating(d) => due' = Owed({<<k, mods>>}, {}))
        /\ (~(grabs \/ Floating(d)) => due' = Owed({<<k, mods>>}, {<<k, core \cap Modifiers>>}))
    BY <1>3, <1>8 DEF KeyDown, setup
  <2>2. Floating(d)' <=> grabs \/ Floating(d)
    <3>1. passive \in [Keyboards -> Keys \cup {NoKey}] /\ k # NoKey
      BY XServerAssumption DEF TypeInv, TypeOK, XTypeOK, XServerAssumption
    <3>2. grabs => passive'[d] # NoKey
      BY <2>1, <3>1
    <3>3. ~grabs => passive' = passive
      BY <2>1
    <3>. QED  BY <2>1, <3>2, <3>3 DEF Floating
  <2>3. Withheld(j)' <=> k = j /\ Floating(d)'
    BY <1>4, <2>1 DEF Withheld
  <2>4. mods \in SUBSET Modifiers /\ core \cap Modifiers \in SUBSET Modifiers
    OBVIOUS
  <2>. HIDE DEF mods, grabs
  <2>5. CASE grabs \/ Floating(d)
    <3>1. due' = Owed({k} \X {mods}, {} \X {mods})
      <4>1. {<<k, mods>>} = {k} \X {mods} /\ {} = {} \X {mods}
        OBVIOUS
      <4>. QED  BY <2>1, <2>5, <4>1
    <3>2. Owing(j)' = Owing(j) + One(j \in {k}) - One(j \in {})
      BY <1>6, <2>4, <3>1, OwingOwed
    <3>3. One(j \in {k}) = One(Withheld(j)') /\ One(j \in {}) = 0 /\ One(Withheld(j)') \in Int
      BY <2>2, <2>3, <2>5 DEF One
    <3>4. Owing(j)' = Owing(j) + One(Withheld(j)')
      BY <1>6, <3>2, <3>3
    <3>. QED  BY <1>5, <1>6, <3>3, <3>4
  <2>6. CASE ~(grabs \/ Floating(d))
    <3>1. due' = Owed({k} \X {mods}, {k} \X {core \cap Modifiers})
      <4>1. {<<k, mods>>} = {k} \X {mods} /\ {<<k, core \cap Modifiers>>} = {k} \X {core \cap Modifiers}
        OBVIOUS
      <4>. QED  BY <2>1, <2>6, <4>1
    <3>2. Owing(j)' = Owing(j) + One(j \in {k}) - One(j \in {k})
      BY <1>6, <2>4, <3>1, OwingOwed
    <3>3. One(Withheld(j)') = 0 /\ One(j \in {k}) \in Int
      BY <2>2, <2>3, <2>6 DEF One
    <3>. QED  BY <1>5, <1>6, <3>2, <3>3
  <2>. QED  BY <2>5, <2>6
<1>. QED  BY <1>2, <1>7, <1>8

LEMMA BalancedServe ==
  ASSUME TypeInv, Balanced, Server
  PROVE  Balanced'
<1>. DEFINE f == Head(fakes)
<1>1. TypeOK /\ fakes \in Seq(FakeEvent) /\ fakes # <<>> /\ fakes' = Tail(fakes)
  BY DEF TypeInv, TypeOK, XTypeOK, Server, ServeFakes
<1>2. /\ UNCHANGED <<pc, events, replay, seqbuf, active, passive, detached>>
      /\ due' = IF f.press THEN Owed({}, f.codes \X {core \cap Modifiers}) ELSE due
  BY DEF Server, ServeFakes, mainVars, setup
<1>. SUFFICES ASSUME pc # "exit", NEW k \in Keys \ Modifiers
              PROVE  Owing(k)' = Presses(Tail(fakes), k) + Presses(Faked(replay), k)
                                   + Presses(Faked(seqbuf), k) + One(Withheld(k)')
  BY <1>1, <1>2 DEF Balanced
<1>3. Withheld(k)' <=> Withheld(k)
  BY <1>2 DEF Withheld, Floating
<1>4. One(Withheld(k)') = One(Withheld(k)) /\ One(Withheld(k)) \in Int
  BY <1>3 DEF One
<1>5. Owing(k) = Presses(fakes, k) + Presses(Faked(replay), k) + Presses(Faked(seqbuf), k) + One(Withheld(k))
  BY DEF Balanced
<1>6. /\ f \in FakeEvent /\ Tail(fakes) \in Seq(FakeEvent)
      /\ Presses(fakes, k) = One(f.press /\ k \in f.codes) + Presses(Tail(fakes), k)
  BY <1>1, PressesTaken
<1>7. /\ Presses(Tail(fakes), k) \in Nat /\ Presses(Faked(replay), k) \in Nat
      /\ Presses(Faked(seqbuf), k) \in Nat /\ Presses(fakes, k) \in Nat
  BY <1>1, <1>6, CountsType, PressesType
<1>. HIDE DEF f
<1>8. CASE f.press
  <2>1. due' = Owed({} \X {{}}, f.codes \X {core \cap Modifiers})
    <3>1. {} = {} \X {{}}
      OBVIOUS
    <3>. QED  BY <1>2, <1>8, <3>1
  <2>2. {} \in SUBSET Modifiers /\ core \cap Modifiers \in SUBSET Modifiers
    OBVIOUS
  <2>3. Owing(k)' = Owing(k) + One(k \in {}) - One(k \in f.codes) /\ Owing(k) \in Int
    BY <1>1, <2>1, <2>2, OwingOwed
  <2>4. One(k \in {}) = 0 /\ One(f.press /\ k \in f.codes) = One(k \in f.codes) /\ One(k \in f.codes) \in Int
    BY <1>8 DEF One
  <2>5. Owing(k)' = Owing(k) - One(k \in f.codes)
    BY <2>3, <2>4
  <2>6. Presses(fakes, k) = One(k \in f.codes) + Presses(Tail(fakes), k)
    BY <1>6, <2>4
  <2>7. One(k \in f.codes) \in Int
    BY <2>4
  <2>. QED  BY <1>4, <1>5, <1>7, <2>5, <2>6, <2>7
<1>9. CASE ~f.press
  <2>1. Owing(k)' = Owing(k)
    BY <1>2, <1>9 DEF Owing
  <2>2. One(f.press /\ k \in f.codes) = 0
    BY <1>9 DEF One
  <2>. QED  BY <1>4, <1>5, <1>6, <1>7, <2>1, <2>2
<1>. QED  BY <1>8, <1>9

LEMMA BalancedHandle ==
  ASSUME KeepsUp, TypeInv, Tracked, Prompt, Balanced, pc \in {"recv", "grab"}, events # <<>>,
         HandleKey(Head(events)), UNCHANGED <<replay, due>>,
         floating = NoDev => ~Floating(Head(events).dev)
  PROVE  Balanced'
<1>. DEFINE e == Head(events)
            c == [code |-> e.code, press |-> e.press]
            f == [codes |-> {e.code}, press |-> e.press]
<1>1. e \in KeyEvent /\ e.dev \in Keyboards /\ e.code \in Keys /\ e.press \in BOOLEAN
  BY Popped DEF Tracked, KeyEvent, TypeInv, TypeOK, XTypeOK
<1>2. /\ events' = <<>> /\ TakeIn(e) /\ TypeOK
      /\ fakes \in Seq(FakeEvent) /\ seqbuf \in Seq(KeyChange)
  BY DEF HandleKey, Prompt, InStep, TypeInv, TypeOK, XTypeOK
<1>3. Floating(e.dev) <=> floating # NoDev
  <2>1. \A d \in Keyboards : d = e.dev
    BY <1>1 DEF KeepsUp, OneKeyboard
  <2>2. ASSUME floating # NoDev PROVE Floating(e.dev)
    BY <1>1, <2>1, <2>2 DEF Prompt, Synced, Floating, TypeInv, TypeOK
  <2>. QED  BY <2>2
<1>. SUFFICES ASSUME pc # "exit", NEW k \in Keys \ Modifiers
              PROVE  Owing(k) = Presses(fakes', k) + Presses(Faked(replay), k)
                                   + Presses(Faked(seqbuf'), k) + One(Withheld(k)')
  BY DEF Balanced, Owing
<1>4. One(Withheld(k)') = 0
  BY <1>2 DEF Withheld, One
<1>5. Owing(k) = Presses(fakes, k) + Presses(Faked(replay), k) + Presses(Faked(seqbuf), k) + One(Withheld(k))
  BY DEF Balanced
<1>6. /\ Presses(fakes, k) \in Nat /\ Presses(Faked(replay), k) \in Nat /\ Presses(Faked(seqbuf), k) \in Nat
      /\ One(Withheld(k)) \in Int
  BY <1>2, CountsType DEF One
<1>7. One(Withheld(k)) = IF floating # NoDev /\ e.press /\ k = e.code THEN 1 ELSE 0
  BY <1>3 DEF Withheld, One
<1>8. f \in FakeEvent /\ c \in KeyChange
  BY <1>1 DEF FakeEvent, KeyChange
<1>9. CASE ~maybe /\ floating # NoDev
  <2>1. fakes' = Append(fakes, f) /\ seqbuf' = seqbuf
    BY <1>2, <1>9 DEF TakeIn, Fake
  <2>2. Presses(Append(fakes, f), k) = Presses(fakes, k) + One(f.press /\ k \in f.codes)
    BY <1>2, <1>8, PressesAppended
  <2>3. One(f.press /\ k \in f.codes) = One(Withheld(k))
    BY <1>7, <1>9 DEF One
  <2>4. Presses(fakes', k) = Presses(fakes, k) + One(Withheld(k))
    BY <2>1, <2>2, <2>3
  <2>. QED  BY <1>4, <1>5, <1>6, <2>1, <2>4
<1>10. CASE \/ ~maybe /\ floating = NoDev
            \/ maybe /\ e.press /\ e.code \notin Modifiers /\ floating = NoDev
  <2>1. fakes' = fakes /\ seqbuf' = seqbuf
    BY <1>2, <1>10 DEF TakeIn
  <2>. QED  BY <1>4, <1>5, <1>6, <1>7, <1>10, <2>1
<1>11. CASE maybe /\ ~(e.press /\ e.code \notin Modifiers /\ floating = NoDev)
  <2>1. fakes' = fakes /\ seqbuf' = Append(seqbuf, c)
    BY <1>2, <1>11 DEF TakeIn
  <2>2. Presses(Faked(Append(seqbuf, c)), k) = Presses(Faked(seqbuf), k) + One(c.press /\ k = c.code)
    BY <1>2, <1>8, FakedAppended
  <2>3. One(c.press /\ k = c.code) = One(Withheld(k))
    BY <1>7, <1>11 DEF One
  <2>4. Presses(Faked(seqbuf'), k) = Presses(Faked(seqbuf), k) + One(Withheld(k))
    BY <2>1, <2>2, <2>3
  <2>. QED  BY <1>4, <1>5, <1>6, <2>1, <2>4
<1>. QED  BY <1>9, <1>10, <1>11

\* A sequence that is neither an action's nor typed again has no plain key.
LEMMA NothingDropped ==
  ASSUME TypeInv, Prompt, pc = "settle", ~Matches, ~Unmatched,
         NEW i \in DOMAIN seqbuf, seqbuf[i].press
  PROVE  seqbuf[i].code \in Modifiers
<1>1. down = {} /\ Len(seqbuf) \in Nat /\ DOMAIN seqbuf = 1 .. Len(seqbuf)
  BY DEF Prompt, InStep, TypeInv, TypeOK
<1>2. CASE ~maybe
  BY <1>2 DEF Prompt, NoPlain
<1>3. CASE maybe /\ Packs(seqbuf)
  BY <1>3 DEF Matches, Unmatched
<1>4. CASE maybe /\ ~Packs(seqbuf)
  <2>1. Len(seqbuf) % 2 = 0 % 2
    BY <1>1, <1>4, FS_EmptySet DEF Prompt, Even
  <2>. DEFINE n == Len(seqbuf)
  <2>2. n \in Nat /\ n % 2 = 0 /\ n \notin {2, 4, 6, 8} /\ ~(n > 8) /\ i \in 1 .. n
    BY <1>1, <1>4, <2>1 DEF Packs
  <2>. HIDE DEF n
  <2>3. FALSE
    BY <2>2
  <2>. QED  BY <2>3
<1>. QED  BY <1>2, <1>3, <1>4

LEMMA BalancedSettle ==
  ASSUME TypeInv, Prompt, Balanced, Settle
  PROVE  Balanced'
<1>1. /\ TypeOK /\ pc = "settle" /\ events = <<>> /\ events' = <<>> /\ seqbuf' = <<>>
      /\ fakes \in Seq(FakeEvent) /\ seqbuf \in Seq(KeyChange) /\ replay \in Seq(KeyChange)
  BY DEF Settle, Prompt, InStep, TypeInv, TypeOK, XTypeOK
<1>. SUFFICES ASSUME NEW k \in Keys \ Modifiers
              PROVE  Owing(k)' = Presses(fakes', k) + Presses(Faked(replay'), k)
                                   + Presses(Faked(seqbuf'), k) + One(Withheld(k)')
  BY DEF Balanced
<1>2. Owing(k) = Presses(fakes, k) + Presses(Faked(replay), k) + Presses(Faked(seqbuf), k) + 0
  BY <1>1 DEF Balanced, Withheld, One
<1>3. /\ Presses(fakes, k) \in Nat /\ Presses(Faked(replay), k) \in Nat /\ Presses(Faked(seqbuf), k) \in Nat
  BY <1>1, CountsType
<1>4. One(Withheld(k)') = 0
  BY <1>1 DEF Withheld, One
<1>5. Presses(Faked(seqbuf'), k) = 0
  <2>1. <<>> \in Seq(KeyChange) /\ \A i \in DOMAIN <<>> : <<>>[i].press => <<>>[i].code # k
    OBVIOUS
  <2>. QED  BY <1>1, <2>1, PressesNone
<1>6. Presses(fakes', k) = Presses(fakes, k)
  <2>1. CASE fakes' = fakes
    BY <2>1
  <2>2. CASE fakes' = Append(fakes, [codes |-> stale, press |-> FALSE])
    <3>. DEFINE f == [codes |-> stale, press |-> FALSE]
    <3>1. f \in FakeEvent /\ ~f.press
      BY <1>1 DEF TypeOK, FakeEvent
    <3>. HIDE DEF f
    <3>2. Presses(Append(fakes, f), k) = Presses(fakes, k) + One(f.press /\ k \in f.codes)
      BY <1>1, <3>1, PressesAppended
    <3>3. One(f.press /\ k \in f.codes) = 0
      BY <3>1 DEF One
    <3>. QED  BY <1>3, <2>2, <3>2, <3>3 DEF f
  <2>. QED  BY <2>1, <2>2 DEF Settle, Unpress, Fake
<1>7. CASE Spend(seqbuf) /\ UNCHANGED replay
  BY <1>1, <1>2, <1>3, <1>4, <1>5, <1>6, <1>7, OwingSpent
<1>8. CASE replay' = replay \o seqbuf /\ UNCHANGED due
  <2>1. Faked(replay \o seqbuf) = Faked(replay) \o Faked(seqbuf)
    BY <1>1, FakedJoined
  <2>2. Faked(replay) \in Seq(FakeEvent) /\ Faked(seqbuf) \in Seq(FakeEvent)
    BY <1>1, FakedIs
  <2>3. Presses(Faked(replay) \o Faked(seqbuf), k) = Presses(Faked(replay), k) + Presses(Faked(seqbuf), k)
    BY <2>2, PressesJoined
  <2>4. Presses(Faked(replay'), k) = Presses(Faked(replay), k) + Presses(Faked(seqbuf), k)
    BY <1>8, <2>1, <2>3
  <2>5. Owing(k)' = Owing(k)
    BY <1>8 DEF Owing
  <2>. QED  BY <1>2, <1>3, <1>4, <1>5, <1>6, <2>4, <2>5
<1>9. CASE ~Matches /\ ~Unmatched /\ UNCHANGED <<replay, due>>
  <2>1. \A i \in DOMAIN seqbuf : seqbuf[i].press => seqbuf[i].code # k
    BY <1>1, <1>9, NothingDropped
  <2>2. Presses(Faked(seqbuf), k) = 0
    BY <1>1, <2>1, PressesNone
  <2>3. Owing(k)' = Owing(k)
    BY <1>9 DEF Owing
  <2>. QED  BY <1>2, <1>3, <1>4, <1>5, <1>6, <1>9, <2>2, <2>3
<1>. QED  BY <1>7, <1>8, <1>9 DEF Settle

LEMMA BalancedReplay ==
  ASSUME TypeInv, Balanced, ProcReplay
  PROVE  Balanced'
<1>. DEFINE c == Head(replay)
            f == [codes |-> {c.code}, press |-> c.press]
<1>1. /\ TypeOK /\ replay \in Seq(KeyChange) /\ replay # <<>> /\ fakes \in Seq(FakeEvent)
      /\ fakes' = Append(fakes, f) /\ replay' = Tail(replay)
      /\ UNCHANGED <<pc, events, due, seqbuf, active, passive, detached>>
  BY DEF TypeInv, TypeOK, XTypeOK, ProcReplay, Fake, setup
<1>. SUFFICES ASSUME pc # "exit", NEW k \in Keys \ Modifiers
              PROVE  Owing(k) = Presses(Append(fakes, f), k) + Presses(Faked(Tail(replay)), k)
                                   + Presses(Faked(seqbuf), k) + One(Withheld(k)')
  BY <1>1 DEF Balanced, Owing
<1>2. One(Withheld(k)') = One(Withheld(k)) /\ One(Withheld(k)) \in Int
  BY <1>1 DEF Withheld, Floating, One
<1>3. Owing(k) = Presses(fakes, k) + Presses(Faked(replay), k) + Presses(Faked(seqbuf), k) + One(Withheld(k))
  BY DEF Balanced
<1>4. /\ c \in KeyChange /\ Tail(replay) \in Seq(KeyChange)
      /\ Presses(Faked(replay), k) = One(c.press /\ k = c.code) + Presses(Faked(Tail(replay)), k)
  BY <1>1, FakedTaken
<1>5. f \in FakeEvent
  BY <1>4 DEF KeyChange, FakeEvent
<1>6. Presses(Append(fakes, f), k) = Presses(fakes, k) + One(f.press /\ k \in f.codes)
  BY <1>1, <1>5, PressesAppended
<1>7. One(f.press /\ k \in f.codes) = One(c.press /\ k = c.code) /\ One(c.press /\ k = c.code) \in Int
  BY DEF One
<1>8. Presses(fakes, k) \in Nat /\ Presses(Faked(seqbuf), k) \in Nat
  BY <1>1, CountsType
<1>9. Presses(Faked(Tail(replay)), k) \in Nat
  BY <1>4, FakedIs, PressesType
<1>. HIDE DEF c, f
<1>. QED  BY <1>2, <1>3, <1>4, <1>6, <1>7, <1>8, <1>9

LEMMA BalancedStep ==
  ASSUME KeepsUp, TypeInv, Tracked, Prompt, Balanced, [Next]_vars
  PROVE  Balanced'
<1>1. CASE pc = "exit"
  <2>1. pc' = "exit"
    BY <1>1 DEF Next, User, Server, Daemon, RecvKey, GrabFloating, Settle, RecvHier, ProcReplay, Quit,
                vars, mainVars
  <2>. QED  BY <2>1 DEF Balanced
<1>2. CASE pc # "exit" /\ User
  BY <1>2, BalancedKey
<1>3. CASE Server
  BY <1>3, BalancedServe
<1>4. CASE pc # "exit" /\ RecvKey
  <2>1. Head(events).dev \in devs /\ Head(events) \in KeyEvent
    BY <1>4, Popped DEF RecvKey, Tracked, KeyEvent, TypeInv, TypeOK, XTypeOK
  <2>2. UNCHANGED <<replay, due, detached, active, passive>> /\ pc = "recv" /\ events # <<>>
    BY <1>4 DEF RecvKey, setup
  <2>3. CASE HandleKey(Head(events)) /\ ~(floating = NoDev /\ Floating(Head(events).dev))
    BY <2>2, <2>3, BalancedHandle
  <2>4. CASE UNCHANGED <<seqbuf, events, fakes>>
    <3>1. \A k : Withheld(k)' <=> Withheld(k)
      BY <2>2, <2>4 DEF Withheld, Floating
    <3>2. \A k : One(Withheld(k)') = One(Withheld(k))
      BY <3>1 DEF One
    <3>3. \A k : Owing(k)' = Owing(k)
      BY <2>2 DEF Owing
    <3>. QED  BY <1>4, <2>2, <2>4, <3>2, <3>3 DEF Balanced
  <2>. QED  BY <1>4, <2>1, <2>3, <2>4 DEF RecvKey
<1>5. CASE pc # "exit" /\ GrabFloating
  <2>1. /\ pc = "grab" /\ events # <<>> /\ floating \in Keyboards
        /\ UNCHANGED <<replay, due>> /\ HandleKey(Head(events))
    BY <1>5, Kinds DEF GrabFloating, TypeInv, GrabPending, KeyEvent
  <2>2. floating # NoDev
    BY <2>1, MainAssumption DEF MainAssumption
  <2>. QED  BY <2>1, <2>2, BalancedHandle
<1>6. CASE pc # "exit" /\ Settle
  BY <1>6, BalancedSettle
<1>7. CASE pc # "exit" /\ RecvHier
  BY <1>7, Popped DEF RecvHier, Tracked, KeyEvent, TypeInv, TypeOK, XTypeOK
<1>8. CASE Quit
  BY <1>8 DEF Quit, Balanced
<1>9. CASE ProcReplay
  BY <1>9, BalancedReplay
<1>10. CASE UNCHANGED vars
  <2>1. UNCHANGED <<pc, events, fakes, due, replay, seqbuf, active, passive, detached>>
    BY <1>10 DEF vars, srvVars, mainVars
  <2>2. \A k : Withheld(k)' <=> Withheld(k)
    BY <2>1 DEF Withheld, Floating
  <2>3. \A k : One(Withheld(k)') = One(Withheld(k)) /\ Owing(k)' = Owing(k)
    BY <2>1, <2>2 DEF One, Owing
  <2>. QED  BY <2>1, <2>3 DEF Balanced
<1>. QED  BY <1>1, <1>2, <1>3, <1>4, <1>5, <1>6, <1>7, <1>8, <1>9, <1>10 DEF Next, Daemon

\* With one keyboard that stays and nothing held at startup, and a loop that
\* keeps up with the user, the applications have had each key as often as it
\* was pressed once all is quiet, but for the sequences that had their action
\* and those too long to type again: whatever is grabbed, whatever the
\* sequences are and however long the replay takes.
THEOREM ExactlyOnceThm ==
  ASSUME KeepsUp, StartHeld = {}
  PROVE  Spec => []ExactlyOnce
<1>. DEFINE IInv == LeaseInv /\ Tracked /\ Prompt /\ Balanced
<1>1. Init => IInv
  BY LeaseInit, TrackedInit, PromptInit, BalancedInit
<1>2. IInv /\ [Next]_vars => IInv'
  BY StepType, LeaseStep, TrackedStep, PromptStep, BalancedStep DEF LeaseInv, KeepsUp
<1>3. IInv => ExactlyOnce
  <2>. SUFFICES ASSUME IInv, Quiet, NEW k \in Keys \ Modifiers
                PROVE  Owing(k) = 0
    BY DEF ExactlyOnce, Owing
  <2>1. /\ pc = "recv" /\ events = <<>> /\ fakes = <<>> /\ replay = <<>>
    BY DEF Quiet
  <2>2. AtRest
    <3>1. down = {}
      BY <2>1 DEF Quiet, Tracked, DownEnds, Released
    <3>. QED  BY <3>1 DEF Quiet, LeaseInv, Lease, AtRest
  <2>3. seqbuf = <<>>
    BY <2>2 DEF AtRest
  <2>4. Owing(k) = Presses(<<>>, k) + Presses(Faked(<<>>), k) + Presses(Faked(<<>>), k) + One(Withheld(k))
    BY <2>1, <2>3 DEF Balanced
  <2>5. Presses(<<>>, k) = 0
    BY FS_EmptySet DEF Presses
  <2>6. Presses(Faked(<<>>), k) = 0
    <3>1. <<>> \in Seq(KeyChange) /\ \A i \in DOMAIN <<>> : <<>>[i].press => <<>>[i].code # k
      OBVIOUS
    <3>. QED  BY <3>1, PressesNone
  <2>7. One(Withheld(k)) = 0
    BY <2>1 DEF One, Withheld
  <2>. QED  BY <2>4, <2>5, <2>6, <2>7
<1>. QED  BY <1>1, <1>2, <1>3, PTL DEF Spec

-----------------------------------------------------------------------------
(* Why the applications have had each key with the modifiers it was pressed  *)
(* with, if the user has always waited for the replay.  What is still to be  *)
(* faked is played in the mind, from the keys the applications have now.     *)

\* The modifiers down before the i-th of the keys faked, if those of B were
\* down at first.
ModsIn(q, B, i) ==
  {m \in Modifiers :
     \/ \E j \in 1 .. i - 1 : /\ m \in q[j].codes /\ q[j].press
                              /\ \A l \in j + 1 .. i - 1 : m \notin q[l].codes
     \/ m \in B /\ \A l \in 1 .. i - 1 : m \notin q[l].codes}

\* How often the stroke occurs.
Strokes(q, B, u) ==
  Cardinality({i \in DOMAIN q : q[i].press /\ u[1] \in q[i].codes /\ ModsIn(q, B, i) = u[2]})

\* What one of them does to the modifiers down.
Struck(f, B) == Modifiers \cap (IF f.press THEN B \cup f.codes ELSE B \ f.codes)

LEMMA ModsFirst == ASSUME NEW q, NEW B PROVE ModsIn(q, B, 1) = B \cap Modifiers
<1>1. 1 .. 1 - 1 = {}
  OBVIOUS
<1>. QED  BY <1>1 DEF ModsIn

LEMMA ModsNext ==
  ASSUME NEW q, NEW B, NEW i \in Nat \ {0}
  PROVE  ModsIn(q, B, i + 1) = Struck(q[i], ModsIn(q, B, i))
<1>1. /\ i + 1 - 1 = i /\ i \in 1 .. i /\ i - 1 \in Nat
      /\ \A l \in 1 .. i : l \in 1 .. i - 1 \/ l = i
      /\ \A l \in 1 .. i - 1 : l \in 1 .. i
  OBVIOUS
<1>3. \A m \in Modifiers : m \in ModsIn(q, B, i + 1) <=> m \in Struck(q[i], ModsIn(q, B, i))
  <2>. TAKE m \in Modifiers
  <2>1. CASE m \in q[i].codes
    <3>1. m \in ModsIn(q, B, i + 1) <=> q[i].press
      <4>1. ASSUME q[i].press PROVE m \in ModsIn(q, B, i + 1)
        <5>1. \A l \in i + 1 .. i : m \notin q[l].codes
          OBVIOUS
        <5>. QED  BY <1>1, <2>1, <4>1, <5>1 DEF ModsIn
      <4>2. ASSUME m \in ModsIn(q, B, i + 1), ~q[i].press PROVE FALSE
        <5>1. ~ (\A l \in 1 .. i : m \notin q[l].codes)
          BY <1>1, <2>1
        <5>2. PICK j \in 1 .. i : /\ m \in q[j].codes /\ q[j].press
                                  /\ \A l \in j + 1 .. i : m \notin q[l].codes
          BY <1>1, <4>2, <5>1 DEF ModsIn
        <5>3. j = i \/ i \in j + 1 .. i
          OBVIOUS
        <5>. QED  BY <2>1, <4>2, <5>2, <5>3
      <4>. QED  BY <4>1, <4>2
    <3>. QED  BY <2>1, <3>1 DEF Struck
  <2>2. CASE m \notin q[i].codes
    <3>1. (\A l \in 1 .. i : m \notin q[l].codes) <=> \A l \in 1 .. i - 1 : m \notin q[l].codes
      BY <1>1, <2>2
    <3>2. ASSUME NEW j \in 1 .. i - 1
          PROVE  (\A l \in j + 1 .. i : m \notin q[l].codes) <=> \A l \in j + 1 .. i - 1 : m \notin q[l].codes
      <4>1. (\A l \in j + 1 .. i : l \in j + 1 .. i - 1 \/ l = i) /\ \A l \in j + 1 .. i - 1 : l \in j + 1 .. i
        OBVIOUS
      <4>. QED  BY <2>2, <4>1
    <3>3. m \in ModsIn(q, B, i + 1) <=> m \in ModsIn(q, B, i)
      <4>1. ASSUME m \in ModsIn(q, B, i + 1) PROVE m \in ModsIn(q, B, i)
        <5>1. CASE m \in B /\ \A l \in 1 .. i : m \notin q[l].codes
          BY <3>1, <5>1 DEF ModsIn
        <5>2. CASE \E j \in 1 .. i : /\ m \in q[j].codes /\ q[j].press
                                     /\ \A l \in j + 1 .. i : m \notin q[l].codes
          <6>1. PICK j \in 1 .. i : /\ m \in q[j].codes /\ q[j].press
                                    /\ \A l \in j + 1 .. i : m \notin q[l].codes
            BY <5>2
          <6>2. j \in 1 .. i - 1
            BY <1>1, <2>2, <6>1
          <6>. QED  BY <3>2, <6>1, <6>2 DEF ModsIn
        <5>. QED  BY <1>1, <4>1, <5>1, <5>2 DEF ModsIn
      <4>2. ASSUME m \in ModsIn(q, B, i) PROVE m \in ModsIn(q, B, i + 1)
        <5>1. CASE m \in B /\ \A l \in 1 .. i - 1 : m \notin q[l].codes
          BY <1>1, <3>1, <5>1 DEF ModsIn
        <5>2. CASE \E j \in 1 .. i - 1 : /\ m \in q[j].codes /\ q[j].press
                                         /\ \A l \in j + 1 .. i - 1 : m \notin q[l].codes
          BY <1>1, <3>2, <5>2 DEF ModsIn
        <5>. QED  BY <4>2, <5>1, <5>2 DEF ModsIn
      <4>. QED  BY <4>1, <4>2
    <3>4. m \in Struck(q[i], ModsIn(q, B, i)) <=> m \in ModsIn(q, B, i)
      BY <2>2 DEF Struck
    <3>. QED  BY <3>3, <3>4
  <2>. QED  BY <2>1, <2>2
<1>4. ModsIn(q, B, i + 1) \subseteq Modifiers /\ Struck(q[i], ModsIn(q, B, i)) \subseteq Modifiers
  BY DEF ModsIn, Struck
<1>. QED  BY <1>3, <1>4

LEMMA ModsJoined ==
  ASSUME NEW p \in Seq(FakeEvent), NEW q \in Seq(FakeEvent), NEW B
  PROVE  /\ \A i \in 1 .. Len(p) + 1 : ModsIn(p \o q, B, i) = ModsIn(p, B, i)
         /\ \A i \in 1 .. Len(q) + 1 :
              ModsIn(p \o q, B, Len(p) + i) = ModsIn(q, ModsIn(p, B, Len(p) + 1), i)
<1>. DEFINE r == p \o q
            C == ModsIn(p, B, Len(p) + 1)
            n == Len(p)
            o == Len(q)
<1>0. C \subseteq Modifiers
  BY DEF ModsIn
<1>1. /\ n \in Nat /\ o \in Nat
      /\ \A i \in 1 .. n : r[i] = p[i]
      /\ \A i \in 1 .. o : r[n + i] = q[i]
  OBVIOUS
<1>. HIDE DEF r, n, o, C
<1>2. \A i \in 1 .. n + 1 : ModsIn(r, B, i) = ModsIn(p, B, i)
  <2>. DEFINE X == {i \in Nat : i \in 1 .. n + 1 /\ ModsIn(r, B, i) # ModsIn(p, B, i)}
  <2>1. ASSUME X # {} PROVE FALSE
    <3>1. PICK i \in X : \A k \in Nat : k < i => k \notin X
      <4>1. X \in SUBSET Nat
        OBVIOUS
      <4>. HIDE DEF X
      <4>. QED  BY <2>1, <4>1, LeastNat
    <3>2. i # 1
      <4>1. ModsIn(r, B, 1) = B \cap Modifiers /\ ModsIn(p, B, 1) = B \cap Modifiers
        BY ModsFirst
      <4>2. ModsIn(r, B, i) # ModsIn(p, B, i)
        BY <3>1
      <4>. QED  BY <4>1, <4>2
    <3>3. i - 1 \in Nat \ {0} /\ i - 1 < i /\ i - 1 \in 1 .. n /\ i - 1 \in 1 .. n + 1 /\ (i - 1) + 1 = i
      BY <1>1, <3>1, <3>2
    <3>4. ModsIn(r, B, i - 1) = ModsIn(p, B, i - 1) /\ r[i - 1] = p[i - 1]
      BY <1>1, <3>1, <3>3
    <3>5. /\ ModsIn(r, B, (i - 1) + 1) = Struck(r[i - 1], ModsIn(r, B, i - 1))
          /\ ModsIn(p, B, (i - 1) + 1) = Struck(p[i - 1], ModsIn(p, B, i - 1))
      <4>. DEFINE k == i - 1
      <4>1. k \in Nat \ {0}
        BY <3>3
      <4>. HIDE DEF k
      <4>2. /\ ModsIn(r, B, k + 1) = Struck(r[k], ModsIn(r, B, k))
            /\ ModsIn(p, B, k + 1) = Struck(p[k], ModsIn(p, B, k))
        BY <4>1, ModsNext
      <4>. QED  BY <4>2 DEF k
    <3>6. ModsIn(r, B, i) = ModsIn(p, B, i)
      BY <3>3, <3>4, <3>5
    <3>. QED  BY <3>1, <3>6
  <2>. QED  BY <1>1, <2>1
<1>3. \A i \in 1 .. o + 1 : ModsIn(r, B, n + i) = ModsIn(q, C, i)
  <2>. DEFINE X == {i \in Nat : i \in 1 .. o + 1 /\ ModsIn(r, B, n + i) # ModsIn(q, C, i)}
  <2>1. ASSUME X # {} PROVE FALSE
    <3>1. PICK i \in X : \A k \in Nat : k < i => k \notin X
      <4>1. X \in SUBSET Nat
        OBVIOUS
      <4>. HIDE DEF X
      <4>. QED  BY <2>1, <4>1, LeastNat
    <3>2. i # 1
      <4>1. n + 1 \in 1 .. n + 1
        BY <1>1
      <4>2. ModsIn(r, B, n + 1) = C
        BY <1>2, <4>1 DEF n, C
      <4>3. ModsIn(q, C, 1) = C \cap Modifiers /\ C \subseteq Modifiers
        BY <1>0, ModsFirst
      <4>4. ModsIn(r, B, n + 1) = ModsIn(q, C, 1)
        BY <4>2, <4>3
      <4>5. ModsIn(r, B, n + i) # ModsIn(q, C, i)
        BY <3>1
      <4>. QED  BY <4>4, <4>5
    <3>3. /\ i - 1 \in Nat \ {0} /\ i - 1 < i /\ i - 1 \in 1 .. o /\ i - 1 \in 1 .. o + 1 /\ (i - 1) + 1 = i
          /\ n + (i - 1) \in Nat \ {0} /\ (n + (i - 1)) + 1 = n + i
      BY <1>1, <3>1, <3>2
    <3>4. ModsIn(r, B, n + (i - 1)) = ModsIn(q, C, i - 1) /\ r[n + (i - 1)] = q[i - 1]
      BY <1>1, <3>1, <3>3
    <3>5. /\ ModsIn(r, B, (n + (i - 1)) + 1) = Struck(r[n + (i - 1)], ModsIn(r, B, n + (i - 1)))
          /\ ModsIn(q, C, (i - 1) + 1) = Struck(q[i - 1], ModsIn(q, C, i - 1))
      <4>. DEFINE k == i - 1
                  l == n + (i - 1)
      <4>1. k \in Nat \ {0} /\ l \in Nat \ {0}
        BY <3>3
      <4>. HIDE DEF k, l
      <4>2. /\ ModsIn(r, B, l + 1) = Struck(r[l], ModsIn(r, B, l))
            /\ ModsIn(q, C, k + 1) = Struck(q[k], ModsIn(q, C, k))
        BY <4>1, ModsNext
      <4>. QED  BY <4>2 DEF k, l
    <3>6. ModsIn(r, B, n + i) = ModsIn(q, C, i)
      BY <3>3, <3>4, <3>5
    <3>. QED  BY <3>1, <3>6
  <2>. QED  BY <1>1, <2>1
<1>. QED  BY <1>2, <1>3 DEF r, n, o, C

\* The modifiers down once all is faked.
ModsAfter(q, B) == ModsIn(q, B, Len(q) + 1)

\* Of the keys down at first only the modifiers matter.
LEMMA StrokesBase ==
  ASSUME NEW q, NEW B, NEW C, B \cap Modifiers = C \cap Modifiers
  PROVE  /\ ModsAfter(q, B) = ModsAfter(q, C)
         /\ \A u : Strokes(q, B, u) = Strokes(q, C, u)
<1>1. \A m \in Modifiers : m \in B <=> m \in C
  OBVIOUS
<1>2. \A i : ModsIn(q, B, i) = ModsIn(q, C, i)
  BY <1>1 DEF ModsIn
<1>. QED  BY <1>2 DEF ModsAfter, Strokes

LEMMA ModsAfterJoined ==
  ASSUME NEW p \in Seq(FakeEvent), NEW q \in Seq(FakeEvent), NEW B
  PROVE  ModsAfter(p \o q, B) = ModsAfter(q, ModsAfter(p, B))
<1>. DEFINE C == ModsIn(p, B, Len(p) + 1)
            r == p \o q
<1>1. Len(q) + 1 \in 1 .. Len(q) + 1 /\ Len(r) + 1 = Len(p) + (Len(q) + 1)
  OBVIOUS
<1>. HIDE DEF r
<1>2. \A i \in 1 .. Len(q) + 1 : ModsIn(r, B, Len(p) + i) = ModsIn(q, C, i)
  BY ModsJoined DEF r
<1>. HIDE DEF C
<1>3. ModsIn(r, B, Len(p) + (Len(q) + 1)) = ModsIn(q, C, Len(q) + 1)
  BY <1>1, <1>2
<1>4. ModsAfter(r, B) = ModsAfter(q, C)
  BY <1>1, <1>3 DEF ModsAfter
<1>. QED  BY <1>4 DEF r, C, ModsAfter

LEMMA StrokesJoined ==
  ASSUME NEW p \in Seq(FakeEvent), NEW q \in Seq(FakeEvent), NEW B, NEW u
  PROVE  Strokes(p \o q, B, u) = Strokes(p, B, u) + Strokes(q, ModsAfter(p, B), u)
<1>. DEFINE M == ModsAfter(p, B)
            r == p \o q
            A == {i \in DOMAIN p : p[i].press /\ u[1] \in p[i].codes /\ ModsIn(p, B, i) = u[2]}
            C == {i \in DOMAIN q : q[i].press /\ u[1] \in q[i].codes /\ ModsIn(q, M, i) = u[2]}
            T == {i \in DOMAIN r : r[i].press /\ u[1] \in r[i].codes /\ ModsIn(r, B, i) = u[2]}
<1>1. /\ Len(p) \in Nat /\ Len(q) \in Nat /\ DOMAIN p = 1 .. Len(p) /\ DOMAIN q = 1 .. Len(q)
      /\ DOMAIN r = 1 .. Len(p) + Len(q)
      /\ \A i \in 1 .. Len(p) : r[i] = p[i]
      /\ \A i \in 1 .. Len(q) : r[Len(p) + i] = q[i]
  OBVIOUS
<1>2. /\ \A i \in 1 .. Len(p) : ModsIn(r, B, i) = ModsIn(p, B, i)
      /\ \A i \in 1 .. Len(q) : ModsIn(r, B, Len(p) + i) = ModsIn(q, M, i)
  <2>1. /\ \A i \in 1 .. Len(p) + 1 : ModsIn(r, B, i) = ModsIn(p, B, i)
        /\ \A i \in 1 .. Len(q) + 1 : ModsIn(r, B, Len(p) + i) = ModsIn(q, M, i)
    BY ModsJoined DEF ModsAfter
  <2>2. (\A i \in 1 .. Len(p) : i \in 1 .. Len(p) + 1) /\ \A i \in 1 .. Len(q) : i \in 1 .. Len(q) + 1
    BY <1>1
  <2>. HIDE DEF M, r
  <2>. QED  BY <2>1, <2>2
<1>. HIDE DEF M, r
<1>3. ASSUME NEW i PROVE i \in T <=> i \in A \/ \E j \in C : i = Len(p) + j
  <2>1. CASE i \in 1 .. Len(p)
    <3>1. \A j \in C : i # Len(p) + j
      BY <1>1, <2>1
    <3>2. i \in 1 .. Len(p) + Len(q)
      BY <1>1, <2>1
    <3>. QED  BY <1>1, <1>2, <2>1, <3>1, <3>2
  <2>2. CASE i \in 1 .. Len(p) + Len(q) /\ i \notin 1 .. Len(p)
    <3>1. PICK k \in 1 .. Len(q) : i = Len(p) + k /\ \A j \in 1 .. Len(q) : i = Len(p) + j => j = k
      <4>1. /\ i - Len(p) \in 1 .. Len(q) /\ i = Len(p) + (i - Len(p))
            /\ \A j \in 1 .. Len(q) : i = Len(p) + j => j = i - Len(p)
        BY <1>1, <2>2
      <4>. QED  BY <4>1
    <3>2. r[i] = q[k] /\ ModsIn(r, B, i) = ModsIn(q, M, k)
      BY <1>1, <1>2, <3>1
    <3>3. i \in T <=> k \in C
      BY <1>1, <2>2, <3>2
    <3>4. i \notin A
      BY <1>1, <2>2
    <3>5. (\E j \in C : i = Len(p) + j) <=> k \in C
      <4>1. C \subseteq 1 .. Len(q)
        BY <1>1
      <4>. HIDE DEF C
      <4>. QED  BY <3>1, <4>1
    <3>. QED  BY <3>3, <3>4, <3>5
  <2>3. CASE i \notin 1 .. Len(p) + Len(q)
    <3>1. i \notin 1 .. Len(p) /\ \A j \in 1 .. Len(q) : i # Len(p) + j
      BY <1>1, <2>3
    <3>. QED  BY <1>1, <2>3, <3>1
  <2>. QED  BY <2>1, <2>2, <2>3
<1>4. A \in SUBSET (1 .. Len(p)) /\ C \in SUBSET (1 .. Len(q))
  BY <1>1
<1>5. Strokes(r, B, u) = Cardinality(T) /\ Strokes(p, B, u) = Cardinality(A) /\ Strokes(q, M, u) = Cardinality(C)
  BY DEF Strokes
<1>6. Appends(T, A, C, Len(p))
  BY <1>3 DEF Appends
<1>7. Len(p) \in Nat /\ Len(q) \in Nat
  BY <1>1
<1>. HIDE DEF A, C, T
<1>8. Cardinality(T) = Cardinality(A) + Cardinality(C)
  <2>1. \A n, m \in Nat : \A X \in SUBSET (1 .. n), Y \in SUBSET (1 .. m) :
          \A Z : Appends(Z, X, Y, n) => Cardinality(Z) = Cardinality(X) + Cardinality(Y)
    BY IndicesJoined
  <2>2. \A X \in SUBSET (1 .. Len(p)), Y \in SUBSET (1 .. Len(q)) :
          \A Z : Appends(Z, X, Y, Len(p)) => Cardinality(Z) = Cardinality(X) + Cardinality(Y)
    BY <1>7, <2>1
  <2>3. \A Z : Appends(Z, A, C, Len(p)) => Cardinality(Z) = Cardinality(A) + Cardinality(C)
    BY <1>4, <2>2
  <2>. QED  BY <1>6, <2>3
<1>. QED  BY <1>5, <1>8 DEF M, r

LEMMA StrokesType ==
  ASSUME NEW q \in Seq(FakeEvent), NEW B, NEW u
  PROVE  Strokes(q, B, u) \in Nat
<1>. DEFINE A == {i \in DOMAIN q : q[i].press /\ u[1] \in q[i].codes /\ ModsIn(q, B, i) = u[2]}
<1>1. Len(q) \in Nat /\ A \in SUBSET (1 .. Len(q))
  OBVIOUS
<1>. HIDE DEF A
<1>2. Cardinality(A) \in Nat
  BY <1>1, IndicesFinite
<1>. QED  BY <1>2 DEF Strokes, A

LEMMA StrokesNone ==
  ASSUME NEW q, NEW u, \A i \in DOMAIN q : ~(q[i].press /\ u[1] \in q[i].codes)
  PROVE  \A B : Strokes(q, B, u) = 0
<1>. TAKE B
<1>1. {i \in DOMAIN q : q[i].press /\ u[1] \in q[i].codes /\ ModsIn(q, B, i) = u[2]} = {}
  OBVIOUS
<1>. QED  BY <1>1, FS_EmptySet DEF Strokes

LEMMA StrokesOne ==
  ASSUME NEW f \in FakeEvent, NEW B
  PROVE  /\ ModsAfter(<<>>, B) = B \cap Modifiers
         /\ ModsAfter(<<f>>, B) = Struck(f, B)
         /\ \A u : Strokes(<<f>>, B, u) = One(f.press /\ u[1] \in f.codes /\ B \cap Modifiers = u[2])
<1>1. ModsIn(<<f>>, B, 1) = B \cap Modifiers /\ ModsIn(<<>>, B, 1) = B \cap Modifiers
  BY ModsFirst
<1>2. ModsIn(<<f>>, B, 2) = Struck(f, B)
  <2>1. ModsIn(<<f>>, B, 1 + 1) = Struck(<<f>>[1], ModsIn(<<f>>, B, 1))
    <3>1. \A i \in Nat \ {0} : ModsIn(<<f>>, B, i + 1) = Struck(<<f>>[i], ModsIn(<<f>>, B, i))
      BY ModsNext
    <3>2. 1 \in Nat \ {0}
      OBVIOUS
    <3>. QED  BY <3>1, <3>2
  <2>2. Struck(f, B \cap Modifiers) = Struck(f, B)
    BY DEF Struck
  <2>3. <<f>>[1] = f /\ 1 + 1 = 2
    OBVIOUS
  <2>4. Struck(<<f>>[1], ModsIn(<<f>>, B, 1)) = Struck(f, B \cap Modifiers)
    BY <1>1, <2>3
  <2>5. ModsIn(<<f>>, B, 1 + 1) = ModsIn(<<f>>, B, 2)
    BY <2>3
  <2>. QED  BY <2>1, <2>2, <2>4, <2>5
<1>3. ModsAfter(<<>>, B) = B \cap Modifiers /\ ModsAfter(<<f>>, B) = Struck(f, B)
  <2>1. Len(<<>>) + 1 = 1 /\ Len(<<f>>) + 1 = 2
    OBVIOUS
  <2>. QED  BY <1>1, <1>2, <2>1 DEF ModsAfter
<1>4. ASSUME NEW u PROVE Strokes(<<f>>, B, u) = One(f.press /\ u[1] \in f.codes /\ B \cap Modifiers = u[2])
  <2>. DEFINE A == {i \in DOMAIN <<f>> : <<f>>[i].press /\ u[1] \in <<f>>[i].codes /\ ModsIn(<<f>>, B, i) = u[2]}
              X == f.press /\ u[1] \in f.codes /\ B \cap Modifiers = u[2]
  <2>0. A = {i \in {1} : X}
    <3>1. DOMAIN <<f>> = {1} /\ <<f>>[1] = f
      OBVIOUS
    <3>. DEFINE q == <<f>>
    <3>2. DOMAIN q = {1} /\ q[1] = f /\ ModsIn(q, B, 1) = B \cap Modifiers
      BY <1>1, <3>1
    <3>3. A = {i \in DOMAIN q : q[i].press /\ u[1] \in q[i].codes /\ ModsIn(q, B, i) = u[2]}
      OBVIOUS
    <3>. HIDE DEF q, A
    <3>. QED  BY <3>2, <3>3
  <2>1. CASE X
    <3>1. A = {1}
      BY <2>0, <2>1
    <3>. QED  BY <2>1, <3>1, FS_Singleton DEF Strokes, One
  <2>2. CASE ~X
    <3>1. A = {}
      BY <2>0, <2>2
    <3>. QED  BY <2>2, <3>1, FS_EmptySet DEF Strokes, One
  <2>. QED  BY <2>1, <2>2
<1>. QED  BY <1>3, <1>4

\* Where keys are only released none comes.
LEMMA ModsReleased ==
  ASSUME NEW q \in Seq(FakeEvent), \A i \in DOMAIN q : ~q[i].press, NEW B
  PROVE  ModsAfter(q, B) \subseteq B
<1>1. \A j \in 1 .. Len(q) + 1 - 1 : j \in DOMAIN q
  OBVIOUS
<1>. QED  BY <1>1 DEF ModsAfter, ModsIn

\* ModsAt of a sequence is what it is as the sequence is faked.
LEMMA ModsAtIs ==
  ASSUME NEW s \in Seq(KeyChange), NEW i \in DOMAIN s
  PROVE  ModsAt(s, i) = ModsIn(Faked(s), {}, i)
<1>. DEFINE q == Faked(s)
<1>1. /\ \A j \in DOMAIN s : q[j] = [codes |-> {s[j].code}, press |-> s[j].press]
      /\ \A j \in DOMAIN s : s[j] = [code |-> s[j].code, press |-> s[j].press] /\ s[j].press \in BOOLEAN
  <2>1. \A j \in DOMAIN s : s[j] \in KeyChange
    OBVIOUS
  <2>. QED  BY <2>1, FakedIs DEF KeyChange
<1>2. \A j \in 1 .. i - 1 : j \in DOMAIN s
  OBVIOUS
<1>3. \A j \in 1 .. i - 1 : \A l \in j + 1 .. i - 1 : l \in DOMAIN s
  OBVIOUS
<1>. HIDE DEF q
<1>4. \A j \in DOMAIN s : \A m : /\ m \in q[j].codes <=> s[j].code = m
                                 /\ q[j].press <=> s[j].press
                                 /\ s[j] = [code |-> m, press |-> TRUE] <=> s[j].code = m /\ s[j].press
  <2>. TAKE j \in DOMAIN s
  <2>1. q[j] = [codes |-> {s[j].code}, press |-> s[j].press] /\ s[j].press \in BOOLEAN
        /\ s[j] = [code |-> s[j].code, press |-> s[j].press]
    BY <1>1
  <2>. QED  BY <2>1
<1>5. ASSUME NEW m \in Modifiers, NEW j \in 1 .. i - 1
      PROVE  /\ s[j] = [code |-> m, press |-> TRUE] /\ \A l \in j + 1 .. i - 1 : s[l].code # m
          <=> /\ m \in q[j].codes /\ q[j].press /\ \A l \in j + 1 .. i - 1 : m \notin q[l].codes
  BY <1>2, <1>3, <1>4
<1>. QED  BY <1>5 DEF q, ModsAt, ModsIn

LEMMA Spent ==
  ASSUME TypeOK, Spend(seqbuf), NEW u \in Stroke
  PROVE  due'[u] = due[u] - Strokes(Faked(seqbuf), {}, u)
<1>. DEFINE q == Faked(seqbuf)
            A == {i \in DOMAIN seqbuf : seqbuf[i].press /\ <<seqbuf[i].code, ModsAt(seqbuf, i)>> = u}
            C == {i \in DOMAIN q : q[i].press /\ u[1] \in q[i].codes /\ ModsIn(q, {}, i) = u[2]}
<1>1. seqbuf \in Seq(KeyChange) /\ u = <<u[1], u[2]>>
  BY DEF TypeOK, Stroke
<1>2. /\ DOMAIN q = DOMAIN seqbuf
      /\ \A i \in DOMAIN seqbuf : q[i].press = seqbuf[i].press /\ (u[1] \in q[i].codes <=> seqbuf[i].code = u[1])
  <2>1. /\ DOMAIN q = DOMAIN seqbuf
        /\ \A i \in DOMAIN seqbuf : q[i] = [codes |-> {seqbuf[i].code}, press |-> seqbuf[i].press]
    BY <1>1, FakedIs
  <2>. HIDE DEF q
  <2>. QED  BY <2>1
<1>3. \A i \in DOMAIN seqbuf : ModsAt(seqbuf, i) = ModsIn(q, {}, i)
  BY <1>1, ModsAtIs
<1>4. A = C
  <2>1. \A i \in DOMAIN seqbuf : <<seqbuf[i].code, ModsAt(seqbuf, i)>> = u
                                   <=> seqbuf[i].code = u[1] /\ ModsAt(seqbuf, i) = u[2]
    BY <1>1
  <2>. HIDE DEF q
  <2>. QED  BY <1>2, <1>3, <2>1
<1>5. due'[u] = due[u] - Cardinality(A)
  BY DEF Spend
<1>. QED  BY <1>4, <1>5 DEF Strokes

\* All that kseqi is still to fake.
Pending == fakes \o Faked(replay)

\* A report is read before the loop fakes anything, the keys are unpressed
\* before anything else is,
Caught ==
  /\ events # <<>> => fakes = <<>> /\ replay = <<>>
  /\ pc = "settle" => /\ replay = <<>> /\ core \subseteq stale
                      /\ \A i \in DOMAIN fakes : ~fakes[i].press

\* and the applications then have the modifiers down that the user has, when
\* the keys reach them and when what waits for them is faked.
ModsLeft ==
  /\ events = <<>> /\ pc = "recv" /\ (floating = NoDev \/ ~maybe) =>
       ModsAfter(Pending, core) = down \cap Modifiers
  /\ events # <<>> =>
       LET d == Head(events).dev IN
       /\ ~Floating(d) => core \cap Modifiers = held[d] \cap Modifiers
       /\ Floating(d) /\ ~maybe => core \cap Modifiers = down \cap Modifiers
  /\ maybe => ModsAfter(Faked(seqbuf), {}) = down \cap Modifiers

Accounted ==
  \A u \in Stroke :
    due[u] = Strokes(Pending, core, u) + Strokes(Faked(seqbuf), {}, u)
               + One(Withheld(u[1]) /\ u[2] = down \cap Modifiers)

Patient == pc # "exit" /\ ~hasty => Caught /\ ModsLeft /\ Accounted

LEMMA NothingFaked ==
  /\ Faked(<<>>) = <<>> /\ <<>> \in Seq(FakeEvent) /\ <<>> \in Seq(KeyChange)
  /\ \A B : ModsAfter(<<>>, B) = B \cap Modifiers /\ \A u : Strokes(<<>>, B, u) = 0
<1>1. Faked(<<>>) = <<>>
  BY DEF Faked
<1>2. \A B : ModsAfter(<<>>, B) = B \cap Modifiers
  <2>. TAKE B
  <2>1. Len(<<>>) + 1 = 1
    OBVIOUS
  <2>. QED  BY <2>1, ModsFirst DEF ModsAfter
<1>3. \A u : \A B : Strokes(<<>>, B, u) = 0
  <2>. TAKE u
  <2>1. \A i \in DOMAIN <<>> : ~(<<>>[i].press /\ u[1] \in <<>>[i].codes)
    OBVIOUS
  <2>. QED  BY <2>1, StrokesNone
<1>. QED  BY <1>1, <1>2, <1>3

LEMMA PatientInit == ASSUME Init, StartHeld = {} PROVE Patient
<1>1. /\ fakes = <<>> /\ replay = <<>> /\ seqbuf = <<>> /\ events = <<>> /\ core = {} /\ down = {}
      /\ pc = "recv" /\ \A u \in Stroke : due[u] = 0
  BY DEF Init, XInit, MainInit
<1>2. Pending = <<>> /\ Faked(seqbuf) = <<>>
  BY <1>1, NothingFaked DEF Pending
<1>3. Caught
  BY <1>1 DEF Caught
<1>4. ModsLeft
  BY <1>1, <1>2, NothingFaked DEF ModsLeft
<1>5. Accounted
  <2>. SUFFICES ASSUME NEW u \in Stroke
                PROVE  due[u] = Strokes(Pending, core, u) + Strokes(Faked(seqbuf), {}, u)
                                  + One(Withheld(u[1]) /\ u[2] = down \cap Modifiers)
    BY DEF Accounted
  <2>1. One(Withheld(u[1]) /\ u[2] = down \cap Modifiers) = 0
    BY <1>1 DEF One, Withheld
  <2>. QED  BY <1>1, <1>2, <2>1, NothingFaked
<1>. QED  BY <1>3, <1>4, <1>5 DEF Patient

LEMMA CountedType ==
  ASSUME TypeOK
  PROVE  /\ fakes \in Seq(FakeEvent) /\ replay \in Seq(KeyChange) /\ seqbuf \in Seq(KeyChange)
         /\ Faked(replay) \in Seq(FakeEvent) /\ Faked(seqbuf) \in Seq(FakeEvent)
         /\ Pending \in Seq(FakeEvent)
         /\ \A B, u : Strokes(Pending, B, u) \in Nat /\ Strokes(Faked(seqbuf), B, u) \in Nat
<1>1. fakes \in Seq(FakeEvent) /\ replay \in Seq(KeyChange) /\ seqbuf \in Seq(KeyChange)
  BY DEF TypeOK, XTypeOK
<1>2. Faked(replay) \in Seq(FakeEvent) /\ Faked(seqbuf) \in Seq(FakeEvent)
  BY <1>1, FakedIs
<1>3. Pending \in Seq(FakeEvent)
  BY <1>1, <1>2 DEF Pending
<1>. QED  BY <1>1, <1>2, <1>3, StrokesType

\* The user has waited: nothing is pending and the report is the only one.
LEMMA PatientKey ==
  ASSUME KeepsUp, TypeInv, Tracked, Prompt, Patient, pc # "exit", User
  PROVE  Patient'
<1>. SUFFICES ASSUME ~hasty' PROVE Caught' /\ ModsLeft' /\ Accounted'
  BY DEF Patient
<1>1. /\ events = <<>> /\ fakes = <<>> /\ pc = "recv" /\ replay = <<>> /\ ~hasty
      /\ UNCHANGED <<devs, seqbuf, down, maybe, floating, replay, pc, stale>>
  BY UserAlone DEF mainVars, TypeInv, TypeOK
<1>2. PICK d \in Keyboards, k \in Keys : KeyDown(d, k) \/ KeyUp(d, k)
  BY UserAlone
<1>3. /\ events' = <<KeyReport(d, k, k \notin down)>> /\ held[d] = down /\ fakes' = fakes
      /\ passive[d] = NoKey /\ (d \in active <=> floating = d) /\ d \notin detached
  <2>1. UNCHANGED mainVars
    BY UserAlone
  <2>. QED  BY <1>1, <1>2, <2>1, PromptKey DEF KeyDown, KeyUp, Prompt, InStep, Synced
<1>4. Head(events').press = (k \notin down) /\ Head(events').code = k /\ Head(events').dev = d /\ events' # <<>>
  BY <1>3, Reports
<1>5. /\ Caught /\ ModsLeft /\ Accounted /\ TypeOK
  BY <1>1 DEF Patient, TypeInv
<1>6. Pending = <<>> /\ Pending' = <<>> /\ Faked(seqbuf') = Faked(seqbuf)
  BY <1>1, <1>3, NothingFaked DEF Pending
<1>7. Floating(d) <=> floating # NoDev
  <2>1. floating = NoDev \/ floating = d
    BY <1>5 DEF KeepsUp, OneKeyboard, TypeOK
  <2>. QED  BY <1>3, <2>1, MainAssumption DEF Floating, MainAssumption
<1>8. floating = NoDev \/ ~maybe => core \cap Modifiers = down \cap Modifiers
  <2>1. ModsAfter(Pending, core) = core \cap Modifiers
    BY <1>6, NothingFaked
  <2>. QED  BY <1>1, <1>5, <2>1 DEF ModsLeft
<1>9. Caught'
  BY <1>1, <1>3 DEF Caught
<1>10. maybe' => ModsAfter(Faked(seqbuf'), {}) = down' \cap Modifiers
  BY <1>1, <1>5, <1>6 DEF ModsLeft
<1>11. \A u \in Stroke : due[u] = 0 + Strokes(Faked(seqbuf), {}, u) + 0 /\ Strokes(Faked(seqbuf), {}, u) \in Nat
  <2>. TAKE u \in Stroke
  <2>1. Strokes(Pending, core, u) = 0
    BY <1>6, NothingFaked
  <2>2. One(Withheld(u[1]) /\ u[2] = down \cap Modifiers) = 0
    BY <1>1 DEF One, Withheld
  <2>. QED  BY <1>5, <2>1, <2>2, CountedType DEF Accounted
<1>. SUFFICES /\ ~Floating(d)' => core' \cap Modifiers = held'[d] \cap Modifiers
              /\ Floating(d)' /\ ~maybe => core' \cap Modifiers = down \cap Modifiers
              /\ \A u \in Stroke :
                   due'[u] = Strokes(Faked(seqbuf), {}, u) + One(Withheld(u[1])' /\ u[2] = down \cap Modifiers)
  <2>1. ModsLeft'
    BY <1>1, <1>4, <1>10 DEF ModsLeft
  <2>2. Accounted'
    <3>. SUFFICES ASSUME NEW u \in Stroke
                  PROVE  due'[u] = Strokes(Pending', core', u) + Strokes(Faked(seqbuf'), {}, u)
                                     + One(Withheld(u[1])' /\ u[2] = down' \cap Modifiers)
      BY DEF Accounted
    <3>1. Strokes(Pending', core', u) = 0
      BY <1>6, NothingFaked
    <3>2. One(Withheld(u[1])' /\ u[2] = down' \cap Modifiers) = One(Withheld(u[1])' /\ u[2] = down \cap Modifiers)
      BY <1>1
    <3>3. One(Withheld(u[1])' /\ u[2] = down \cap Modifiers) \in Int
      BY DEF One
    <3>. QED  BY <1>6, <1>11, <3>1, <3>2, <3>3
  <2>. QED  BY <1>9, <2>1, <2>2
<1>12. CASE KeyUp(d, k)
  <2>1. /\ due' = due /\ k \in down /\ held'[d] = down \ {k}
        /\ core' = (IF Floating(d) THEN core ELSE core \ {k})
        /\ detached' = detached /\ active' = active /\ passive'[d] = NoKey
    <3>1. held \in [Keyboards -> SUBSET Keys] /\ passive \in [Keyboards -> Keys \cup {NoKey}]
      BY <1>5 DEF TypeOK, XTypeOK
    <3>. QED  BY <1>3, <1>12, <3>1 DEF KeyUp, setup
  <2>2. Floating(d)' <=> Floating(d)
    BY <1>3, <2>1 DEF Floating
  <2>3. \A u : One(Withheld(u[1])' /\ u[2] = down \cap Modifiers) = 0
    BY <1>4, <2>1 DEF Withheld, One
  <2>. QED  BY <1>7, <1>8, <1>11, <2>1, <2>2, <2>3
<1>13. CASE KeyDown(d, k)
  <2>. DEFINE mods  == held[d] \cap Modifiers
              grabs == ~Floating(d) /\ <<k, mods>> \in armed[d]
  <2>1. /\ k \notin down /\ detached' = detached /\ active' = active
        /\ passive' = (IF grabs THEN [passive EXCEPT ![d] = k] ELSE passive)
        /\ (grabs \/ Floating(d) => due' = Owed({<<k, mods>>}, {}) /\ core' = core)
        /\ (~(grabs \/ Floating(d)) => due' = Owed({<<k, mods>>}, {<<k, core \cap Modifiers>>})
                                        /\ core' = core \cup {k})
        /\ held'[d] = down \cup {k} /\ mods = down \cap Modifiers
    <3>1. held \in [Keyboards -> SUBSET Keys]
      BY <1>5 DEF TypeOK, XTypeOK
    <3>. QED  BY <1>3, <1>13, <3>1 DEF KeyDown, setup
  <2>2. Floating(d)' <=> grabs \/ Floating(d)
    <3>1. passive \in [Keyboards -> Keys \cup {NoKey}] /\ k # NoKey
      BY <1>5, XServerAssumption DEF TypeOK, XTypeOK, XServerAssumption
    <3>2. grabs => passive'[d] # NoKey
      BY <2>1, <3>1
    <3>3. ~grabs => passive' = passive
      BY <2>1
    <3>. QED  BY <2>1, <3>2, <3>3 DEF Floating
  <2>3. \A u : Withheld(u[1])' <=> k = u[1] /\ Floating(d)'
    BY <1>4, <2>1 DEF Withheld
  <2>. HIDE DEF mods, grabs
  <2>4. CASE grabs \/ Floating(d)
    <3>1. \A u \in Stroke : due'[u] = Strokes(Faked(seqbuf), {}, u) + One(Withheld(u[1])' /\ u[2] = down \cap Modifiers)
      <4>. TAKE u \in Stroke
      <4>1. due'[u] = due[u] + One(u \in {<<k, mods>>}) - One(u \in {})
        BY <2>1, <2>4 DEF Owed
      <4>2. u \in {<<k, mods>>} <=> Withheld(u[1])' /\ u[2] = down \cap Modifiers
        BY <2>1, <2>2, <2>3, <2>4 DEF Stroke
      <4>3. /\ One(u \in {<<k, mods>>}) = One(Withheld(u[1])' /\ u[2] = down \cap Modifiers)
            /\ One(u \in {}) = 0 /\ One(Withheld(u[1])' /\ u[2] = down \cap Modifiers) \in Int
        BY <4>2 DEF One
      <4>. QED  BY <1>11, <4>1, <4>3
    <3>2. ~maybe => core' \cap Modifiers = down \cap Modifiers
      BY <1>8, <2>1, <2>4
    <3>. QED  BY <2>2, <2>4, <3>1, <3>2
  <2>5. CASE ~(grabs \/ Floating(d))
    <3>1. core \cap Modifiers = mods
      BY <1>7, <1>8, <2>1, <2>5
    <3>2. \A u \in Stroke : due'[u] = Strokes(Faked(seqbuf), {}, u) + One(Withheld(u[1])' /\ u[2] = down \cap Modifiers)
      <4>. TAKE u \in Stroke
      <4>1. due'[u] = due[u] + One(u \in {<<k, mods>>}) - One(u \in {<<k, mods>>})
        BY <2>1, <2>5, <3>1 DEF Owed
      <4>2. One(Withheld(u[1])' /\ u[2] = down \cap Modifiers) = 0 /\ One(u \in {<<k, mods>>}) \in Int
        BY <2>2, <2>3, <2>5 DEF One
      <4>. QED  BY <1>11, <4>1, <4>2
    <3>3. core' \cap Modifiers = held'[d] \cap Modifiers
      BY <2>1, <2>5, <3>1
    <3>. QED  BY <2>2, <2>5, <3>2, <3>3
  <2>. QED  BY <2>4, <2>5
<1>. QED  BY <1>2, <1>12, <1>13

LEMMA PatientServe ==
  ASSUME TypeInv, Patient, pc # "exit", Server
  PROVE  Patient'
<1>. DEFINE f == Head(fakes)
            p == Pending'
<1>1. /\ TypeOK /\ fakes # <<>> /\ fakes' = Tail(fakes)
      /\ UNCHANGED <<pc, events, replay, seqbuf, active, passive, detached, held, down, maybe,
                     floating, stale, hasty>>
      /\ core' = (IF f.press THEN core \cup f.codes ELSE core \ f.codes)
      /\ due' = (IF f.press THEN Owed({}, f.codes \X {core \cap Modifiers}) ELSE due)
  BY DEF TypeInv, Server, ServeFakes, mainVars, setup
<1>. SUFFICES ASSUME ~hasty PROVE Caught' /\ ModsLeft' /\ Accounted'
  BY <1>1 DEF Patient
<1>2. Caught /\ ModsLeft /\ Accounted /\ events = <<>>
  BY <1>1 DEF Patient, Caught
<1>3. /\ f \in FakeEvent /\ Tail(fakes) \in Seq(FakeEvent) /\ fakes = <<f>> \o Tail(fakes)
      /\ f = fakes[1] /\ 1 \in DOMAIN fakes /\ fakes \in Seq(FakeEvent)
      /\ \A i \in DOMAIN Tail(fakes) : i + 1 \in DOMAIN fakes /\ Tail(fakes)[i] = fakes[i + 1]
  BY <1>1, CountedType
<1>4. <<f>> \in Seq(FakeEvent) /\ p \in Seq(FakeEvent) /\ Pending = <<f>> \o p
  <2>1. Faked(replay) \in Seq(FakeEvent) /\ p = Tail(fakes) \o Faked(replay)
    BY <1>1, CountedType DEF Pending
  <2>. DEFINE r == Faked(replay)
              t == Tail(fakes)
  <2>. HIDE DEF f, p, r, t
  <2>2. r \in Seq(FakeEvent) /\ t \in Seq(FakeEvent) /\ f \in FakeEvent /\ p = t \o r
    BY <1>3, <2>1 DEF r, t
  <2>3. (<<f>> \o t) \o r = <<f>> \o (t \o r) /\ t \o r \in Seq(FakeEvent) /\ <<f>> \in Seq(FakeEvent)
    BY <2>2
  <2>. QED  BY <1>3, <2>2, <2>3 DEF Pending, r, t
<1>5. ModsAfter(<<f>>, core) = core' \cap Modifiers
  BY <1>1, <1>3, StrokesOne DEF Struck
<1>. HIDE DEF p
<1>6. \A u : Strokes(Pending, core, u) = Strokes(<<f>>, core, u) + Strokes(p, core', u)
  <2>. TAKE u
  <2>1. Strokes(<<f>> \o p, core, u) = Strokes(<<f>>, core, u) + Strokes(p, ModsAfter(<<f>>, core), u)
    <3>. DEFINE q == <<f>>
    <3>1. q \in Seq(FakeEvent)
      BY <1>4
    <3>. HIDE DEF q
    <3>2. Strokes(q \o p, core, u) = Strokes(q, core, u) + Strokes(p, ModsAfter(q, core), u)
      BY <1>4, <3>1, StrokesJoined
    <3>. QED  BY <3>2 DEF q
  <2>2. Strokes(p, core' \cap Modifiers, u) = Strokes(p, core', u)
    <3>1. (core' \cap Modifiers) \cap Modifiers = core' \cap Modifiers
      OBVIOUS
    <3>. QED  BY <3>1, StrokesBase
  <2>. QED  BY <1>4, <1>5, <2>1, <2>2
<1>7. ModsAfter(Pending, core) = ModsAfter(p, core')
  <2>1. ModsAfter(<<f>> \o p, core) = ModsAfter(p, ModsAfter(<<f>>, core))
    BY <1>4, ModsAfterJoined
  <2>2. ModsAfter(p, core' \cap Modifiers) = ModsAfter(p, core')
    <3>1. (core' \cap Modifiers) \cap Modifiers = core' \cap Modifiers
      OBVIOUS
    <3>. QED  BY <3>1, StrokesBase
  <2>. QED  BY <1>4, <1>5, <2>1, <2>2
<1>8. Caught'
  <2>1. pc = "settle" => ~f.press
    BY <1>2, <1>3 DEF Caught
  <2>. HIDE DEF f
  <2>2. core \subseteq stale /\ ~f.press => core' \subseteq stale
    BY <1>1 DEF f
  <2>3. (\A i \in DOMAIN fakes : ~fakes[i].press) => \A i \in DOMAIN Tail(fakes) : ~Tail(fakes)[i].press
    BY <1>3
  <2>. QED  BY <1>1, <1>2, <2>1, <2>2, <2>3 DEF Caught
<1>9. ModsLeft'
  BY <1>1, <1>2, <1>7 DEF ModsLeft, p
<1>10. Accounted'
  <2>. SUFFICES ASSUME NEW u \in Stroke
                PROVE  due'[u] = Strokes(Pending', core', u) + Strokes(Faked(seqbuf'), {}, u)
                                   + One(Withheld(u[1])' /\ u[2] = down' \cap Modifiers)
    BY DEF Accounted
  <2>1. /\ One(Withheld(u[1])' /\ u[2] = down' \cap Modifiers) = 0
        /\ One(Withheld(u[1]) /\ u[2] = down \cap Modifiers) = 0
    BY <1>1, <1>2 DEF One, Withheld
  <2>2. due[u] = Strokes(<<f>>, core, u) + Strokes(p, core', u) + Strokes(Faked(seqbuf), {}, u)
    <3>1. due[u] = Strokes(Pending, core, u) + Strokes(Faked(seqbuf), {}, u) + 0
      BY <1>2, <2>1 DEF Accounted
    <3>2. Strokes(Pending, core, u) \in Nat /\ Strokes(Faked(seqbuf), {}, u) \in Nat
      BY <1>1, CountedType
    <3>. QED  BY <1>6, <3>1, <3>2
  <2>3. Strokes(<<f>>, core, u) = One(f.press /\ u[1] \in f.codes /\ core \cap Modifiers = u[2])
    BY <1>3, StrokesOne
  <2>4. due'[u] = due[u] - One(f.press /\ u[1] \in f.codes /\ core \cap Modifiers = u[2])
    <3>. HIDE DEF f
    <3>0. due[u] \in Int
      BY <1>1 DEF TypeOK, XTypeOK
    <3>1. CASE f.press
      <4>1. due'[u] = due[u] + One(u \in {}) - One(u \in f.codes \X {core \cap Modifiers})
        BY <1>1, <3>1 DEF Owed, f
      <4>2. u \in f.codes \X {core \cap Modifiers} <=> f.press /\ u[1] \in f.codes /\ core \cap Modifiers = u[2]
        BY <3>1 DEF Stroke
      <4>3. /\ One(u \in f.codes \X {core \cap Modifiers}) = One(f.press /\ u[1] \in f.codes /\ core \cap Modifiers = u[2])
            /\ One(u \in {}) = 0 /\ One(f.press /\ u[1] \in f.codes /\ core \cap Modifiers = u[2]) \in Int
        BY <4>2 DEF One
      <4>. QED  BY <3>0, <4>1, <4>3
    <3>2. CASE ~f.press
      <4>1. due' = due
        BY <1>1, <3>2 DEF f
      <4>2. One(f.press /\ u[1] \in f.codes /\ core \cap Modifiers = u[2]) = 0
        BY <3>2 DEF One
      <4>. QED  BY <3>0, <4>1, <4>2
    <3>. QED  BY <3>1, <3>2
  <2>5. /\ Strokes(<<f>>, core, u) \in Nat /\ Strokes(p, core', u) \in Nat /\ Strokes(Faked(seqbuf), {}, u) \in Nat
    BY <1>1, <1>4, CountedType, StrokesType
  <2>6. due'[u] = Strokes(p, core', u) + Strokes(Faked(seqbuf), {}, u)
    BY <2>2, <2>3, <2>4, <2>5
  <2>7. p = Pending' /\ seqbuf' = seqbuf
    BY <1>1 DEF p
  <2>. QED  BY <2>1, <2>5, <2>6, <2>7
<1>. QED  BY <1>8, <1>9, <1>10

LEMMA PatientReplay ==
  ASSUME TypeInv, Patient, ProcReplay
  PROVE  Patient'
<1>. DEFINE c == Head(replay)
            f == [codes |-> {c.code}, press |-> c.press]
            t == Faked(Tail(replay))
<1>1. /\ TypeOK /\ replay # <<>> /\ fakes' = Append(fakes, f) /\ replay' = Tail(replay) /\ pc = "recv"
      /\ UNCHANGED <<pc, events, core, due, seqbuf, active, passive, detached, held, down, maybe,
                     floating, stale, hasty>>
  BY DEF TypeInv, ProcReplay, Fake, setup
<1>. SUFFICES ASSUME ~hasty PROVE Caught' /\ ModsLeft' /\ Accounted'
  BY <1>1 DEF Patient
<1>2. Caught /\ ModsLeft /\ Accounted /\ events = <<>>
  BY <1>1 DEF Patient, Caught
<1>3. /\ c \in KeyChange /\ Tail(replay) \in Seq(KeyChange) /\ Faked(replay) = <<f>> \o t
  BY <1>1, CountedType, FakedTaken
<1>4. Pending' = Pending
  <2>1. f \in FakeEvent /\ t \in Seq(FakeEvent) /\ fakes \in Seq(FakeEvent)
    BY <1>1, <1>3, CountedType, FakedOne, FakedIs
  <2>2. Pending' = Append(fakes, f) \o t /\ Pending = fakes \o (<<f>> \o t)
    BY <1>1, <1>3 DEF Pending
  <2>. HIDE DEF f, t
  <2>3. Append(fakes, f) \o t = fakes \o (<<f>> \o t)
    BY <2>1
  <2>. QED  BY <2>2, <2>3
<1>5. Caught' /\ ModsLeft'
  BY <1>1, <1>2, <1>4 DEF Caught, ModsLeft
<1>6. Accounted'
  <2>1. \A u : One(Withheld(u[1])' /\ u[2] = down' \cap Modifiers) = 0
               /\ One(Withheld(u[1]) /\ u[2] = down \cap Modifiers) = 0
    BY <1>1, <1>2 DEF One, Withheld
  <2>2. \A u \in Stroke : due'[u] = Strokes(Pending', core', u) + Strokes(Faked(seqbuf'), {}, u) + 0
    BY <1>1, <1>2, <1>4, <2>1 DEF Accounted
  <2>. QED  BY <2>1, <2>2 DEF Accounted
<1>. QED  BY <1>5, <1>6

LEMMA PatientHandle ==
  ASSUME KeepsUp, TypeInv, Tracked, Prompt, Patient, pc \in {"recv", "grab"}, events # <<>>,
         HandleKey(Head(events)), UNCHANGED <<replay, due, core, floating, hasty>>,
         floating = NoDev => ~Floating(Head(events).dev)
  PROVE  Patient'
<1>. DEFINE e == Head(events)
            c == [code |-> e.code, press |-> e.press]
            f == [codes |-> {e.code}, press |-> e.press]
            D == down \cap Modifiers
<1>1. e \in KeyEvent /\ e.dev \in Keyboards /\ e.code \in Keys /\ e.press \in BOOLEAN
  BY Popped DEF Tracked, KeyEvent, TypeInv, TypeOK, XTypeOK
<1>2. /\ events' = <<>> /\ TakeIn(e) /\ TypeOK /\ down' = DownAfter(e)
      /\ pc' = "settle" => down' = {} /\ stale' = core
  BY DEF HandleKey, Prompt, InStep, TypeInv, TypeOK, XTypeOK
<1>. SUFFICES ASSUME ~hasty PROVE Caught' /\ ModsLeft' /\ Accounted'
  BY DEF Patient
<1>3. Caught /\ ModsLeft /\ Accounted /\ fakes = <<>> /\ replay = <<>> /\ Pending = <<>>
  BY NothingFaked DEF Patient, Caught, Pending
<1>4. Floating(e.dev) <=> floating # NoDev
  <2>1. \A d \in Keyboards : d = e.dev
    BY <1>1 DEF KeepsUp, OneKeyboard
  <2>2. ASSUME floating # NoDev PROVE Floating(e.dev)
    BY <1>1, <2>1, <2>2 DEF Prompt, Synced, Floating, TypeInv, TypeOK
  <2>. QED  BY <2>2
<1>5. /\ f \in FakeEvent /\ c \in KeyChange /\ seqbuf \in Seq(KeyChange) /\ Faked(seqbuf) \in Seq(FakeEvent)
      /\ \A u : Strokes(Faked(seqbuf), {}, u) \in Nat
  BY <1>1, <1>2, CountedType DEF FakeEvent, KeyChange
<1>6. Struck(f, D) = down' \cap Modifiers /\ Struck(f, down) = down' \cap Modifiers
  BY <1>2 DEF Struck, DownAfter
<1>7. floating = NoDev => core \cap Modifiers = down' \cap Modifiers
  <2>1. held[e.dev] = DownAfter(e)
    BY <1>1 DEF Prompt, InStep
  <2>. QED  BY <1>2, <1>3, <1>4, <2>1 DEF ModsLeft
<1>8. ~maybe /\ floating # NoDev => core \cap Modifiers = D
  BY <1>3, <1>4 DEF ModsLeft
<1>9. maybe => ModsAfter(Faked(seqbuf), {}) = D
  BY <1>3 DEF ModsLeft
<1>10. \A u \in Stroke : due[u] = Strokes(Faked(seqbuf), {}, u) + One(Withheld(u[1]) /\ u[2] = D)
  <2>. TAKE u \in Stroke
  <2>1. due[u] = Strokes(Pending, core, u) + Strokes(Faked(seqbuf), {}, u) + One(Withheld(u[1]) /\ u[2] = D)
    BY <1>3 DEF Accounted
  <2>2. Strokes(Pending, core, u) = 0
    BY <1>3, NothingFaked
  <2>3. One(Withheld(u[1]) /\ u[2] = D) \in Int /\ Strokes(Faked(seqbuf), {}, u) \in Int
    BY <1>5 DEF One
  <2>. QED  BY <2>1, <2>2, <2>3
<1>11. \A k : Withheld(k) <=> floating # NoDev /\ e.press /\ e.code = k
  BY <1>4 DEF Withheld
<1>12. pc' = "settle" => ~e.press
  BY <1>2 DEF DownAfter
<1>13. \A u : One(Withheld(u[1])' /\ u[2] = down' \cap Modifiers) = 0
  BY <1>2 DEF Withheld, One
<1>. HIDE DEF c, f, D
<1>14. CASE ~maybe /\ floating # NoDev
  <2>1. fakes' = Append(fakes, f) /\ seqbuf' = seqbuf /\ ~maybe'
    BY <1>2, <1>14 DEF TakeIn, Fake, f
  <2>2. Pending' = <<f>> /\ fakes' = <<f>>
    <3>1. Append(<<>>, f) = <<f>> /\ <<f>> \o <<>> = <<f>>
      OBVIOUS
    <3>. QED  BY <1>3, <2>1, <3>1, NothingFaked DEF Pending
  <2>3. ModsAfter(<<f>>, core) = down' \cap Modifiers
    <3>1. ModsAfter(<<f>>, core) = Struck(f, core)
      BY <1>5, StrokesOne
    <3>2. Struck(f, core) = Struck(f, core \cap Modifiers) /\ Struck(f, D) = down' \cap Modifiers
      BY <1>6 DEF Struck
    <3>. QED  BY <1>8, <1>14, <3>1, <3>2
  <2>4. Caught'
    <3>1. pc' = "settle" => \A i \in DOMAIN fakes' : ~fakes'[i].press
      <4>1. f.press = e.press
        BY DEF f
      <4>2. \A i \in DOMAIN <<f>> : <<f>>[i] = f
        OBVIOUS
      <4>. QED  BY <1>12, <2>2, <4>1, <4>2
    <3>. QED  BY <1>2, <1>3, <3>1 DEF Caught
  <2>5. ModsLeft'
    BY <1>2, <2>1, <2>2, <2>3 DEF ModsLeft
  <2>6. Accounted'
    <3>. SUFFICES ASSUME NEW u \in Stroke
                  PROVE  due[u] = Strokes(<<f>>, core, u) + Strokes(Faked(seqbuf), {}, u) + 0
      BY <1>13, <2>1, <2>2 DEF Accounted
    <3>1. Strokes(<<f>>, core, u) = One(f.press /\ u[1] \in f.codes /\ core \cap Modifiers = u[2])
      BY <1>5, StrokesOne
    <3>2. f.press /\ u[1] \in f.codes /\ core \cap Modifiers = u[2] <=> Withheld(u[1]) /\ u[2] = D
      BY <1>1, <1>8, <1>11, <1>14 DEF f
    <3>3. One(f.press /\ u[1] \in f.codes /\ core \cap Modifiers = u[2]) = One(Withheld(u[1]) /\ u[2] = D)
          /\ One(Withheld(u[1]) /\ u[2] = D) \in Int
      BY <3>2 DEF One
    <3>. QED  BY <1>5, <1>10, <3>1, <3>3
  <2>. QED  BY <2>4, <2>5, <2>6
<1>15. CASE \/ ~maybe /\ floating = NoDev
            \/ maybe /\ e.press /\ e.code \notin Modifiers /\ floating = NoDev
  <2>1. fakes' = fakes /\ seqbuf' = seqbuf /\ ~maybe' /\ floating = NoDev
    BY <1>2, <1>15 DEF TakeIn
  <2>2. Pending' = <<>>
    BY <1>3, <2>1, NothingFaked DEF Pending
  <2>3. Caught'
    BY <1>2, <1>3, <2>1 DEF Caught
  <2>4. ModsLeft'
    <3>1. ModsAfter(<<>>, core) = down' \cap Modifiers
      BY <1>7, <2>1, NothingFaked
    <3>. QED  BY <1>2, <2>1, <2>2, <3>1 DEF ModsLeft
  <2>5. Accounted'
    <3>. SUFFICES ASSUME NEW u \in Stroke
                  PROVE  due[u] = Strokes(<<>>, core, u) + Strokes(Faked(seqbuf), {}, u) + 0
      BY <1>13, <2>1, <2>2 DEF Accounted
    <3>1. Strokes(<<>>, core, u) = 0
      BY NothingFaked
    <3>2. One(Withheld(u[1]) /\ u[2] = D) = 0
      BY <1>11, <2>1 DEF One
    <3>. QED  BY <1>5, <1>10, <3>1, <3>2
  <2>. QED  BY <2>3, <2>4, <2>5
<1>16. CASE maybe /\ ~(e.press /\ e.code \notin Modifiers /\ floating = NoDev)
  <2>1. fakes' = fakes /\ seqbuf' = Append(seqbuf, c) /\ maybe' = maybe
    BY <1>2, <1>16 DEF TakeIn, c
  <2>2. Pending' = <<>>
    BY <1>3, <2>1, NothingFaked DEF Pending
  <2>3. Faked(seqbuf') = Faked(seqbuf) \o <<f>> /\ <<f>> \in Seq(FakeEvent)
    <3>1. Append(seqbuf, c) = seqbuf \o <<c>> /\ <<c>> \in Seq(KeyChange) /\ <<f>> \in Seq(FakeEvent)
      BY <1>5
    <3>2. Faked(<<c>>) = <<f>>
      <4>1. Faked(<<c>>) = <<[codes |-> {c.code}, press |-> c.press]>>
        BY <1>5, FakedOne
      <4>. QED  BY <4>1 DEF c, f
    <3>3. Faked(seqbuf \o <<c>>) = Faked(seqbuf) \o Faked(<<c>>)
      BY <1>5, <3>1, FakedJoined
    <3>. QED  BY <2>1, <3>1, <3>2, <3>3
  <2>. DEFINE q == <<f>>
              s == Faked(seqbuf)
  <2>4. q \in Seq(FakeEvent) /\ s \in Seq(FakeEvent) /\ Faked(seqbuf') = s \o q
    BY <1>5, <2>3
  <2>5. /\ ModsAfter(q, D) = down' \cap Modifiers
        /\ \A u : Strokes(q, D, u) = One(f.press /\ u[1] \in f.codes /\ D \cap Modifiers = u[2])
    BY <1>5, <1>6, StrokesOne
  <2>6. ModsAfter(s, {}) = D
    BY <1>9, <1>16
  <2>. HIDE DEF q
  <2>7. ModsAfter(s \o q, {}) = down' \cap Modifiers
    <3>. HIDE DEF s
    <3>1. ModsAfter(s \o q, {}) = ModsAfter(q, ModsAfter(s, {}))
      BY <2>4, ModsAfterJoined
    <3>. QED  BY <2>5, <2>6, <3>1
  <2>8. \A u : Strokes(s \o q, {}, u) = Strokes(s, {}, u) + Strokes(q, D, u)
    <3>. HIDE DEF s
    <3>1. \A u : Strokes(s \o q, {}, u) = Strokes(s, {}, u) + Strokes(q, ModsAfter(s, {}), u)
      BY <2>4, StrokesJoined
    <3>. QED  BY <2>6, <3>1
  <2>9. Caught'
    BY <1>2, <1>3, <2>1 DEF Caught
  <2>10. ModsLeft'
    <3>1. floating = NoDev => ModsAfter(<<>>, core) = down' \cap Modifiers
      BY <1>7, NothingFaked
    <3>2. floating' = NoDev \/ ~maybe' => floating = NoDev
      BY <1>16, <2>1
    <3>3. ModsAfter(Faked(seqbuf'), {}) = down' \cap Modifiers
      BY <2>4, <2>7
    <3>. QED  BY <1>2, <2>2, <3>1, <3>2, <3>3 DEF ModsLeft
  <2>11. Accounted'
    <3>. SUFFICES ASSUME NEW u \in Stroke
                  PROVE  due[u] = Strokes(<<>>, core, u) + Strokes(s \o q, {}, u) + 0
      BY <1>13, <2>2, <2>4 DEF Accounted
    <3>1. Strokes(<<>>, core, u) = 0
      BY NothingFaked
    <3>2. f.press /\ u[1] \in f.codes /\ D \cap Modifiers = u[2] <=> Withheld(u[1]) /\ u[2] = D
      <4>1. u[1] \notin Modifiers /\ D \cap Modifiers = D
        BY DEF Stroke, D
      <4>2. f.press = e.press /\ (u[1] \in f.codes <=> e.code = u[1])
        BY DEF f
      <4>. QED  BY <1>1, <1>11, <1>16, <4>1, <4>2
    <3>3. One(f.press /\ u[1] \in f.codes /\ D \cap Modifiers = u[2]) = One(Withheld(u[1]) /\ u[2] = D)
          /\ One(Withheld(u[1]) /\ u[2] = D) \in Int
      BY <3>2 DEF One
    <3>4. Strokes(s \o q, {}, u) = Strokes(s, {}, u) + One(Withheld(u[1]) /\ u[2] = D)
      BY <2>5, <2>8, <3>3
    <3>. QED  BY <1>5, <1>10, <3>1, <3>3, <3>4
  <2>. QED  BY <2>9, <2>10, <2>11
<1>. QED  BY <1>14, <1>15, <1>16

LEMMA PatientSettle ==
  ASSUME TypeInv, Prompt, Patient, Settle
  PROVE  Patient'
<1>. DEFINE f == [codes |-> stale, press |-> FALSE]
            s == Faked(seqbuf)
            p == fakes'
<1>1. /\ TypeOK /\ pc = "settle" /\ events = <<>> /\ down = {}
      /\ events' = <<>> /\ seqbuf' = <<>> /\ down' = {} /\ pc' = "recv"
      /\ UNCHANGED <<core, hasty>>
  BY DEF Settle, Prompt, InStep, TypeInv
<1>. SUFFICES ASSUME ~hasty PROVE Caught' /\ ModsLeft' /\ Accounted'
  BY <1>1 DEF Patient
<1>2. /\ Caught /\ ModsLeft /\ Accounted /\ replay = <<>> /\ core \subseteq stale
      /\ \A i \in DOMAIN fakes : ~fakes[i].press
  BY <1>1 DEF Patient, Caught
<1>3. /\ fakes \in Seq(FakeEvent) /\ seqbuf \in Seq(KeyChange) /\ s \in Seq(FakeEvent)
      /\ f \in FakeEvent /\ ~f.press
      /\ \A B, u : Strokes(s, B, u) \in Nat
  BY <1>1, CountedType DEF TypeOK, FakeEvent
<1>4. p \in Seq(FakeEvent) /\ ModsAfter(p, core) = {} /\ \A u : Strokes(p, core, u) = 0
  <2>1. ModsAfter(fakes, core) \subseteq core
    BY <1>2, <1>3, ModsReleased
  <2>2. \A u : Strokes(fakes, core, u) = 0
    <3>. TAKE u
    <3>1. \A i \in DOMAIN fakes : ~(fakes[i].press /\ u[1] \in fakes[i].codes)
      BY <1>2
    <3>2. \A B : Strokes(fakes, B, u) = 0
      BY <3>1, StrokesNone
    <3>. QED  BY <3>2
  <2>3. CASE stale = {} /\ p = fakes
    BY <1>2, <1>3, <2>1, <2>2, <2>3
  <2>4. CASE p = Append(fakes, f)
    <3>. DEFINE C == ModsAfter(fakes, core)
                q == <<f>>
    <3>1. p = fakes \o q /\ q \in Seq(FakeEvent) /\ p \in Seq(FakeEvent)
      <4>. HIDE DEF f
      <4>1. Append(fakes, f) = fakes \o <<f>> /\ <<f>> \in Seq(FakeEvent) /\ Append(fakes, f) \in Seq(FakeEvent)
        BY <1>3
      <4>. QED  BY <2>4, <4>1
    <3>2. /\ ModsAfter(q, C) = Struck(f, C)
          /\ \A u : Strokes(q, C, u) = One(f.press /\ u[1] \in f.codes /\ C \cap Modifiers = u[2])
      <4>. HIDE DEF f, C
      <4>. QED  BY <1>3, StrokesOne
    <3>3. Struck(f, C) = {}
      BY <1>2, <2>1 DEF Struck
    <3>4. \A u : Strokes(q, C, u) = 0
      BY <1>3, <3>2 DEF One
    <3>. HIDE DEF q, p
    <3>5. ModsAfter(fakes \o q, core) = ModsAfter(q, C)
      BY <1>3, <3>1, ModsAfterJoined
    <3>6. \A u : Strokes(fakes \o q, core, u) = Strokes(fakes, core, u) + Strokes(q, C, u)
      BY <1>3, <3>1, StrokesJoined
    <3>7. \A u : Strokes(fakes \o q, core, u) = 0
      BY <2>2, <3>4, <3>6
    <3>. QED  BY <3>1, <3>2, <3>3, <3>5, <3>7
  <2>. QED  BY <2>3, <2>4 DEF Settle, Unpress, Fake
<1>5. \A u \in Stroke : due[u] = Strokes(s, {}, u)
  <2>. TAKE u \in Stroke
  <2>1. due[u] = Strokes(Pending, core, u) + Strokes(s, {}, u) + One(Withheld(u[1]) /\ u[2] = down \cap Modifiers)
    BY <1>2 DEF Accounted
  <2>2. Pending = fakes
    <3>1. fakes \o <<>> = fakes
      BY <1>3
    <3>. QED  BY <1>2, <3>1, NothingFaked DEF Pending
  <2>3. Strokes(fakes, core, u) = 0
    <3>1. \A i \in DOMAIN fakes : ~(fakes[i].press /\ u[1] \in fakes[i].codes)
      BY <1>2
    <3>2. \A B : Strokes(fakes, B, u) = 0
      BY <3>1, StrokesNone
    <3>. QED  BY <3>2
  <2>4. One(Withheld(u[1]) /\ u[2] = down \cap Modifiers) = 0
    BY <1>1 DEF Withheld, One
  <2>. QED  BY <1>3, <2>1, <2>2, <2>3, <2>4
<1>. HIDE DEF p, s, f
<1>6. Caught'
  BY <1>1 DEF Caught
<1>. SUFFICES /\ ModsAfter(Pending', core) = {}
              /\ \A u \in Stroke : due'[u] = Strokes(Pending', core, u)
              /\ \A u : Strokes(Pending', core, u) \in Int
  <2>1. ModsAfter(Faked(seqbuf'), {}) = {} /\ \A u : Strokes(Faked(seqbuf'), {}, u) = 0
    BY <1>1, NothingFaked
  <2>2. \A u : One(Withheld(u[1])' /\ u[2] = down' \cap Modifiers) = 0
    BY <1>1 DEF Withheld, One
  <2>3. ModsLeft'
    BY <1>1, <2>1 DEF ModsLeft
  <2>4. Accounted'
    <3>. SUFFICES ASSUME NEW u \in Stroke
                  PROVE  due'[u] = Strokes(Pending', core, u) + 0 + 0
      BY <1>1, <2>1, <2>2 DEF Accounted
    <3>. QED  OBVIOUS
  <2>. QED  BY <1>6, <2>3, <2>4
<1>7. CASE replay' = <<>>
  <2>1. Pending' = p
    <3>1. p \o <<>> = p
      BY <1>4
    <3>. QED  BY <1>7, <3>1, NothingFaked DEF Pending, p
  <2>2. ASSUME NEW u \in Stroke PROVE due'[u] = 0
    <3>1. CASE Spend(seqbuf)
      <4>1. due'[u] = due[u] - Strokes(s, {}, u)
        BY <1>1, <3>1, Spent DEF s
      <4>. QED  BY <1>3, <1>5, <4>1
    <3>2. CASE ~Matches /\ ~Unmatched /\ due' = due
      <4>1. \A i \in DOMAIN seqbuf : seqbuf[i].press => seqbuf[i].code \in Modifiers
        BY <1>1, <3>2, NothingDropped
      <4>2. \A i \in DOMAIN s : ~(s[i].press /\ u[1] \in s[i].codes)
        <5>1. /\ DOMAIN s = DOMAIN seqbuf
              /\ \A i \in DOMAIN seqbuf : s[i] = [codes |-> {seqbuf[i].code}, press |-> seqbuf[i].press]
          BY <1>3, FakedIs DEF s
        <5>2. \A i \in DOMAIN seqbuf : s[i].press = seqbuf[i].press /\ s[i].codes = {seqbuf[i].code}
          BY <5>1
        <5>3. u[1] \notin Modifiers
          BY DEF Stroke
        <5>. QED  BY <4>1, <5>1, <5>2, <5>3
      <4>3. \A B : Strokes(s, B, u) = 0
        BY <4>2, StrokesNone
      <4>. QED  BY <1>5, <3>2, <4>3
    <3>3. CASE replay' = replay \o seqbuf /\ Unmatched
      <4>1. <<>> \o seqbuf = seqbuf
        BY <1>3
      <4>2. seqbuf = <<>>
        BY <1>2, <1>7, <3>3, <4>1
      <4>. QED  BY <3>3, <4>2 DEF Unmatched
    <3>. QED  BY <3>1, <3>2, <3>3 DEF Settle
  <2>. QED  BY <1>4, <2>1, <2>2
<1>8. CASE replay' # <<>>
  <2>1. replay' = replay \o seqbuf /\ due' = due /\ maybe
    BY <1>2, <1>8 DEF Settle, Unmatched
  <2>2. Pending' = p \o s
    <3>1. <<>> \o seqbuf = seqbuf
      BY <1>3
    <3>. QED  BY <1>2, <2>1, <3>1 DEF Pending, p, s
  <2>3. ModsAfter(p \o s, core) = ModsAfter(s, ModsAfter(p, core))
    BY <1>3, <1>4, ModsAfterJoined
  <2>4. \A u : Strokes(p \o s, core, u) = Strokes(p, core, u) + Strokes(s, ModsAfter(p, core), u)
    <3>1. p \in Seq(FakeEvent) /\ s \in Seq(FakeEvent)
      BY <1>3, <1>4
    <3>2. \A a, b \in Seq(FakeEvent) : \A B, u :
            Strokes(a \o b, B, u) = Strokes(a, B, u) + Strokes(b, ModsAfter(a, B), u)
      BY StrokesJoined
    <3>. QED  BY <3>1, <3>2
  <2>5. ModsAfter(s, {}) = {}
    BY <1>1, <1>2, <2>1 DEF ModsLeft, s
  <2>6. \A u : Strokes(p \o s, core, u) = Strokes(s, {}, u) /\ Strokes(s, {}, u) \in Int
    BY <1>3, <1>4, <2>4
  <2>. QED  BY <1>4, <1>5, <2>1, <2>2, <2>3, <2>5, <2>6
<1>. QED  BY <1>7, <1>8

LEMMA PatientStep ==
  ASSUME KeepsUp, TypeInv, Tracked, Prompt, Patient, [Next]_vars
  PROVE  Patient'
<1>1. CASE pc = "exit"
  <2>1. pc' = "exit"
    BY <1>1 DEF Next, User, Server, Daemon, RecvKey, GrabFloating, Settle, RecvHier, ProcReplay, Quit,
                vars, mainVars
  <2>. QED  BY <2>1 DEF Patient
<1>2. CASE pc # "exit" /\ User
  BY <1>2, PatientKey
<1>3. CASE pc # "exit" /\ Server
  BY <1>3, PatientServe
<1>4. CASE pc # "exit" /\ RecvKey
  <2>1. Head(events).dev \in devs /\ Head(events) \in KeyEvent
    BY <1>4, Popped DEF RecvKey, Tracked, KeyEvent, TypeInv, TypeOK, XTypeOK
  <2>2. UNCHANGED <<replay, due, core, held, detached, active, passive, hasty>> /\ pc = "recv" /\ events # <<>>
    BY <1>4 DEF RecvKey, setup
  <2>3. CASE HandleKey(Head(events)) /\ ~(floating = NoDev /\ Floating(Head(events).dev)) /\ UNCHANGED floating
    BY <2>2, <2>3, PatientHandle
  <2>4. CASE pc' = "grab" /\ UNCHANGED <<seqbuf, down, maybe, events, fakes>>
    <3>1. /\ \A k : Withheld(k)' <=> Withheld(k)
          /\ \A d : Floating(d)' <=> Floating(d)
      BY <2>2, <2>4 DEF Withheld, Floating
    <3>2. \A u : One(Withheld(u[1])' /\ u[2] = down' \cap Modifiers) = One(Withheld(u[1]) /\ u[2] = down \cap Modifiers)
      BY <2>4, <3>1 DEF One
    <3>3. Pending' = Pending
      BY <2>2, <2>4 DEF Pending
    <3>4. Caught => Caught'
      BY <2>2, <2>4 DEF Caught
    <3>5. ModsLeft => ModsLeft'
      BY <2>2, <2>4, <3>1 DEF ModsLeft
    <3>6. Accounted => Accounted'
      BY <2>2, <2>4, <3>2, <3>3 DEF Accounted
    <3>. QED  BY <1>4, <2>2, <3>4, <3>5, <3>6 DEF Patient
  <2>. QED  BY <1>4, <2>1, <2>3, <2>4 DEF RecvKey
<1>5. CASE pc # "exit" /\ GrabFloating
  <2>1. /\ pc = "grab" /\ events # <<>> /\ floating \in Keyboards
        /\ UNCHANGED <<replay, due, core, floating, hasty>> /\ HandleKey(Head(events))
    BY <1>5, Kinds DEF GrabFloating, TypeInv, GrabPending, KeyEvent
  <2>2. floating # NoDev
    BY <2>1, MainAssumption DEF MainAssumption
  <2>. QED  BY <2>1, <2>2, PatientHandle
<1>6. CASE pc # "exit" /\ Settle
  BY <1>6, PatientSettle
<1>7. CASE pc # "exit" /\ RecvHier
  BY <1>7, Popped DEF RecvHier, Tracked, KeyEvent, TypeInv, TypeOK, XTypeOK
<1>8. CASE Quit
  BY <1>8 DEF Quit, Patient
<1>9. CASE ProcReplay
  BY <1>9, PatientReplay
<1>10. CASE UNCHANGED vars
  <2>1. UNCHANGED <<pc, hasty, events, fakes, due, core, held, replay, seqbuf, down, maybe, floating,
                    stale, active, passive, detached>>
    BY <1>10 DEF vars, srvVars, mainVars
  <2>2. /\ \A k : Withheld(k)' <=> Withheld(k)
        /\ \A d : Floating(d)' <=> Floating(d)
    BY <2>1 DEF Withheld, Floating
  <2>3. \A u : One(Withheld(u[1])' /\ u[2] = down' \cap Modifiers) = One(Withheld(u[1]) /\ u[2] = down \cap Modifiers)
    BY <2>1, <2>2 DEF One
  <2>4. Pending' = Pending
    BY <2>1 DEF Pending
  <2>5. Caught => Caught'
    BY <2>1 DEF Caught
  <2>6. ModsLeft => ModsLeft'
    BY <2>1, <2>2, <2>4 DEF ModsLeft
  <2>7. Accounted => Accounted'
    BY <2>1, <2>3, <2>4 DEF Accounted
  <2>. QED  BY <2>1, <2>5, <2>6, <2>7 DEF Patient
<1>. QED  BY <1>1, <1>2, <1>3, <1>4, <1>5, <1>6, <1>7, <1>8, <1>9, <1>10 DEF Next, Daemon

\* Under the same conditions, once all is quiet the applications have had each
\* key with the very modifiers it was pressed with if the user has always
\* waited for the replay, although the modifiers of a sequence reach them
\* while it is typed, are unpressed before it is typed again and come again
\* with it (lib.rs:103-145).
THEOREM AsTypedThm ==
  ASSUME KeepsUp, StartHeld = {}
  PROVE  Spec => []AsTyped
<1>. DEFINE IInv == LeaseInv /\ Tracked /\ Prompt /\ Patient
<1>1. Init => IInv
  BY LeaseInit, TrackedInit, PromptInit, PatientInit
<1>2. IInv /\ [Next]_vars => IInv'
  BY StepType, LeaseStep, TrackedStep, PromptStep, PatientStep DEF LeaseInv, KeepsUp
<1>3. IInv => AsTyped
  <2>. SUFFICES ASSUME IInv, Quiet, ~hasty, NEW u \in Stroke
                PROVE  due[u] = 0
    BY DEF AsTyped
  <2>1. /\ pc = "recv" /\ events = <<>> /\ fakes = <<>> /\ replay = <<>>
    BY DEF Quiet
  <2>2. down = {}
    BY <2>1 DEF Quiet, Tracked, DownEnds, Released
  <2>3. seqbuf = <<>>
    BY <2>2 DEF Quiet, LeaseInv, Lease, AtRest
  <2>4. Pending = <<>> /\ Faked(seqbuf) = <<>>
    BY <2>1, <2>3, NothingFaked DEF Pending
  <2>5. due[u] = Strokes(<<>>, core, u) + Strokes(<<>>, {}, u) + One(Withheld(u[1]) /\ u[2] = down \cap Modifiers)
    BY <2>1, <2>4 DEF Patient, Accounted
  <2>6. One(Withheld(u[1]) /\ u[2] = down \cap Modifiers) = 0
    BY <2>1 DEF One, Withheld
  <2>. QED  BY <2>5, <2>6, NothingFaked
<1>. QED  BY <1>1, <1>2, <1>3, PTL DEF Spec
==============================================================================
