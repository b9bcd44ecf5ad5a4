---------------------------- MODULE KeymapProofs ----------------------------
(***************************************************************************)
(* The two ways kseqi reads the modifier map come to the same keycodes.    *)
(***************************************************************************)
EXTENDS Keymap, FiniteSetTheorems, WellFoundedInduction, TLAPS

\* What Min of FiniteSetsExt is, of two numbers.
LEMMA MinOfTwo ==
  ASSUME NEW a \in Int, NEW b \in Int
  PROVE  Min({a, b}) \in {a, b} /\ Min({a, b}) <= a /\ Min({a, b}) <= b
<1>1. \E x \in {a, b} : \A y \in {a, b} : x <= y
  <2>1. CASE a <= b
    BY <2>1
  <2>2. CASE b <= a
    BY <2>2
  <2>. QED  BY <2>1, <2>2
<1>. QED  BY <1>1 DEF Min

\* The keycodes from one place on: those with no zero before them.
LEMMA LeadingPlaces ==
  ASSUME NEW mm \in Seq(Nat), NEW beg \in Nat, NEW n \in Nat, NEW k
  PROVE  k \in Leading(mm, beg, n) <=>
           \E j \in beg + 1 .. beg + n : /\ j <= Len(mm) /\ mm[j] = k
                                         /\ \A l \in beg + 1 .. j : mm[l] # 0
<1>. DEFINE m == Min({beg + n, Len(mm)})
<1>1. m \in {beg + n, Len(mm)} /\ m <= beg + n /\ m <= Len(mm)
  <2>1. beg + n \in Int /\ Len(mm) \in Int
    OBVIOUS
  <2>. QED  BY <2>1, MinOfTwo
<1>2. Leading(mm, beg, n) = {mm[i] : i \in {i \in beg + 1 .. m : \A j \in beg + 1 .. i : mm[j] # 0}}
  BY DEF Leading
<1>. HIDE DEF m
<1>3. \A j \in beg + 1 .. beg + n : j <= Len(mm) => j \in beg + 1 .. m
  BY <1>1
<1>4. \A j \in beg + 1 .. m : j \in beg + 1 .. beg + n /\ j <= Len(mm)
  BY <1>1
<1>. QED  BY <1>2, <1>3, <1>4

\* Groups of p follow one another.
LEMMA GroupsApart ==
  ASSUME NEW p \in Nat, NEW i \in Nat, NEW q \in Nat, q < i
  PROVE  p * q + p <= p * i
<1>1. PICK r \in Nat : i = q + 1 + r
  <2>1. i - q - 1 \in Nat /\ i = q + 1 + (i - q - 1)
    OBVIOUS
  <2>. QED  BY <2>1
<1>2. p * i = p * q + p + p * r /\ p * r >= 0
  BY <1>1
<1>. QED  BY <1>2

\* Every place is in one of the eight groups.
LEMMA InAGroup ==
  ASSUME NEW p \in Nat, NEW j \in 1 .. 8 * p
  PROVE  \E q \in 0 .. 7 : p * q < j /\ j <= p * q + p
<1>1. \/ p * 0 < j /\ j <= p * 0 + p
      \/ p * 1 < j /\ j <= p * 1 + p
      \/ p * 2 < j /\ j <= p * 2 + p
      \/ p * 3 < j /\ j <= p * 3 + p
      \/ p * 4 < j /\ j <= p * 4 + p
      \/ p * 5 < j /\ j <= p * 5 + p
      \/ p * 6 < j /\ j <= p * 6 + p
      \/ p * 7 < j /\ j <= p * 7 + p
  OBVIOUS
<1>. QED  BY <1>1

\* ModifierCodes::iter looks at eight keycodes from the beginning of each
\* group, whatever the length of a group, and may go on into the next ones
\* (mod.rs:687); the keycodes it finds are those in the groups nevertheless,
\* as code_map finds them, unless a group has more than eight.
THEOREM ModifiersThm ==
  ASSUME NEW mm \in Seq(Nat), NEW p \in 1 .. 8, Len(mm) = 8 * p
  PROVE  Modifiers(mm) = DOMAIN CodeMap(mm)
<1>1. PerMod(mm) = p
  BY DEF PerMod
<1>2. DOMAIN CodeMap(mm) = UNION {Leading(mm, p * i, p) : i \in 0 .. 7}
  BY <1>1 DEF CodeMap, Group
<1>3. Modifiers(mm) = UNION {Leading(mm, p * i, 8) : i \in 0 .. 7}
  BY <1>1 DEF Modifiers
<1>4. ASSUME NEW i \in 0 .. 7, NEW k \in Leading(mm, p * i, p)
      PROVE  k \in Leading(mm, p * i, 8)
  <2>1. p * i \in Nat
    OBVIOUS
  <2>2. PICK j \in p * i + 1 .. p * i + p :
          j <= Len(mm) /\ mm[j] = k /\ \A l \in p * i + 1 .. j : mm[l] # 0
    BY <2>1, LeadingPlaces
  <2>3. j \in p * i + 1 .. p * i + 8
    BY <2>1, <2>2
  <2>. QED  BY <2>1, <2>2, <2>3, LeadingPlaces
<1>5. ASSUME NEW i \in 0 .. 7, NEW k \in Leading(mm, p * i, 8)
      PROVE  \E q \in 0 .. 7 : k \in Leading(mm, p * q, p)
  <2>1. p * i \in Nat
    OBVIOUS
  <2>2. PICK j \in p * i + 1 .. p * i + 8 :
          j <= Len(mm) /\ mm[j] = k /\ \A l \in p * i + 1 .. j : mm[l] # 0
    BY <2>1, LeadingPlaces
  <2>3. j \in 1 .. 8 * p
    BY <2>1, <2>2
  <2>4. PICK q \in 0 .. 7 : p * q < j /\ j <= p * q + p
    BY <2>3, InAGroup
  <2>5. p * q \in Nat
    OBVIOUS
  <2>6. p * i <= p * q
    <3>1. CASE q < i
      <4>1. p * q + p <= p * i
        BY <3>1, GroupsApart
      <4>. QED  BY <2>1, <2>2, <2>4, <2>5, <4>1
    <3>2. CASE q = i
      BY <3>2, <2>1
    <3>3. CASE i < q
      <4>1. p * i + p <= p * q
        BY <3>3, GroupsApart
      <4>. QED  BY <2>1, <2>5, <4>1
    <3>. QED  BY <3>1, <3>2, <3>3
  <2>7. j \in p * q + 1 .. p * q + p /\ \A l \in p * q + 1 .. j : mm[l] # 0
    BY <2>1, <2>2, <2>4, <2>5, <2>6
  <2>8. \E l \in p * q + 1 .. p * q + p : /\ l <= Len(mm) /\ mm[l] = k
                                        /\ \A h \in p * q + 1 .. l : mm[h] # 0
    BY <2>2, <2>7
  <2>9. p \in Nat
    OBVIOUS
  <2>10. k \in Leading(mm, p * q, p)
    BY <2>5, <2>8, <2>9, LeadingPlaces
  <2>. QED  BY <2>10
<1>. QED  BY <1>2, <1>3, <1>4, <1>5

\* Numbers have a least one,
LEMMA LeastOf ==
  ASSUME NEW S \in SUBSET Nat, S # {}
  PROVE  Min(S) \in S /\ \A x \in S : Min(S) <= x
<1>1. \E i \in S : \A j \in S : <<j, i>> \notin OpToRel(<, Nat)
  BY NatLessThanWellFounded, WFMin, Zenon
<1>2. \E i \in S : \A j \in S : ~(j < i)
  BY <1>1, Zenon DEF OpToRel
<1>3. \E i \in S : \A j \in S : i <= j
  BY <1>2
<1>. QED  BY <1>3 DEF Min

\* and finitely many can be put in order.
Ordered(S, q) ==
  q \in [1 .. Cardinality(S) -> S] /\ \A i, j \in DOMAIN q : i < j => q[j] < q[i]

LEMMA OrderedExists ==
  ASSUME NEW S \in SUBSET Nat, IsFiniteSet(S)
  PROVE  \E q : Ordered(S, q)
<1>. DEFINE Bad(n) == \E T \in SUBSET Nat : /\ IsFiniteSet(T) /\ Cardinality(T) = n
                                            /\ ~ \E q : Ordered(T, q)
            B == {n \in Nat : Bad(n)}
<1>1. ASSUME B # {} PROVE FALSE
  <2>. DEFINE n == Min(B)
  <2>1. n \in B /\ \A x \in B : n <= x
    BY <1>1, LeastOf
  <2>. HIDE DEF n
  <2>2. PICK T \in SUBSET Nat : /\ IsFiniteSet(T) /\ Cardinality(T) = n
                                /\ ~ \E q : Ordered(T, q)
    BY <2>1
  <2>3. n \in Nat /\ \A k \in Nat : k < n => k \notin B
    BY <2>1
  <2>4. CASE T = {}
    <3>1. Cardinality(T) = 0
      BY <2>4, FS_EmptySet
    <3>2. Ordered(T, <<>>)
      BY <2>4, <3>1 DEF Ordered
    <3>. QED  BY <2>2, <3>2
  <2>5. CASE T # {}
    <3>. DEFINE a == Min(T)
                R == T \ {a}
    <3>1. a \in T /\ \A x \in T : a <= x
      BY <2>5, LeastOf
    <3>. HIDE DEF a
    <3>2. IsFiniteSet(R) /\ Cardinality(R) = n - 1 /\ n - 1 \in Nat
      <4>1. IsFiniteSet(R) /\ Cardinality(R) = n - 1
        BY <2>2, <3>1, FS_RemoveElement
      <4>2. Cardinality(R) \in Nat
        BY <4>1, FS_CardinalityType
      <4>. QED  BY <4>1, <4>2
    <3>3. \E q : Ordered(R, q)
      <4>1. n - 1 \notin B
        BY <2>3, <3>2
      <4>. QED  BY <3>2, <4>1
    <3>4. PICK q : Ordered(R, q)
      BY <3>3
    <3>. DEFINE r == [i \in 1 .. n |-> IF i = n THEN a ELSE q[i]]
    <3>5. q \in [1 .. n - 1 -> R] /\ \A i, j \in 1 .. n - 1 : i < j => q[j] < q[i]
      BY <3>2, <3>4 DEF Ordered
    <3>6. \A i \in 1 .. n : i # n => i \in 1 .. n - 1 /\ q[i] \in T /\ a < q[i]
      <4>1. \A i \in 1 .. n : i # n => i \in 1 .. n - 1
        BY <2>3
      <4>2. \A i \in 1 .. n - 1 : q[i] \in T /\ q[i] # a
        BY <3>5
      <4>3. \A x \in T : x # a => a < x
        BY <3>1
      <4>. QED  BY <4>1, <4>2, <4>3
    <3>7. r \in [1 .. n -> T]
      BY <3>1, <3>6
    <3>8. ASSUME NEW i \in 1 .. n, NEW j \in 1 .. n, i < j PROVE r[j] < r[i]
      <4>1. i # n
        BY <2>3, <3>8
      <4>2. r[i] = q[i] /\ a < q[i] /\ i \in 1 .. n - 1
        BY <3>6, <4>1
      <4>3. CASE j = n
        BY <4>2, <4>3
      <4>4. CASE j # n
        <5>1. r[j] = q[j] /\ j \in 1 .. n - 1
          BY <3>6, <4>4
        <5>. QED  BY <3>5, <3>8, <4>2, <5>1
      <4>. QED  BY <4>3, <4>4
    <3>. HIDE DEF r
    <3>9. Ordered(T, r)
      BY <2>2, <3>7, <3>8 DEF Ordered
    <3>. QED  BY <2>2, <3>9
  <2>. QED  BY <2>4, <2>5
<1>2. Cardinality(S) \in Nat
  BY FS_CardinalityType
<1>. QED  BY <1>1, <1>2

LEMMA DescendingType ==
  ASSUME NEW S \in SUBSET Nat, IsFiniteSet(S)
  PROVE  Descending(S) \in Seq(S) /\ Len(Descending(S)) = Cardinality(S)
<1>1. PICK q : Ordered(S, q)
  BY OrderedExists
<1>2. \E p \in [1 .. Cardinality(S) -> S] : \A i, j \in DOMAIN p : i < j => p[j] < p[i]
  BY <1>1 DEF Ordered
<1>3. Descending(S) \in [1 .. Cardinality(S) -> S]
  BY <1>2 DEF Descending
<1>4. Cardinality(S) \in Nat
  BY FS_CardinalityType
<1>. QED  BY <1>3, <1>4

\* A keyboard map as the server has it.
IsKeymap(m) == DOMAIN m \subseteq 0 .. 255 /\ m = [k \in DOMAIN m |-> m[k]]

LEMMA UnassignedType ==
  ASSUME NEW m, IsKeymap(m)
  PROVE  Unassigned(m) \in Seq(DOMAIN m \ InUse(m))
<1>1. IsFiniteSet(0 .. 255)
  <2>1. 0 \in Int /\ 255 \in Int
    OBVIOUS
  <2>. QED  BY <2>1, FS_Interval
<1>2. DOMAIN m \ InUse(m) \in SUBSET (0 .. 255)
  BY DEF IsKeymap
<1>3. IsFiniteSet(DOMAIN m \ InUse(m))
  BY <1>1, <1>2, FS_Subset
<1>4. DOMAIN m \ InUse(m) \in SUBSET Nat
  BY <1>2
<1>. QED  BY <1>3, <1>4, DescendingType DEF Unassigned

\* There is a spare keycode; all of them are free, if one is.
LEMMA SparesAre ==
  ASSUME NEW m, IsKeymap(m)
  PROVE  /\ Spares(m) # <<>> /\ Spares(m) = [i \in 1 .. Len(Spares(m)) |-> Spares(m)[i]]
         /\ Unassigned(m) # <<>> => ToSet(Spares(m)) \subseteq DOMAIN m \ InUse(m)
<1>. DEFINE u == Unassigned(m)
            F == DOMAIN m \ InUse(m)
<1>1. u \in Seq(F)
  BY UnassignedType
<1>. HIDE DEF u, F
<1>2. CASE u = <<>>
  <2>1. Spares(m) = <<FallbackUnuse(m)>>
    BY <1>2 DEF Spares, u
  <2>. QED  BY <1>2, <2>1 DEF u
<1>3. CASE u # <<>>
  <2>. DEFINE n == Min({MaxSpare, Len(u)})
  <2>1. Len(u) \in Int /\ Len(u) >= 1 /\ MaxSpare \in Int /\ MaxSpare >= 1
    BY <1>1, <1>3, KeymapAssumption
  <2>2. n \in {MaxSpare, Len(u)} /\ n <= MaxSpare /\ n <= Len(u)
    BY <2>1, MinOfTwo
  <2>. HIDE DEF n
  <2>3. n \in 1 .. Len(u)
    BY <2>1, <2>2
  <2>4. Spares(m) = SubSeq(u, 1, n)
    BY <1>3 DEF Spares, u, n
  <2>5. SubSeq(u, 1, n) \in Seq(F) /\ Len(SubSeq(u, 1, n)) = n
    BY <1>1, <2>3
  <2>6. Spares(m) # <<>>
    BY <2>3, <2>4, <2>5
  <2>7. ToSet(Spares(m)) \subseteq F
    BY <2>4, <2>5 DEF ToSet
  <2>8. Spares(m) = [i \in 1 .. Len(Spares(m)) |-> Spares(m)[i]]
    BY <2>4, <2>5
  <2>. QED  BY <2>6, <2>7, <2>8 DEF F
<1>. QED  BY <1>2, <1>3

\* What is typed is typed with keycodes in use.
LEMMA TypedInUse ==
  ASSUME NEW m, IsKeymap(m), NEW s \in DOMAIN SymKeyCode(m)
  PROVE  SymKeyCode(m)[s].code \in InUse(m)
<1>. DEFINE syms(k) == {m[k][i] : i \in Levels(m[k]) \cap {1, 2}}
            J == {j \in DOMAIN m : s \in syms(j)}
<1>1. s \in UNION {syms(k) : k \in DOMAIN m}
  BY DEF SymKeyCode
<1>2. SymKeyCode(m)[s].code = Min(J)
  BY <1>1 DEF SymKeyCode
<1>3. J # {} /\ J \in SUBSET Nat
  BY <1>1 DEF IsKeymap
<1>4. Min(J) \in J
  BY <1>3, LeastOf
<1>5. J \subseteq InUse(m)
  BY DEF InUse
<1>. QED  BY <1>2, <1>4, <1>5

\* No two symbols are typed with one keycode and the same Shift.
LEMMA SymKeyCodeInjective ==
  ASSUME NEW m, IsKeymap(m)
  PROVE  SymKeyCode(m) \in Injection(DOMAIN SymKeyCode(m), [code: DOMAIN m, shift: BOOLEAN])
<1>. DEFINE f == SymKeyCode(m)
            syms(k) == {m[k][i] : i \in Levels(m[k]) \cap {1, 2}}
            J(s) == {j \in DOMAIN m : s \in syms(j)}
            code(s) == Min(J(s))
            shift(s) == m[code(s)][1] # s
<1>1. f = [s \in UNION {syms(k) : k \in DOMAIN m} |-> [code |-> code(s), shift |-> shift(s)]]
  BY DEF SymKeyCode
<1>2. ASSUME NEW s \in DOMAIN f PROVE code(s) \in J(s)
  <2>1. J(s) # {} /\ J(s) \in SUBSET Nat
    BY <1>1 DEF IsKeymap
  <2>. HIDE DEF J
  <2>. QED  BY <2>1, LeastOf
<1>3. \A s \in DOMAIN f : /\ code(s) \in DOMAIN m /\ shift(s) \in BOOLEAN
                          /\ s = m[code(s)][IF shift(s) THEN 2 ELSE 1]
  <2>. SUFFICES ASSUME NEW s \in DOMAIN f
                PROVE  code(s) \in DOMAIN m /\ s = m[code(s)][IF shift(s) THEN 2 ELSE 1]
    OBVIOUS
  <2>1. code(s) \in DOMAIN m /\ s \in syms(code(s))
    BY <1>2
  <2>2. s = m[code(s)][1] \/ s = m[code(s)][2]
    BY <2>1
  <2>. QED  BY <2>1, <2>2
<1>. HIDE DEF code, shift, syms, J
<1>4. /\ \A s \in DOMAIN f : f[s] = [code |-> code(s), shift |-> shift(s)]
      /\ f = [s \in DOMAIN f |-> f[s]]
  BY <1>1
<1>. HIDE DEF f
<1>5. f \in [DOMAIN f -> [code: DOMAIN m, shift: BOOLEAN]]
  BY <1>3, <1>4
<1>6. ASSUME NEW s \in DOMAIN f, NEW t \in DOMAIN f, f[s] = f[t] PROVE s = t
  <2>1. f[s].code = code(s) /\ f[t].code = code(t) /\ f[s].shift = shift(s) /\ f[t].shift = shift(t)
    BY <1>4
  <2>. QED  BY <1>3, <1>6, <2>1
<1>. QED  BY <1>5, <1>6 DEF Injection, IsInjective, f
=============================================================================
