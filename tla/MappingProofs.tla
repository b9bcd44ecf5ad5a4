--------------------------- MODULE MappingProofs ---------------------------
(***************************************************************************)
(* What holds of Mapping for every configuration and every keyboard.       *)
(***************************************************************************)
EXTENDS Mapping, FiniteSetTheorems, WellFoundedInduction, TLAPS

(* Of any places of a sequence one comes first. *)
LEMMA Earliest ==
  ASSUME NEW P \in SUBSET Nat, P # {}
  PROVE  /\ (CHOOSE i \in P : \A j \in P : i <= j) \in P
         /\ \A j \in P : (CHOOSE i \in P : \A k \in P : i <= k) <= j
  <1>1. \E i \in P : \A j \in P : <<j, i>> \notin OpToRel(<, Nat)
    BY NatLessThanWellFounded, WFMin, Zenon
  <1>2. \E i \in P : \A j \in P : ~(j < i)
    BY <1>1, Zenon DEF OpToRel
  <1>3. \E i \in P : \A j \in P : i <= j
    BY <1>2
  <1> QED
    BY <1>3

LEMMA FirstPlainIsFirst ==
  ASSUME NEW c \in Seq(Codes), Plain(c) # {}
  PROVE  FirstPlain(c) \in Plain(c) /\ \A j \in Plain(c) : FirstPlain(c) <= j
  <1>1. Plain(c) \in SUBSET Nat
    BY DEF Plain
  <1> QED
    BY <1>1, Earliest DEF FirstPlain

(* The keycodes of a sequence that may be grabbed are keycodes, *)
LEMMA CodesType ==
  ASSUME NEW ns \in Seq(Names), HasCodes(ns)
  PROVE  CodesOf(ns) \in Seq(Codes)
  <1>1. \A i \in 1 .. Len(ns) : SymCode[NameSym[ns[i]]] \in Codes
    BY DEF HasCodes, Codes
  <1> QED
    BY <1>1 DEF CodesOf

(* and so is the key that is grabbed. *)
LEMMA BeginningType ==
  ASSUME NEW c \in Seq(Codes)
  PROVE  Beginning(c) \subseteq Codes \X SUBSET Bits
  <1>1. CASE Plain(c) = {}
    BY <1>1 DEF Beginning
  <1>2. CASE Plain(c) # {}
    <2>1. c[FirstPlain(c)] \in Codes
      BY <1>2, FirstPlainIsFirst DEF Plain
    <2> DEFINE M == {b \in Bits : Odd({j \in 1 .. FirstPlain(c) - 1 : KeycodeMod[c[j]] = b})}
    <2>2. Beginning(c) = {<<c[FirstPlain(c)], M>>}
      BY <1>2 DEF Beginning
    <2>3. M \in SUBSET Bits
      OBVIOUS
    <2> HIDE DEF M
    <2> QED
      BY <2>1, <2>2, <2>3
  <1> QED
    BY <1>1, <1>2

(* The names up to the first that is refused are names of the line. *)
LEMMA UpToType ==
  ASSUME NEW ns \in Seq(Names), NEW known \in SUBSET Names
  PROVE  UpTo(ns, known) \in Seq(Names)
  <1>1. CASE Refused(ns, known) = {}
    BY <1>1 DEF UpTo
  <1>2. CASE Refused(ns, known) # {}
    <2> DEFINE r == CHOOSE i \in Refused(ns, known) :
                      \A j \in Refused(ns, known) : i <= j
    <2>1. Refused(ns, known) \in SUBSET (1 .. Len(ns))
      BY DEF Refused
    <2>2. r \in 1 .. Len(ns)
      BY <1>2, <2>1, Earliest
    <2> HIDE DEF r
    <2>3. SubSeq(ns, 1, r) \in Seq(Names)
      BY <2>2
    <2> USE DEF r
    <2> QED
      BY <1>2, <2>3 DEF UpTo
  <1> QED
    BY <1>1, <1>2

LEMMA LearntType ==
  ASSUME NEW ns \in Seq(Names), NEW known \in SUBSET Names
  PROVE  Learnt(ns, known) \in SUBSET Names
  BY DEF Learnt

LEMMA InitType == Init => TypeOK
  <1> SUFFICES ASSUME Init PROVE TypeOK
    OBVIOUS
  <1>1. file \in Files /\ Len(file) \in Nat
    BY MappingAssumption DEF Init
  <1>2. lineind \in 0 .. Len(file) /\ nameSym = {} /\ grabkeys = {} /\ DOMAIN map = {}
    BY <1>1 DEF Init
  <1> QED
    BY <1>1, <1>2 DEF TypeOK

(* What adding a line does to what has been built, whichever way it goes:   *)
(* the names stay names, the keys to grab only become more, and a sequence  *)
(* that becomes known has its first plain key among them.                   *)
LEMMA AddEffect ==
  ASSUME TypeOK, NEW l \in Lines, Add(l), lineind' = lineind + 1
  PROVE  /\ nameSym' \in SUBSET Names
         /\ \/ UNCHANGED <<grabkeys, map>>
            \/ \E c \in Seq(Codes) :
                 /\ HasCodes(l.seq) /\ c = CodesOf(l.seq)
                 /\ grabkeys' = grabkeys \cup Beginning(c)
                 /\ map' = map \/ map' = Insert(map, c, lineind')
  <1>1. l.seq \in Seq(Names) /\ l.keys \in Seq(Names) /\ nameSym \in SUBSET Names
    BY MappingAssumption DEF Line, TypeOK
  <1>2. Learnt(l.seq, nameSym) \in SUBSET Names
    BY <1>1, LearntType
  <1>3. Learnt(UpTo(l.keys, Learnt(l.seq, nameSym)), Learnt(l.seq, nameSym)) \in SUBSET Names
    BY <1>1, <1>2, UpToType, LearntType
  <1>4. nameSym' \in SUBSET Names
    BY <1>1, <1>2, <1>3 DEF Add
  <1>5. CASE UNCHANGED <<grabkeys, map>>
    BY <1>4, <1>5
  <1>6. CASE /\ HasCodes(l.seq)
             /\ grabkeys' = grabkeys \cup Beginning(CodesOf(l.seq))
             /\ map' = map \/ map' = Insert(map, CodesOf(l.seq), lineind')
    <2>1. CodesOf(l.seq) \in Seq(Codes)
      BY <1>1, <1>6, CodesType
    <2> QED
      BY <1>4, <1>6, <2>1
  <1> QED
    BY <1>5, <1>6 DEF Add

LEMMA StepType == TypeOK /\ [Next]_vars => TypeOK'
  <1> SUFFICES ASSUME TypeOK, [Next]_vars PROVE TypeOK'
    OBVIOUS
  <1>1. CASE UNCHANGED vars
    BY <1>1 DEF TypeOK, vars
  <1>2. CASE ReadLine
    <2>1. file' = file /\ lineind' = lineind + 1 /\ lineind' \in 1 .. Len(file)
      BY <1>2 DEF ReadLine, TypeOK
    <2>2. \A q \in DOMAIN map : map[q] \in 1 .. lineind'
      BY <2>1 DEF TypeOK
    <2>3. CASE UNCHANGED <<nameSym, grabkeys, map>>
      BY <2>1, <2>2, <2>3 DEF TypeOK
    <2>4. CASE Parsed[file[lineind']] # Unparsed /\ Add(Parsed[file[lineind']])
      <3>1. Parsed[file[lineind']] \in Lines
        <4>1. file[lineind'] \in DOMAIN Parsed
          BY <2>1, MappingAssumption DEF TypeOK
        <4> QED
          BY <2>4, <4>1 DEF Lines
      <3>2. /\ nameSym' \in SUBSET Names
            /\ \/ UNCHANGED <<grabkeys, map>>
               \/ \E c \in Seq(Codes) :
                    /\ grabkeys' = grabkeys \cup Beginning(c)
                    /\ map' = map \/ map' = Insert(map, c, lineind')
        BY <2>1, <2>4, <3>1, AddEffect
      <3>3. grabkeys' \subseteq Codes \X SUBSET Bits
        BY <3>2, BeginningType DEF TypeOK
      <3>4. /\ DOMAIN map' \subseteq Seq(Codes)
            /\ \A q \in DOMAIN map' : map'[q] \in 1 .. lineind'
        <4>1. CASE map' = map
          BY <2>2, <4>1 DEF TypeOK
        <4>2. ASSUME NEW c \in Seq(Codes), map' = Insert(map, c, lineind')
              PROVE  <3>4!1 /\ <3>4!2
          BY <2>1, <2>2, <4>2 DEF Insert, TypeOK
        <4> QED
          BY <3>2, <4>1, <4>2
      <3> QED
        BY <2>1, <3>2, <3>3, <3>4 DEF TypeOK
    <2> QED
      BY <1>2, <2>3, <2>4 DEF ReadLine
  <1> QED
    BY <1>1, <1>2 DEF Next

(* Whatever the configuration says, what is built from it is well formed:   *)
(* the keys to grab are keycodes under known modifiers, and each sequence   *)
(* comes from a line already read (MapBuilder).                             *)
THEOREM MappingTypeCorrect == Spec => []TypeOK
  BY InitType, StepType, PTL DEF Spec

-----------------------------------------------------------------------------
(* One more element, or one less, makes an odd number even and an even one  *)
(* odd.                                                                     *)
LEMMA OddMore ==
  ASSUME NEW S, IsFiniteSet(S), NEW x, x \notin S
  PROVE  IsFiniteSet(S \cup {x}) /\ (Odd(S \cup {x}) <=> ~Odd(S))
  <1>1. IsFiniteSet(S \cup {x}) /\ Cardinality(S \cup {x}) = Cardinality(S) + 1
    BY FS_AddElement
  <1>2. Cardinality(S) \in Nat
    BY FS_CardinalityType
  <1> QED
    BY <1>1, <1>2 DEF Odd

LEMMA OddLess ==
  ASSUME NEW S, IsFiniteSet(S), NEW x, x \in S
  PROVE  IsFiniteSet(S \ {x}) /\ (Odd(S \ {x}) <=> ~Odd(S))
  <1>1. IsFiniteSet(S \ {x})
    BY FS_RemoveElement
  <1>2. (S \ {x}) \cup {x} = S
    OBVIOUS
  <1> QED
    BY <1>1, <1>2, OddMore

(* The modifier keys that are down once a user has come to a place of a     *)
(* sequence, and those of them that have a bit.                             *)
HeldKeys(c, n) == {k \in DOMAIN KeycodeMod : Odd({j \in 1 .. n : c[j] = k})}
HeldBit(c, n, b) == {k \in HeldKeys(c, n) : KeycodeMod[k] = b}
Uses(c, n, b)    == {j \in 1 .. n : KeycodeMod[c[j]] = b}

(* A key more is let go of if it was down, and down if it was not.          *)
LEMMA HeldToggles ==
  ASSUME NEW c, NEW n \in Nat, c[n + 1] \in DOMAIN KeycodeMod
  PROVE  HeldKeys(c, n + 1) = IF c[n + 1] \in HeldKeys(c, n)
                                THEN HeldKeys(c, n) \ {c[n + 1]}
                                ELSE HeldKeys(c, n) \cup {c[n + 1]}
  <1> DEFINE at(k, m) == {j \in 1 .. m : c[j] = k}
  <1>1. 1 .. n + 1 = (1 .. n) \cup {n + 1} /\ n + 1 \notin 1 .. n
    OBVIOUS
  <1>2. ASSUME NEW k, k # c[n + 1] PROVE at(k, n + 1) = at(k, n)
    BY <1>1, <1>2
  <1>3. Odd(at(c[n + 1], n + 1)) <=> ~Odd(at(c[n + 1], n))
    <2>1. IsFiniteSet(at(c[n + 1], n))
      BY FS_Interval, FS_Subset
    <2>2. at(c[n + 1], n + 1) = at(c[n + 1], n) \cup {n + 1} /\ n + 1 \notin at(c[n + 1], n)
      BY <1>1
    <2> HIDE DEF at
    <2> QED
      BY <2>1, <2>2, OddMore
  <1>4. \A m : HeldKeys(c, m) = {k \in DOMAIN KeycodeMod : Odd(at(k, m))}
    BY DEF HeldKeys
  <1> HIDE DEF at
  <1> QED
    BY <1>2, <1>3, <1>4

(* How often a bit is used is odd if and only if an odd number of its keys  *)
(* is down; by a least counterexample.                                      *)
LEMMA ParityAgrees ==
  ASSUME NEW c, NEW n \in Nat, \A j \in 1 .. n : c[j] \in DOMAIN KeycodeMod, NEW b
  PROVE  IsFiniteSet(HeldBit(c, n, b)) /\ (Odd(Uses(c, n, b)) <=> Odd(HeldBit(c, n, b)))
  <1> DEFINE agree(m) == IsFiniteSet(HeldBit(c, m, b)) /\ (Odd(Uses(c, m, b)) <=> Odd(HeldBit(c, m, b)))
             Wrong == {m \in 0 .. n : ~agree(m)}
             least == CHOOSE m \in Wrong : \A k \in Wrong : m <= k
  <1> SUFFICES ASSUME Wrong # {} PROVE FALSE
    OBVIOUS
  <1>1. least \in Wrong /\ \A k \in Wrong : least <= k
    <2> HIDE DEF agree
    <2>1. Wrong \in SUBSET Nat
      OBVIOUS
    <2> HIDE DEF Wrong
    <2> QED
      BY <2>1, Earliest
  <1>2. least \in 0 .. n /\ ~agree(least)
    BY <1>1
  <1>3. CASE least = 0
    <2>1. Uses(c, 0, b) = {}
      BY DEF Uses
    <2>2. ~Odd({})
      BY FS_EmptySet DEF Odd
    <2>3. HeldBit(c, 0, b) = {}
      <3>1. \A k : {j \in 1 .. 0 : c[j] = k} = {}
        OBVIOUS
      <3> QED
        BY <2>2, <3>1 DEF HeldBit, HeldKeys
    <2>4. agree(0)
      BY <2>1, <2>3, FS_EmptySet
    <2> HIDE DEF agree
    <2> QED
      BY <1>2, <1>3, <2>4
  <1>4. CASE least # 0
    <2> DEFINE m == least - 1
               k == c[m + 1]
    <2>1. m \in 0 .. n /\ m \in Nat /\ least = m + 1 /\ m + 1 \in 1 .. n /\ ~(m + 1 <= m)
      BY <1>2, <1>4
    <2>2. agree(m)
      <3> HIDE DEF agree
      <3> QED
        BY <1>1, <2>1
    <2>3. k \in DOMAIN KeycodeMod
      BY <2>1
    <2> HIDE DEF m
    <2>4. 1 .. m + 1 = (1 .. m) \cup {m + 1} /\ m + 1 \notin 1 .. m
      BY <2>1
    <2>5. HeldKeys(c, m + 1) = IF k \in HeldKeys(c, m) THEN HeldKeys(c, m) \ {k}
                                                       ELSE HeldKeys(c, m) \cup {k}
      BY <2>1, <2>3, HeldToggles
    <2>6. CASE KeycodeMod[k] # b
      <3>1. Uses(c, m + 1, b) = Uses(c, m, b)
        BY <2>4, <2>6 DEF Uses
      <3>2. HeldBit(c, m + 1, b) = HeldBit(c, m, b)
        BY <2>5, <2>6 DEF HeldBit
      <3> QED
        BY <1>2, <2>1, <2>2, <3>1, <3>2
    <2>7. CASE KeycodeMod[k] = b
      <3>1. Uses(c, m + 1, b) = Uses(c, m, b) \cup {m + 1} /\ m + 1 \notin Uses(c, m, b)
        BY <2>4, <2>7 DEF Uses
      <3>2. IsFiniteSet(Uses(c, m, b))
        <4>1. Uses(c, m, b) \subseteq 1 .. m /\ IsFiniteSet(1 .. m)
          BY <2>1, FS_Interval DEF Uses
        <4> QED
          BY <4>1, FS_Subset
      <3>3. Odd(Uses(c, m + 1, b)) <=> ~Odd(Uses(c, m, b))
        BY <3>1, <3>2, OddMore
      <3>4. /\ IsFiniteSet(HeldBit(c, m + 1, b))
            /\ Odd(HeldBit(c, m + 1, b)) <=> ~Odd(HeldBit(c, m, b))
        <4>1. CASE k \in HeldKeys(c, m)
          <5>1. HeldBit(c, m + 1, b) = HeldBit(c, m, b) \ {k} /\ k \in HeldBit(c, m, b)
            BY <2>5, <2>7, <4>1 DEF HeldBit
          <5> QED
            BY <2>2, <5>1, OddLess
        <4>2. CASE k \notin HeldKeys(c, m)
          <5>1. HeldBit(c, m + 1, b) = HeldBit(c, m, b) \cup {k} /\ k \notin HeldBit(c, m, b)
            BY <2>5, <2>7, <4>2 DEF HeldBit
          <5> QED
            BY <2>2, <5>1, OddMore
        <4> QED
          BY <4>1, <4>2
      <3> QED
        BY <1>2, <2>1, <2>2, <3>3, <3>4
    <2> QED
      BY <2>6, <2>7
  <1> QED
    BY <1>3, <1>4

(* No two keys that are down when the first plain key comes share a bit.  A *)
(* keyboard may well have two keys of a modifier, and a sequence use both,  *)
(* one after the other.                                                     *)
NoneShare(c) ==
  \A k1, k2 \in HeldKeys(c, FirstPlain(c) - 1) : KeycodeMod[k1] = KeycodeMod[k2] => k1 = k2

(* Then combining bits by exclusive or finds the modifiers that are down.   *)
LEMMA ParityIsHeld ==
  ASSUME NEW c \in Seq(Codes), Plain(c) # {}, NoneShare(c)
  PROVE  Beginning(c) = {<<c[FirstPlain(c)], HeldBefore(c, FirstPlain(c))>>}
  <1> DEFINE n == FirstPlain(c) - 1
  <1>1. n \in Nat /\ \A j \in 1 .. n : c[j] \in DOMAIN KeycodeMod
    BY FirstPlainIsFirst DEF Plain
  <1>2. Beginning(c) = {<<c[FirstPlain(c)], {b \in Bits : Odd(Uses(c, n, b))}>>}
    BY DEF Beginning, Uses
  <1>3. HeldBefore(c, FirstPlain(c)) = {KeycodeMod[k] : k \in HeldKeys(c, n)}
    BY DEF HeldBefore, HeldKeys
  <1>4. \A k1, k2 \in HeldKeys(c, n) : KeycodeMod[k1] = KeycodeMod[k2] => k1 = k2
    BY DEF NoneShare
  <1> HIDE DEF n
  <1>5. ASSUME NEW b PROVE Odd(Uses(c, n, b)) <=> \E k \in HeldKeys(c, n) : KeycodeMod[k] = b
    <2>1. Odd(Uses(c, n, b)) <=> Odd(HeldBit(c, n, b))
      BY <1>1, ParityAgrees
    <2>2. CASE \E k \in HeldKeys(c, n) : KeycodeMod[k] = b
      <3>1. PICK k \in HeldKeys(c, n) : KeycodeMod[k] = b
        BY <2>2
      <3>2. HeldBit(c, n, b) = {k}
        BY <1>4, <3>1 DEF HeldBit
      <3>3. Odd({k})
        <4>1. Cardinality({k}) = 1
          BY FS_Singleton
        <4> QED
          BY <4>1 DEF Odd
      <3> QED
        BY <2>1, <2>2, <3>2, <3>3
    <2>3. CASE ~\E k \in HeldKeys(c, n) : KeycodeMod[k] = b
      <3>1. HeldBit(c, n, b) = {}
        BY <2>3 DEF HeldBit
      <3>2. ~Odd({})
        BY FS_EmptySet DEF Odd
      <3> QED
        BY <2>1, <2>3, <3>1, <3>2
    <2> QED
      BY <2>2, <2>3
  <1>6. \A k \in HeldKeys(c, n) : KeycodeMod[k] \in Bits
    BY DEF HeldKeys, Bits
  <1>7. {b \in Bits : Odd(Uses(c, n, b))} = {KeycodeMod[k] : k \in HeldKeys(c, n)}
    BY <1>5, <1>6
  <1> QED
    BY <1>2, <1>3, <1>7

(* The sequences that are known are lines' and, with those exceptions,      *)
(* grabbed where the user comes to their first plain key.                   *)
FromLines == \A q \in DOMAIN map : \E l \in Lines : HasCodes(l.seq) /\ q = CodesOf(l.seq)

CoverUnshared ==
  \A q \in DOMAIN map : Plain(q) # {} /\ NoneShare(q) =>
    <<q[FirstPlain(q)], HeldBefore(q, FirstPlain(q))>> \in grabkeys

LEMMA CoverStep ==
  TypeOK /\ FromLines /\ CoverUnshared /\ [Next]_vars => FromLines' /\ CoverUnshared'
  <1> SUFFICES ASSUME TypeOK, FromLines, CoverUnshared, [Next]_vars
               PROVE  FromLines' /\ CoverUnshared'
    OBVIOUS
  <1>1. CASE UNCHANGED <<grabkeys, map>>
    BY <1>1 DEF FromLines, CoverUnshared
  <1>2. ASSUME NEW l \in Lines, NEW c \in Seq(Codes), HasCodes(l.seq), c = CodesOf(l.seq),
               grabkeys' = grabkeys \cup Beginning(c),
               map' = map \/ map' = Insert(map, c, lineind')
        PROVE  FromLines' /\ CoverUnshared'
    <2>1. \A q \in DOMAIN map' : q \in DOMAIN map \/ q = c
      BY <1>2 DEF Insert
    <2>2. FromLines'
      BY <1>2, <2>1 DEF FromLines
    <2>3. ASSUME NEW q \in DOMAIN map', Plain(q) # {}, NoneShare(q)
          PROVE  <<q[FirstPlain(q)], HeldBefore(q, FirstPlain(q))>> \in grabkeys'
      <3>1. CASE q \in DOMAIN map
        BY <1>2, <2>3, <3>1 DEF CoverUnshared
      <3>2. CASE q = c
        BY <1>2, <2>3, <3>2, ParityIsHeld
      <3> QED
        BY <2>1, <3>1, <3>2
    <2> QED
      BY <2>2, <2>3 DEF CoverUnshared
  <1>3. CASE ReadLine
    <2>1. lineind' = lineind + 1 /\ lineind' \in 1 .. Len(file)
      BY <1>3 DEF ReadLine, TypeOK
    <2>2. CASE Parsed[file[lineind']] # Unparsed /\ Add(Parsed[file[lineind']])
      <3>1. Parsed[file[lineind']] \in Lines
        <4>1. file[lineind'] \in DOMAIN Parsed
          BY <2>1, MappingAssumption DEF TypeOK
        <4> QED
          BY <2>2, <4>1 DEF Lines
      <3> QED
        BY <1>1, <1>2, <2>1, <2>2, <3>1, AddEffect
    <2> QED
      BY <1>1, <1>3, <2>2 DEF ReadLine
  <1> QED
    BY <1>1, <1>3 DEF Next, vars

(* Every sequence of every configuration for which no two keys of one       *)
(* modifier are down at once is grabbed where the user comes to its first   *)
(* plain key, whatever else the configuration says and however the          *)
(* modifiers are spread over the keyboard (beginning, MapBuilder::add).     *)
THEOREM EachCovered == Spec => []CoverUnshared
  <1>1. Init => FromLines /\ CoverUnshared
    BY DEF Init, FromLines, CoverUnshared
  <1> QED
    BY <1>1, CoverStep, MappingTypeCorrect, PTL DEF Spec

(* So all are, if none of the lines has two keys of one modifier down at    *)
(* once before its first plain key.  BothCtrls of MCMapping shows that this *)
(* is needed.                                                               *)
THEOREM Covered ==
  ASSUME \A l \in Lines : HasCodes(l.seq) /\ Plain(CodesOf(l.seq)) # {} => NoneShare(CodesOf(l.seq))
  PROVE  Spec => []GrabsCover
  <1>1. Init => FromLines /\ CoverUnshared
    BY DEF Init, FromLines, CoverUnshared
  <1>2. FromLines /\ CoverUnshared => GrabsCover
    BY DEF FromLines, CoverUnshared, GrabsCover
  <1> QED
    BY <1>1, <1>2, CoverStep, MappingTypeCorrect, PTL DEF Spec

-----------------------------------------------------------------------------
(* Every symbol of the keyboard has a name, and so has every symbol that a  *)
(* name in an action stands for: then what get_keysym remembers of a name   *)
(* it refused makes no difference.                                          *)
Named ==
  /\ Nameless \cap DOMAIN SymCode = {}
  /\ \A l \in Lines : \A i \in DOMAIN l.keys : NameSym[l.keys[i]] \notin Nameless

(* The lengths SmoVec::new has a form for, as the user sees them. *)
LEMMA PacksEven ==
  ASSUME NEW n \in Nat
  PROVE  (n \in {2, 4, 6, 8} \/ n > 8) <=> (n > 8 \/ (n > 0 /\ n % 2 = 0))
  <1>1. CASE n > 8
    BY <1>1
  <1>2. CASE ~(n > 8)
    <2>1. n \in {0, 1, 2, 3, 4, 5, 6, 7, 8}
      BY <1>2
    <2> QED
      BY <1>2, <2>1
  <1> QED
    BY <1>1, <1>2

(* A line is added exactly if it is usable by itself. *)
LEMMA AddedUsable ==
  ASSUME Named, NEW l \in Lines, Add(l)
  PROVE  /\ Usable(l) => map' = Insert(map, CodesOf(l.seq), lineind')
         /\ ~Usable(l) => map' = map
  <1> DEFINE known == Learnt(l.seq, nameSym)
             ok(n) == NameSym[n] \notin {NoSym} \cup Nameless
  <1>1. l.seq \in Seq(Names) /\ l.keys \in Seq(Names)
    BY MappingAssumption DEF Line
  <1>2. Packs(CodesOf(l.seq)) <=> Len(l.seq) > 8 \/ (Len(l.seq) > 0 /\ Len(l.seq) % 2 = 0)
    <2>1. Len(CodesOf(l.seq)) = Len(l.seq) /\ Len(l.seq) \in Nat
      BY <1>1 DEF CodesOf
    <2> QED
      BY <2>1, PacksEven DEF Packs
  <1>3. ASSUME NEW ns, NEW k, \A i \in DOMAIN ns : ok(ns[i])
        PROVE  Refused(ns, k) = {}
    BY <1>3 DEF Refused, Recognised, HasName
  <1>4. ASSUME NEW ns, NEW k, Refused(ns, k) = {}
        PROVE  \A i \in DOMAIN ns : NameSym[ns[i]] # NoSym
    BY <1>4 DEF Refused, Recognised
  <1>5. Usable(l) <=> /\ Len(l.seq) <= MaxSeq /\ HasCodes(l.seq) /\ Packs(CodesOf(l.seq))
                      /\ \A i \in DOMAIN l.seq : ok(l.seq[i])
                      /\ \A i \in DOMAIN l.keys : ok(l.keys[i])
    BY <1>2 DEF Usable
  <1>6. CASE Usable(l)
    <2>1. Refused(l.seq, nameSym) = {} /\ Refused(l.keys, known) = {}
      BY <1>3, <1>5, <1>6
    <2>2. ~(Len(l.seq) > MaxSeq)
      <3>1. Len(l.seq) \in Nat /\ MaxSeq \in Nat
        BY <1>1, MappingAssumption
      <3> QED
        BY <1>5, <1>6, <3>1
    <2>3. map' = Insert(map, CodesOf(l.seq), lineind')
      BY <1>5, <1>6, <2>1, <2>2 DEF Add
    <2> QED
      BY <1>6, <2>3
  <1>7. CASE ~Usable(l)
    <2>1. ASSUME Len(l.seq) <= MaxSeq, HasCodes(l.seq), Packs(CodesOf(l.seq)),
                 Refused(l.seq, nameSym) = {}, Refused(l.keys, known) = {}
          PROVE  FALSE
      <3>1. \A i \in DOMAIN l.seq : ok(l.seq[i])
        BY <1>4, <2>1 DEF Named, HasCodes
      <3>2. \A i \in DOMAIN l.keys : ok(l.keys[i])
        BY <1>4, <2>1 DEF Named
      <3> QED
        BY <1>5, <1>7, <2>1, <3>1, <3>2
    <2> QED
      BY <1>7, <2>1 DEF Add
  <1> QED
    BY <1>6, <1>7

(* The lines of use, and what they spell. *)
Use(i)       == Parsed[file[i]] # Unparsed /\ Usable(Parsed[file[i]])
Spells(i, q) == Use(i) /\ CodesOf(Parsed[file[i]].seq) = q

Last ==
  /\ \A i \in 1 .. lineind : Use(i) => CodesOf(Parsed[file[i]].seq) \in DOMAIN map
  /\ \A q \in DOMAIN map :
       Spells(map[q], q) /\ \A i \in map[q] + 1 .. lineind : ~Spells(i, q)

LEMMA LastStep ==
  ASSUME Named, TypeOK, Last, ReadLine
  PROVE  Last'
  <1> DEFINE n == lineind + 1
             c == CodesOf(Parsed[file[n]].seq)
  <1>1. /\ file' = file /\ lineind' = n /\ n \in 1 .. Len(file) /\ lineind \in Nat
        /\ \A i \in 1 .. n : i \in 1 .. lineind \/ i = n
        /\ \A q \in DOMAIN map : map[q] \in 1 .. lineind
    BY MappingAssumption DEF ReadLine, TypeOK
  <1>2. /\ Use(n) => map' = Insert(map, c, n)
        /\ ~Use(n) => map' = map
    <2>1. CASE Parsed[file[n]] = Unparsed
      BY <1>1, <2>1 DEF ReadLine, Use
    <2>2. CASE Parsed[file[n]] # Unparsed
      <3>1. Parsed[file[n]] \in Lines
        <4>1. file[n] \in DOMAIN Parsed
          BY <1>1, MappingAssumption DEF TypeOK
        <4> QED
          BY <2>2, <4>1 DEF Lines
      <3>2. Add(Parsed[file[n]])
        BY <1>1, <2>2 DEF ReadLine
      <3> QED
        BY <1>1, <2>2, <3>1, <3>2, AddedUsable DEF Use
    <2> QED
      BY <2>1, <2>2
  <1>3. \A i, q : (Use(i)' <=> Use(i)) /\ (Spells(i, q)' <=> Spells(i, q))
    BY <1>1 DEF Use, Spells
  <1>4. ASSUME NEW i \in 1 .. n, Use(i)
        PROVE  CodesOf(Parsed[file[i]].seq) \in DOMAIN map'
    <2>1. CASE i = n
      BY <1>2, <1>4, <2>1 DEF Insert
    <2>2. CASE i \in 1 .. lineind
      BY <1>2, <1>4, <2>2 DEF Last, Insert
    <2> QED
      BY <1>1, <2>1, <2>2
  <1>5. ASSUME NEW q \in DOMAIN map'
        PROVE  Spells(map'[q], q) /\ \A i \in map'[q] + 1 .. n : ~Spells(i, q)
    <2>1. CASE Use(n) /\ q = c
      <3>1. map'[q] = n
        BY <1>2, <2>1 DEF Insert
      <3> QED
        BY <1>1, <2>1, <3>1 DEF Spells
    <2>2. CASE ~(Use(n) /\ q = c)
      <3>1. q \in DOMAIN map /\ map'[q] = map[q] /\ ~Spells(n, q)
        BY <1>2, <1>5, <2>2 DEF Insert, Spells
      <3>2. \A i \in map[q] + 1 .. n : i \in map[q] + 1 .. lineind \/ i = n
        BY <1>1, <3>1
      <3> QED
        BY <3>1, <3>2 DEF Last
    <2> QED
      BY <2>1, <2>2
  <1> QED
    BY <1>1, <1>3, <1>4, <1>5 DEF Last

(* Where the symbols of keys and actions have names, whatever else is wrong *)
(* with lines of a configuration, each sequence has the actions of the last *)
(* usable line that spells it, and each usable line's sequence is known     *)
(* (load_mapping, MapBuilder::add).                                         *)
THEOREM LastWinsThm == ASSUME Named PROVE Spec => []LastWins
  <1>1. Init => Last
    BY MappingAssumption DEF Init, Last
  <1>2. TypeOK /\ Last /\ [Next]_vars => Last'
    <2> SUFFICES ASSUME TypeOK, Last, [Next]_vars PROVE Last'
      OBVIOUS
    <2>1. CASE UNCHANGED vars
      BY <2>1 DEF vars, Last, Use, Spells
    <2> QED
      BY <2>1, LastStep DEF Next
  <1>3. Last => LastWins
    BY DEF Last, LastWins, Use, Spells
  <1> QED
    BY <1>1, <1>2, <1>3, MappingTypeCorrect, PTL DEF Spec
=============================================================================
