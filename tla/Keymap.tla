------------------------------- MODULE Keymap -------------------------------
(***************************************************************************)
(* SymsOfCodes and ModifierCodes of src/xdl/mod.rs: what kseqi makes of    *)
(* the server's keyboard map and of its modifier map.                      *)
(*                                                                         *)
(* A keyboard map is a function from keycodes to rows, the symbols of the  *)
(* levels, NoSym where there is none; all rows are of one length.  A       *)
(* modifier map is a sequence of eight groups of the same length, one      *)
(* after the other, each keycodes first and then zeros.                    *)
(***************************************************************************)
EXTENDS Keysym, Integers, Sequences, FiniteSets, SequencesExt

CONSTANTS
  Unicode,  \* the symbols above 0x1000000, made from characters
  MaxSpare, \* how many spare keycodes are used at most (5 in the code)
  Fallback  \* the keycode used when every other is taken (252 in the code)

ASSUME KeymapAssumption == MaxSpare \in Nat \ {0}

-----------------------------------------------------------------------------
(* SymsOfCodes *)

\* iter: the levels of a row up to the first without a symbol.
Levels(row) == {i \in DOMAIN row : \A j \in 1 .. i : row[j] # NoSym}

InUse(m) == {k \in DOMAIN m : Levels(m[k]) # {}}

\* What sequences are written with: first levels, the lowest keycode of each.
SymKeyMap(m) ==
  [s \in {m[k][1] : k \in InUse(m)} |-> Min({k \in InUse(m) : m[k][1] = s})]

\* What is typed: the first two levels, the lowest keycode of each, and
\* without Shift if both are the same.
SymKeyCode(m) ==
  LET syms(k) == {m[k][i] : i \in Levels(m[k]) \cap {1, 2}}
  IN [s \in UNION {syms(k) : k \in DOMAIN m} |->
        LET k == Min({j \in DOMAIN m : s \in syms(j)})
        IN [code |-> k, shift |-> m[k][1] # s]]

\* Codes not in use, from the highest down.
Descending(S) ==
  CHOOSE q \in [1 .. Cardinality(S) -> S] : \A i, j \in DOMAIN q : i < j => q[j] < q[i]

Unassigned(m) == Descending(DOMAIN m \ InUse(m))

FallbackUnuse(m) ==
  LET found == {k \in DOMAIN m : k \notin InUse(m) \/ m[k][1] \in Unicode}
  IN IF found = {} THEN Fallback ELSE Max(found)

\* Mutant: the fallback is always among the spare keycodes.
SparesGreedy(m) ==
  LET u == Unassigned(m)
  IN SubSeq(u, 1, Min({MaxSpare, Len(u)})) \o <<FallbackUnuse([k \in InUse(m) |-> m[k]])>>

\* The keycodes of SymCode::mut_syms.
Spares(m) ==
  LET u == Unassigned(m)
  IN IF u = <<>> THEN <<FallbackUnuse(m)>> ELSE SubSeq(u, 1, Min({MaxSpare, Len(u)}))

-----------------------------------------------------------------------------
(* ModifierCodes *)

PerMod(mm) == Len(mm) \div 8

\* The keycodes from one place on, before the first zero and n at the most.
Leading(mm, beg, n) ==
  LET at == {i \in beg + 1 .. Min({beg + n, Len(mm)}) : \A j \in beg + 1 .. i : mm[j] # 0}
  IN {mm[i] : i \in at}

\* index
Group(mm, i) == Leading(mm, PerMod(mm) * i, PerMod(mm))

Shift(mm) == mm[1]

\* Mutant: the last group is left out.
ModifiersShort(mm) == UNION {Leading(mm, PerMod(mm) * i, 8) : i \in 0 .. 6}

\* iter looks at eight keycodes of each group, however many it has: with less
\* than eight it may go on into the next group.
Modifiers(mm) == UNION {Leading(mm, PerMod(mm) * i, 8) : i \in 0 .. 7}

\* code_map: the bit of the last group a keycode is in.
CodeMap(mm) ==
  [k \in UNION {Group(mm, i) : i \in 0 .. 7} |-> 2 ^ Max({i \in 0 .. 7 : k \in Group(mm, i)})]
=============================================================================
