------------------------------ MODULE Mapping ------------------------------
(***************************************************************************)
(* MapBuilder and load_mapping of src/conf/mod.rs: the configuration is    *)
(* read line by line into the keys to grab and the sequences to recognise. *)
(* A line that cannot be used is left out, at one of several places.       *)
(*                                                                         *)
(* Names, symbols and keycodes are opaque; a mask of modifiers is the set  *)
(* of its bits.  A line is a text; what the parser makes of it is a        *)
(* constant: the names of a sequence, and those of the keys in its actions.*)
(***************************************************************************)
EXTENDS Keysym, Integers, Sequences, FiniteSets

CONSTANTS
  NameSym,    \* the symbol a name stands for (NoSym: none)
  Nameless,   \* the symbols XKeysymToString has no name for
  SymCode,    \* MapBuilder::sym_to_code, the keycodes of symbols
  KeycodeMod, \* MapBuilder::keycode_mod, the modifier bits of keycodes
  Parsed,     \* what each line of text says
  Unparsed,   \* that it is empty, a comment, or cannot be parsed
  Files,      \* the configurations, sequences of lines
  MaxSeq      \* the longest sequence (16 in the code)

Names == DOMAIN NameSym
Codes == {SymCode[y] : y \in DOMAIN SymCode} \cup DOMAIN KeycodeMod
Bits  == {KeycodeMod[k] : k \in DOMAIN KeycodeMod}
Line  == [seq: Seq(Names), keys: Seq(Names)]
Lines == {Parsed[t] : t \in DOMAIN Parsed} \ {Unparsed}

ASSUME MappingAssumption ==
  /\ Lines \subseteq Line
  /\ Files \subseteq Seq(DOMAIN Parsed)
  /\ MaxSeq \in Nat

VARIABLES
  file,     \* the lines of the configuration file
  lineind,  \* how many of them have been read
  nameSym,  \* the names in TransKeyName::name_sym
  grabkeys, \* MapBuilder::grabkeys
  map       \* MapBuilder::map: the sequences, and the line each is from

vars == <<file, lineind, nameSym, grabkeys, map>>

TypeOK ==
  /\ file \in Files
  /\ lineind \in 0 .. Len(file)
  /\ nameSym \subseteq Names
  /\ grabkeys \subseteq (Codes \X SUBSET Bits)
  /\ DOMAIN map \subseteq Seq(Codes)
  /\ \A q \in DOMAIN map : map[q] \in 1 .. lineind

Init ==
  /\ file \in Files
  /\ lineind = 0 /\ nameSym = {} /\ grabkeys = {} /\ map = <<>>

-----------------------------------------------------------------------------
(* TransKeyName::get_keysym *)

\* keysym_to_string
HasName(y) == y \notin Nameless

\* A name that is known already has its symbol; one that is new becomes known
\* and is refused all the same if its symbol has no name.
Recognised(n, known) == NameSym[n] # NoSym /\ (n \in known \/ HasName(NameSym[n]))

\* Names one after the other, each known from then on.
KnownBefore(ns, i, known) == known \cup {ns[j] : j \in 1 .. i - 1}

Refused(ns, known) ==
  {i \in DOMAIN ns : ~Recognised(ns[i], KnownBefore(ns, i, known))}

Learnt(ns, known) == known \cup {n \in {ns[i] : i \in DOMAIN ns} : NameSym[n] # NoSym}

\* conv_seq goes on after a name that is refused, trans_key does not.
UpTo(ns, known) ==
  IF Refused(ns, known) = {} THEN ns
  ELSE SubSeq(ns, 1, CHOOSE i \in Refused(ns, known) :
                       \A j \in Refused(ns, known) : i <= j)

-----------------------------------------------------------------------------
(* MapBuilder::add *)

\* The keycodes of a sequence of names.
CodesOf(ns) == [i \in DOMAIN ns |-> SymCode[NameSym[ns[i]]]]
HasCodes(ns) == \A i \in DOMAIN ns : NameSym[ns[i]] \in DOMAIN SymCode

Plain(c) == {i \in DOMAIN c : c[i] \notin DOMAIN KeycodeMod}
FirstPlain(c) == CHOOSE i \in Plain(c) : \A j \in Plain(c) : i <= j
Odd(S) == Cardinality(S) % 2 = 1

\* Mutant: a modifier that was let go of still counts.
BeginningOr(c) ==
  IF Plain(c) = {} THEN {}
  ELSE {<<c[FirstPlain(c)], {KeycodeMod[c[j]] : j \in 1 .. FirstPlain(c) - 1}>>}

\* Mutant: a sequence of modifiers alone has keycode 0 grabbed.
BeginningZero(c) ==
  IF Plain(c) = {} THEN {<<0, {}>>}
  ELSE LET f == FirstPlain(c)
       IN {<<c[f], {b \in Bits : Odd({j \in 1 .. f - 1 : KeycodeMod[c[j]] = b})}>>}

\* beginning: the first key that is no modifier, and the exclusive or of the
\* bits of the keys before it.
Beginning(c) ==
  IF Plain(c) = {} THEN {}
  ELSE LET f == FirstPlain(c)
       IN {<<c[f], {b \in Bits : Odd({j \in 1 .. f - 1 : KeycodeMod[c[j]] = b})}>>}

\* SmoVec::new has no form for these lengths.
Packs(c) == Len(c) \in {2, 4, 6, 8} \/ Len(c) > 8

\* Mutant: the first line of a sequence stays.
InsertFirst(m, c, i) ==
  [q \in DOMAIN m \cup {c} |-> IF q \in DOMAIN m THEN m[q] ELSE i]

\* HashMap::remove and insert
Insert(m, c, i) == [q \in DOMAIN m \cup {c} |-> IF q = c THEN i ELSE m[q]]

\* Everything that may be wrong with the sequence is found before its key is
\* grabbed, and what may be wrong with the actions, or the length, after.
Add(l) ==
  LET known == Learnt(l.seq, nameSym)
      codes == CodesOf(l.seq)
  IN \/ /\ Len(l.seq) > MaxSeq
        /\ UNCHANGED <<nameSym, grabkeys, map>>
     \/ /\ Len(l.seq) <= MaxSeq
        /\ Refused(l.seq, nameSym) # {} \/ ~HasCodes(l.seq)
        /\ nameSym' = known
        /\ UNCHANGED <<grabkeys, map>>
     \/ /\ Len(l.seq) <= MaxSeq /\ Refused(l.seq, nameSym) = {} /\ HasCodes(l.seq)
        /\ grabkeys' = grabkeys \cup Beginning(codes)
        /\ nameSym' = Learnt(UpTo(l.keys, known), known)
        /\ map' = IF Refused(l.keys, known) = {} /\ Packs(codes)
                    THEN Insert(map, codes, lineind') ELSE map

\* One turn of load_mapping's loop.
ReadLine ==
  /\ lineind < Len(file) /\ lineind' = lineind + 1
  /\ LET l == Parsed[file[lineind']]
     IN \/ l = Unparsed /\ UNCHANGED <<nameSym, grabkeys, map>>
        \/ l # Unparsed /\ Add(l)
  /\ UNCHANGED file

Next == ReadLine

Spec == Init /\ [][Next]_vars

-----------------------------------------------------------------------------
(* Properties. *)

\* The modifiers whose keys are down before a place of a sequence, in which
\* every key goes down where it occurs first, up for the second time, and so on.
HeldBefore(c, f) ==
  {KeycodeMod[k] : k \in {k \in DOMAIN KeycodeMod : Odd({j \in 1 .. f - 1 : c[j] = k})}}

\* The first key that is no modifier is grabbed under the modifiers that are
\* down when a user comes to it, or the applications get it and the sequence
\* is never recognised (lib.rs:107).
GrabsCover ==
  \A q \in DOMAIN map : Plain(q) # {} =>
    <<q[FirstPlain(q)], HeldBefore(q, FirstPlain(q))>> \in grabkeys

\* Whether a line is of use says nothing of the other lines.
Usable(l) ==
  /\ Len(l.seq) <= MaxSeq
  /\ \A n \in {l.seq[i] : i \in DOMAIN l.seq} \cup {l.keys[i] : i \in DOMAIN l.keys} :
       NameSym[n] \notin {NoSym} \cup Nameless
  /\ HasCodes(l.seq)
  /\ Len(l.seq) > 8 \/ (Len(l.seq) > 0 /\ Len(l.seq) % 2 = 0)

\* A sequence has the actions of the last usable line that spells it: keys
\* may be written in more than one way ("ignoring cases", configuration.md:47),
\* and what is wrong with one line does no harm to another.
LastWins ==
  LET line(i)      == Parsed[file[i]]
      usable(i)    == line(i) # Unparsed /\ Usable(line(i))
      spells(i, q) == usable(i) /\ CodesOf(line(i).seq) = q
  IN /\ \A i \in 1 .. lineind : usable(i) => CodesOf(line(i).seq) \in DOMAIN map
     /\ \A q \in DOMAIN map :
          spells(map[q], q) /\ \A i \in map[q] + 1 .. lineind : ~spells(i, q)
=============================================================================
