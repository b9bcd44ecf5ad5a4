------------------------------- MODULE Config -------------------------------
(***************************************************************************)
(* The configuration from its text to MapBuilder: each line is read by the *)
(* parser, the names in it are those get_keysym knows, and what it says is *)
(* kept by Mapping.  Write is the reference: a user writes a line as       *)
(* configuration.md describes, in one of several styles.                   *)
(***************************************************************************)
EXTENDS Mapping, Parser

CONSTANTS
  Lower,    \* to_ascii_lowercase, of words
  Alnum,    \* the words that are one ASCII letter or digit
  XKeysym,  \* XStringToKeysym, of words
  Texts,    \* the lines of text a configuration may have, in a sequence
  Meant     \* what the user meant by each of them (Unparsed: nothing)

-----------------------------------------------------------------------------
(* TransKeyName::get_keysym, but for what it remembers.  A name is a       *)
(* sequence of words; all that are known are of one.                       *)

StringToKeysym(w) == IF w \in DOMAIN XKeysym THEN XKeysym[w] ELSE NoSym

GetKeysym(n) ==
  IF Len(n) # 1 THEN NoSym
  ELSE IF n[1] \in Alnum THEN Lower[n[1]]
  ELSE IF StringToKeysym(n[1]) # NoSym THEN StringToKeysym(n[1])
  ELSE IF Lower[n[1]] \in DOMAIN ALIAS_KEYSYM THEN ALIAS_KEYSYM[Lower[n[1]]]
  ELSE NoSym

\* The names of keys in the actions of a line.
KeysOf(acts) ==
  FoldLeft(LAMBDA ks, a : IF a.kind = "keys" THEN ks \o a.arg ELSE ks, <<>>, acts)

\* What the parser makes of each line (\o has TLC work it out but once), and
\* what load_mapping hands to add.
AllRead == LET texts == Texts IN <<>> \o [i \in DOMAIN texts |-> AssignmentLine(texts[i])]

ToAdd(r) ==
  IF r.ok THEN [seq |-> r.val.seq, keys |-> KeysOf(r.val.acts)] ELSE Unparsed

NamesIn(lines) ==
  UNION {ToSet(l.seq) \cup ToSet(l.keys) : l \in lines \ {Unparsed}}

-----------------------------------------------------------------------------
(* Writing.  A style says whether arrows stand between keys, arguments are *)
(* in quotes, blanks are put where none is needed, and a comment follows.  *)

Style == [arrows: BOOLEAN, quotes: BOOLEAN, wide: BOOLEAN, comment: BOOLEAN]

\* Tokens that are written apart, with a separator between them.
Apart(parts, sep) ==
  IF parts = <<>> THEN <<>>
  ELSE FlattenSeq(<<Head(parts)>> \o [i \in 1 .. Len(parts) - 1 |-> sep \o parts[i + 1]])

Space(st) == IF st.wide THEN <<" ", "tab">> ELSE <<>>

Special == {c \in DOMAIN Escape : c \in {Quote, Back}}

InQuotes(arg) ==
  <<Quote>> \o FlattenSeq([i \in DOMAIN arg |->
                 IF arg[i] \in Special THEN <<Back, arg[i]>> ELSE <<arg[i]>>]) \o <<Quote>>

\* Quotes are needed for the signs that mean something else, and at the edges
\* for blanks.
NeedsQuotes(arg, signs) ==
  \/ arg = <<>> \/ ToSet(arg) \cap (signs \cup {Quote, Back, ","}) # {}
  \/ arg[1] \in Blank \/ arg[Len(arg)] \in Blank

WriteArg(arg, signs, st) == IF st.quotes \/ NeedsQuotes(arg, signs) THEN InQuotes(arg) ELSE arg

WriteAct(a, st) ==
  CASE a.kind = "text" -> <<"text", " ">> \o WriteArg(a.arg, {"#"}, st)
    [] a.kind = "keys" -> <<"key", " ">> \o Apart(a.arg, Space(st) \o <<"+">> \o Space(st))
    [] a.kind = "exec" ->
         <<"exec", " ">> \o Apart([i \in DOMAIN a.arg |-> WriteArg(a.arg[i], Blank, st)], <<" ">>)
    [] OTHER -> <<a.kind, " ", CHOOSE w \in DOMAIN Number : Number[w] = a.arg>>

\* The first time a key is named it goes down, the second time it goes up.
WriteSeq(q, st) ==
  LET arrow(i) == IF Odd({j \in 1 .. i : q[j] = q[i]}) THEN "down" ELSE "up"
      sep(i)   == IF st.arrows THEN Space(st) \o <<arrow(i)>> \o Space(st) ELSE <<" ">>
  IN FlattenSeq([i \in DOMAIN q |-> q[i] \o sep(i)])

Write(l, st) ==
  Space(st) \o WriteSeq(l.seq, st) \o <<"=">> \o Space(st)
    \o Apart([i \in DOMAIN l.acts |-> WriteAct(l.acts[i], st)], Space(st) \o <<",">> \o Space(st))
    \o (IF st.comment THEN <<" ", "#", " ", "text", ",", Quote>> ELSE <<>>)

-----------------------------------------------------------------------------
(* Properties. *)

\* A line is read as it was written, in whatever style, up to its comment, or
\* not at all if it was garbled; and each sequence kept is one the user wrote,
\* by the symbols its names stand for (configuration.md:9, 50-76).
AsWritten ==
  /\ \A i \in 1 .. lineind :
       LET r == AllRead[file[i]]
       IN Meant[file[i]] = IF r.ok THEN r.val ELSE Unparsed
  /\ \A q \in DOMAIN map :
       LET m == Meant[file[map[q]]]
       IN m # Unparsed /\ q = [i \in DOMAIN m.seq |-> SymCode[GetKeysym(m.seq[i])]]
=============================================================================
