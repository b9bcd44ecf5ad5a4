------------------------------- MODULE Parser -------------------------------
(***************************************************************************)
(* src/conf/parse.rs: what assignment_line makes of a line of the          *)
(* configuration.  The line is a sequence of tokens: each sign is one, a   *)
(* run of digits is one, and so is a word, or a part of a word: parts next *)
(* to each other are one name, and a word that begins with the tag of an   *)
(* action is the tag and the rest.                                         *)
(*                                                                         *)
(* A parser is an operator on the text that is left; it fails, or answers  *)
(* with a value and what it leaves.  An alternative is taken as soon as it *)
(* succeeds and never given up, as in nom.                                 *)
(***************************************************************************)
EXTENDS Integers, Sequences, SequencesExt

CONSTANTS
  Words,    \* tokens made of letters, digits and underscores
  Number,   \* the numbers among them
  Escape    \* the characters that may follow a backslash, and their meaning

Blank  == {" ", "tab"}
Arrows == {"down", "up"}
Quote  == "quote"
Back   == "backslash"

Fail        == [ok |-> FALSE]
Ok(rest, v) == [ok |-> TRUE, rest |-> rest, val |-> v]

\* One parser after another, one instead of another, and one that may fail.
Then(r, F(_, _)) == IF r.ok THEN F(r.rest, r.val) ELSE Fail
Or(r, s)         == IF r.ok THEN r ELSE s
Opt(r, t)        == IF r.ok THEN r.rest ELSE t

From(t, n)   == SubSeq(t, n, Len(t))
Raw(t, rest) == SubSeq(t, 1, Len(t) - Len(rest))    \* recognize
Take(t, n)   == IF n = 0 THEN Fail ELSE Ok(From(t, n + 1), SubSeq(t, 1, n))

\* How long the text goes on with what Test accepts.
Span(t, Test(_)) ==
  LET from[i \in 1 .. Len(t) + 1] ==
        IF i <= Len(t) /\ Test(t[i]) THEN from[i + 1] ELSE i - 1
  IN from[1]

Space1(t)   == Take(t, Span(t, LAMBDA c : c \in Blank))
Space0(t)   == From(t, Span(t, LAMBDA c : c \in Blank) + 1)
IsNot(t, S) == Take(t, Span(t, LAMBDA c : c \notin S))
Tag(t, c)   == IF t # <<>> /\ Head(t) = c THEN Ok(Tail(t), c) ELSE Fail

\* many0: the values, and what is left; P leaves less than it was given.
Prefixed(v, more) == Ok(more.rest, <<v>> \o more.val)
Many(P(_), t) ==
  LET last[n \in 0 .. Len(t)] ==     \* of the last n tokens
        Or(Then(P(From(t, Len(t) - n + 1)), LAMBDA rest, v : Prefixed(v, last[Len(rest)])),
           Ok(From(t, Len(t) - n + 1), <<>>))
  IN last[Len(t)]

\* many1
NotEmpty(r) == IF r.val = <<>> THEN Fail ELSE r

\* separated_list1: a separator that no element follows is left alone.
SepList(P(_), Sep(_), t) ==
  Then(P(t), LAMBDA rest, v :
    Prefixed(v, Many(LAMBDA u : Then(Sep(u), LAMBDA w, s : P(w)), rest)))

-----------------------------------------------------------------------------
(* The sequence *)

Keyname(t) == Take(t, Span(t, LAMBDA c : c \in Words))

Arrow(t)  == IF t # <<>> /\ Head(t) \in Arrows THEN Ok(Space0(Tail(t)), <<>>) ELSE Fail
SeqSep(t) == Or(Arrow(Space0(t)), Space1(t))

KeynameSeq(t) ==
  NotEmpty(Many(LAMBDA u : Then(Keyname(u), LAMBDA rest, k : Ok(Opt(SeqSep(rest), rest), k)), t))

-----------------------------------------------------------------------------
(* Arguments *)

EscapedChar(t) ==
  IF Len(t) > 1 /\ t[1] = Back /\ t[2] \in DOMAIN Escape
    THEN Ok(From(t, 3), <<Escape[t[2]]>>) ELSE Fail

LitOrEsc(t) == Or(IsNot(t, {Quote, Back}), EscapedChar(t))

Quoted(t) ==
  Then(Tag(t, Quote), LAMBDA u, q :
    Then(Many(LitOrEsc, u), LAMBDA v, cs :
      Then(Tag(v, Quote), LAMBDA rest, p : Ok(rest, FlattenSeq(cs)))))

QuotedOrPlain(t) == Or(Quoted(t), IsNot(t, {Quote, ","} \cup Blank))

Varg(t) == SepList(QuotedOrPlain, Space1, t)

\* Mutant: a comment ends no argument.
Arg1Swallows(t) == Or(Quoted(t), IsNot(t, {Quote, ","}))

Arg1(t) == Or(Quoted(t), IsNot(t, {Quote, ",", "#"}))

TrimEnd(t) ==
  SubSeq(t, 1, LET in == {i \in DOMAIN t : t[i] \notin Blank} IN IF in = {} THEN 0 ELSE Max(in))

ArgsStr(t) == Then(Many(Arg1, t), LAMBDA rest, args : Ok(rest, TrimEnd(Raw(t, rest))))
ArgsStrBeforeComma(t) == ArgsStr(Space0(t))

-----------------------------------------------------------------------------
(* Actions.  map_parser drops what its second parser leaves: the words     *)
(* after a number, and after a text in quotes.                             *)

Act(kind, arg) == [kind |-> kind, arg |-> arg]

ActionTextArg(t) ==
  Then(ArgsStrBeforeComma(t), LAMBDA rest, a :
    Ok(rest, <<Act("text", Or(Quoted(a), Ok(<<>>, a)).val)>>))

\* mouse and repeat take a u8.
ActionNumber(kind, t) ==
  Then(ArgsStrBeforeComma(t), LAMBDA rest, a :
    IF a # <<>> /\ Head(a) \in DOMAIN Number /\ Number[Head(a)] < 256
      THEN Ok(rest, <<Act(kind, Number[Head(a)])>>) ELSE Fail)

Plus(t) == Then(Tag(Space0(t), "+"), LAMBDA rest, p : Ok(Space0(rest), p))

KeyCombination(t) == SepList(Keyname, Plus, t)

KeyCombiList(t) == SepList(KeyCombination, Space1, t)

ActionKeyCombiMulti(t) ==
  Then(Space1(t), LAMBDA u, s :
    Then(KeyCombiList(u), LAMBDA rest, l :
      Ok(rest, [i \in DOMAIN l |-> Act("keys", l[i])])))

ActionExec(t) ==
  Then(Space1(t), LAMBDA u, s :
    Then(Varg(u), LAMBDA rest, l : Ok(rest, <<Act("exec", l)>>)))

ActionsBeforeComma(t) ==
  IF t = <<>> THEN Fail
  ELSE CASE Head(t) = "text" -> ActionTextArg(Tail(t))
         [] Head(t) = "key"  -> ActionKeyCombiMulti(Tail(t))
         [] Head(t) = "exec" -> ActionExec(Tail(t))
         [] Head(t) \in {"mouse", "repeat"} -> ActionNumber(Head(t), Tail(t))
         [] OTHER -> Fail

\* The comma may be left out.
Comma(t) == Then(Tag(t, ","), LAMBDA rest, c : Ok(Space0(rest), c))
Item(t)  == Then(ActionsBeforeComma(t), LAMBDA rest, as :
              Ok(Opt(Comma(Space0(rest)), Space0(rest)), as))

ActionsSeparatedByComma(t) ==
  Then(NotEmpty(Many(Item, t)), LAMBDA rest, as : Ok(rest, FlattenSeq(as)))

-----------------------------------------------------------------------------

Assignment(t) ==
  Then(KeynameSeq(t), LAMBDA u, seq :
    Then(Tag(u, "="), LAMBDA v, e :
      Then(ActionsSeparatedByComma(Space0(v)), LAMBDA rest, acts :
        Ok(rest, [seq |-> seq, acts |-> acts]))))

\* A line is an assignment, a comment, both or nothing, to its very end; only
\* the assignment is of use.
AssignmentLine(t) ==
  Then(Assignment(Space0(t)), LAMBDA rest, a :
    IF rest = <<>> \/ Head(rest) = "#" THEN Ok(rest, a) ELSE Fail)
=============================================================================
