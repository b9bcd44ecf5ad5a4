------------------------------- MODULE MCXdo -------------------------------
(***************************************************************************)
(* Instances of Xdo for TLC: a keyboard with the keys x, slash and Shift,  *)
(* and the symbols alpha, beta and gamma, which no key has.                *)
(***************************************************************************)
EXTENDS Xdo, TLC

CONSTANTS kx, kslash, kshift, spare1, spare2, spare3, spare4, spare5,  \* keycodes
          x, slash, question, shift, alpha, beta, gamma  \* symbols

Keyboard ==
     x        :> [code |-> kx,     shift |-> FALSE]
  @@ slash    :> [code |-> kslash, shift |-> FALSE]
  @@ question :> [code |-> kslash, shift |-> TRUE]
  @@ shift    :> [code |-> kshift, shift |-> FALSE]

TwoSpare  == <<spare1, spare2>>
FiveSpare == <<spare1, spare2, spare3, spare4, spare5>>

Text(s)   == [kind |-> "text",   syms |-> s,    n |-> 0]
Keys(s)   == [kind |-> "keys",   syms |-> s,    n |-> 0]
Click     == [kind |-> "mouse",  syms |-> <<>>, n |-> 1]
Repeat(n) == [kind |-> "repeat", syms |-> <<>>, n |-> n]
Exec      == [kind |-> "exec",   syms |-> <<>>, n |-> 0]

\* text with characters of all kinds, a key of a symbol without a keycode,
\* what runs at once among what does not, and repeat with something after it
TypingLines ==
  { <<Text(<<question, x>>)>>,
    <<Keys(<<shift, alpha>>), Click, Text(<<beta>>)>>,
    <<Exec, Text(<<>>), Click>>,
    <<Repeat(2), Text(<<alpha, gamma>>)>> }

\* as much text as needs three spare keycodes, and keys between texts
GreekLines ==
  { <<Text(<<alpha, beta, gamma, alpha>>)>>, <<Text(<<x, alpha, question>>)>>,
    <<Repeat(2), Keys(<<x, beta>>), Click>> }

\* key alpha+beta
ComboLines == { <<Keys(<<alpha, beta>>)>>, <<Text(<<x>>)>> }

\* X was typed, and Shift held with slash
Retyped == { <<[code |-> kx, press |-> TRUE], [code |-> kx, press |-> FALSE]>>,
             <<[code |-> kshift, press |-> TRUE], [code |-> kslash, press |-> TRUE],
               [code |-> kslash, press |-> FALSE], [code |-> kshift, press |-> FALSE]>> }
=============================================================================
