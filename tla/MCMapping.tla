----------------------------- MODULE MCMapping -----------------------------
(***************************************************************************)
(* Instances of Config for TLC: a keyboard with letters and modifiers, all *)
(* styles of writing a line, and configurations of up to three lines, good *)
(* and bad in each way.                                                    *)
(***************************************************************************)
EXTENDS Config, Keymap, TLC

CONSTANT MaxLines  \* bound: how many lines of Lines a configuration has

MCWords == {"X", "x", "S", "s", "Control_L", "Control_R", "Shift_L", "ctrl", "Ctrl", "F35",
            "bogus", "0xffffff", "enter", "shout", "1", "3", "300",
            "text", "key", "exec", "mouse", "repeat"}
MCNumber  == "1" :> 1 @@ "3" :> 3 @@ "300" :> 300
MCEscape  == Quote :> Quote @@ Back :> Back @@ "x" :> "x"
MCLower   == [w \in MCWords |-> CASE w = "X" -> "x" [] w = "S" -> "s" [] w = "Ctrl" -> "ctrl"
                                  [] OTHER -> w]
MCAlnum   == {"X", "x", "S", "s", "1", "3"}
MCXKeysym == [w \in {"Control_L", "Control_R", "Shift_L", "F35"} |-> w] @@ "0xffffff" :> "0xffffff"

-----------------------------------------------------------------------------
(* The keyboard: Control has two keys, x is on two, and keycode 14 has a   *)
(* symbol only behind a level without one, like the keys 204 to 207 of PCs. *)

Rows == << <<"Control_L", NoSym>>, <<"Shift_L", NoSym>>, <<"x", "X">>, <<"s", "S">>,
           <<"Control_R", NoSym>>, <<"x", "X">>, <<NoSym, "Alt_L">> >>
Keyboard == <<>> @@ SymKeyMap([k \in 8 .. 14 |-> Rows[k - 7]])

Groups == << <<9, 0>>, <<0, 0>>, <<8, 12>>, <<14, 0>>,
             <<0, 0>>, <<0, 0>>, <<0, 0>>, <<0, 0>> >>
Mods == <<>> @@ CodeMap(FlattenSeq(Groups))

-----------------------------------------------------------------------------
(* What users mean. *)

Named(q)  == [i \in DOMAIN q |-> <<q[i]>>]
On(q, as) == [seq |-> Named(q), acts |-> as]
Press(ks) == Act("keys", Named(ks))

CtrlX == <<"Control_L", "X", "X", "Control_L">>

GoodLines == <<
  On(<<"ctrl", "X", "X", "ctrl">>, <<Act("text", <<"x">>)>>),
  On(<<"Control_L", "x", "x", "Control_L">>, <<Press(<<"F35">>)>>),
  On(<<"Ctrl", "Shift_L", "Shift_L", "X", "X", "Ctrl">>, <<Press(<<"X">>), Act("mouse", 1)>>),
  On(<<"ctrl", "ctrl">>, <<Act("repeat", 3)>>),
  On(<<"Control_L", "Shift_L", "X", "X", "Shift_L", "Control_L">>, <<Act("exec", <<<<"x">>>>)>>) >>

BadLines == <<
  On(<<"Control_L", "S", "S">>, <<Act("repeat", 1)>>),
  On([i \in 1 .. 9 |-> "X"], <<Act("repeat", 1)>>),
  On([i \in 1 .. 18 |-> "X"], <<Act("repeat", 1)>>),
  On(<<"F35", "F35">>, <<Act("repeat", 1)>>),
  On(<<"bogus", "X">>, <<Act("repeat", 1)>>),
  On(<<"0xffffff", "X">>, <<Act("repeat", 1)>>),
  On(<<"S", "S">>, <<Press(<<"X", "bogus", "F35">>)>>) >>

\* Texts with every sign, empty ones and edges of blanks; actions in a row.
StyledActs == <<
  <<Act("text", <<"x", ",", " ", "#", Quote, Back, "x">>)>>,
  <<Act("text", <<"x", " ", "S">>)>>,
  <<Act("text", <<>>), Act("text", <<" ", "x">>)>>,
  <<Press(<<"Ctrl", "x">>), Act("text", <<"key">>), Press(<<"enter">>)>>,
  <<Act("exec", <<<<"x">>, <<" ">>, <<>>, <<"#", "x", ",">>>>)>>,
  <<Act("exec", <<<<"x", "=", "s">>>>), Act("repeat", 3)>>,
  <<Act("mouse", 1), Act("text", <<"text">>), Act("repeat", 3)>> >>

\* Lines without an action, or that are not understood.
NoAction == <<"X", " ", "X", " ", "=">>
Garbled  == <<
  NoAction, <<>>, <<"#", " ", "X">>, <<"X", " ", "X", " ", "key", " ", "x">>,
  <<"X", " ", "X", "=", "text", " ", Quote, "x">>, <<"X", " ", "X", "=", "key", " ", "x", " ", "+">>,
  <<"X", " ", "X", "=", "mouse", " ", "300">>, <<"X", " ", "X", "=", "shout", " ", "x">>,
  <<"X", " ", "X", "=", "text", " ", Quote, Back, "s", Quote>>,
  <<"X", " ", "X", "=", "key", " ", "x", " ", Quote, "x", Quote>> >>

\* A list of keys, as the parser's tests write it (parse.rs:323).
ByHand == <<"X", " ", "X", "=", "key", " ", "ctrl", "+", " ", "x", " ", " ", "s", " ">>
ByHandMeant == On(<<"X", "X">>, <<Press(<<"ctrl", "x">>), Press(<<"s">>)>>)

\* Both keys of Control, one after the other and at once.
EachCtrl  == On(<<"Control_L", "Control_L", "Control_R", "X", "X", "Control_R">>,
                <<Act("repeat", 1)>>)
BothCtrls == On(<<"Control_L", "Control_R", "X", "X", "Control_R", "Control_L">>,
                <<Act("repeat", 1)>>)

-----------------------------------------------------------------------------
(* What is written, with what is meant by it. *)

StyleNo(k) == [arrows |-> k % 2 = 1, quotes |-> (k \div 2) % 2 = 1,
               wide |-> (k \div 4) % 2 = 1, comment |-> k >= 8]

\* exec takes a comment for arguments, so that none is written after it.
NoStyles(l) == IF l.acts[Len(l.acts)].kind = "exec" THEN 8 ELSE 16

In(l, k) == <<Write(l, StyleNo(k)), l>>

Written == [i \in 1 .. Len(GoodLines) + Len(BadLines) |-> In((GoodLines \o BadLines)[i], 6)]
Pairs   ==
  Written \o [i \in DOMAIN Garbled |-> <<Garbled[i], Unparsed>>]
    \o <<<<ByHand, ByHandMeant>>, In(EachCtrl, 0), In(BothCtrls, 0)>>
    \o FlattenSeq([i \in DOMAIN StyledActs |->
          LET l == On(CtrlX, StyledActs[i])
          IN [k \in 1 .. NoStyles(l) |-> In(l, k - 1)]])

\* @@ and \o have TLC work functions out once.
MCTexts == LET ps == Pairs IN <<>> \o [i \in DOMAIN ps |-> ps[i][1]]
AllMeant == LET ps == Pairs IN <<>> \o [i \in DOMAIN ps |-> ps[i][2]]
AllAdded == LET read == AllRead IN <<>> \o [i \in DOMAIN read |-> ToAdd(read[i])]
Symbols  == LET added == AllAdded
            IN <<>> @@ [n \in NamesIn(ToSet(added)) |-> GetKeysym(n)]

\* Files of lines good and bad, and of one line of any kind but the one with
\* both keys of Control at once.
MCFiles == UNION {[1 .. n -> 1 .. Len(Written) + 1] : n \in 0 .. MaxLines}
             \cup LET meant == AllMeant
                  IN {<<i>> : i \in {j \in DOMAIN meant : meant[j] # BothCtrls}}

CtrlsFiles == LET meant == AllMeant
              IN {<<i>> : i \in {j \in DOMAIN meant : meant[j] = BothCtrls}}

\* TLC works out what a .cfg puts for a constant at each use of it, and what a
\* definition names but once.
MCMeant   == AllMeant
MCParsed  == AllAdded
MCNameSym == Symbols
MCSymCode == Keyboard
MCKeycodeMod == Mods
=============================================================================
