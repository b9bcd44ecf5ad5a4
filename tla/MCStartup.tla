----------------------------- MODULE MCStartup -----------------------------
(***************************************************************************)
(* An instance of Startup for TLC: a server with two master keyboards, the *)
(* second of which may come and go, with the XTEST device of each.         *)
(***************************************************************************)
EXTENDS Startup, TLC

CONSTANTS core, coreTest, kbd, mouse, virt, adrift, secondTest

Device(use, keyed, mark) == [use |-> use, keyed |-> keyed, mark |-> mark]

MCDesc ==
     core       :> Device("MasterKeyboard", TRUE, "none")
  @@ coreTest   :> Device("SlaveKeyboard", TRUE, "xtest")
  @@ kbd        :> Device("SlaveKeyboard", TRUE, "none")
  @@ mouse      :> Device("SlavePointer", FALSE, "none")
  @@ virt       :> Device("SlaveKeyboard", TRUE, "virtual")
  @@ adrift     :> Device("FloatingSlave", TRUE, "none")
  @@ secondTest :> Device("SlaveKeyboard", TRUE, "xtest")

\* Three keycodes with symbols and three without, one of which has a symbol
\* behind a level that has none; and a keyboard with no keycode left.
MCRows == 8 :> <<"x", "X">> @@ 9 :> <<"Shift_L", NoSym>> @@ 10 :> <<"alpha", NoSym>>
       @@ 11 :> <<NoSym, NoSym>> @@ 12 :> <<NoSym, "Alt_L">> @@ 13 :> <<NoSym, NoSym>>
FullRows == [k \in 8 .. 13 |-> IF k \in 8 .. 10 THEN MCRows[k] ELSE <<"y", "Y">>]

\* Two keycodes to a modifier; the last modifier has one as well.
MCMods == <<9, 0, 0, 0, 10, 11, 0, 0, 0, 0, 0, 0, 0, 0, 12, 0>>

MCLayouts == {[rows |-> MCRows, mods |-> MCMods],
              [rows |-> FullRows, mods |-> <<9, 10>> \o [i \in 1 .. 14 |-> 0]]}
MCTyped   == <<"beta", NoSym>>
=============================================================================
