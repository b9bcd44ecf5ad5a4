------------------------------- MODULE Keysym -------------------------------
(***************************************************************************)
(* Symbols of keys: XStringToKeysym's names for them, as strings, and the  *)
(* other names of src/xdl/keysym.rs.                                       *)
(***************************************************************************)
CONSTANT NoSym  \* NoSymbol

\* What kseqi calls some keys; "not translated by XStringToKeysym".
ALIAS_KEYSYM ==
  [shift |-> "Shift_L", ctrl |-> "Control_L", control |-> "Control_L", alt |-> "Alt_L",
   down |-> "Down", right |-> "Right", up |-> "Up", left |-> "Left",
   esc |-> "Escape", super |-> "Super_L", mod4 |-> "Super_L",
   win_l |-> "Win_L", win_r |-> "Win_R", enter |-> "Return", app |-> "App"]

\* XK_Win_L, XK_Win_R and XK_App are not X11's, and X11 has no name for them.
NamelessAliases == {"Win_L", "Win_R", "App"}
=============================================================================
