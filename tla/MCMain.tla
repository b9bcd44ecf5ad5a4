------------------------------- MODULE MCMain -------------------------------
(***************************************************************************)
(* Instances of Main for TLC.  The line of the configuration is            *)
(*   Control_L X X S S Control_L     (configuration.md)                    *)
(* for which Mapping::setup_device grabs X under Ctrl.                     *)
(***************************************************************************)
EXTENDS Main

CONSTANTS ctrl, x, s, kbd1, kbd2   \* keycodes, keyboards

EmacsSequences == {<<ctrl, x, x, s, s, ctrl>>}
EmacsGrabs     == {<<x, {ctrl}>>}

\* A line that was rejected has left a grab of S behind, so that the grabs of a
\* keyboard may be set up in part.
OrphanGrabs == EmacsGrabs \cup {<<s, {}>>}

\* Another line is X S S X, whose first key is grabbed without modifiers, and
\* a third, which was rejected, has left a grab of S behind.
ManySequences == EmacsSequences \cup {<<x, s, s, x>>}
ManyGrabs     == EmacsGrabs \cup {<<x, {}>>, <<s, {}>>}

\* Which steps may fail: none, grabs of keyboards, and on the second keyboard
\* all of them.
NoneFail  == {}
GrabFails == {"grab_device"} \X Keyboards
MostFail  == GrabFails \cup {"add_dev", "setup_device"} \X {kbd2}
=============================================================================
