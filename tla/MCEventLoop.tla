----------------------------- MODULE MCEventLoop -----------------------------
(* An instance of EventLoop for TLC: two kinds of events, which is enough to *)
(* see one overtake another.                                                 *)
EXTENDS EventLoop

CONSTANTS a, b
=============================================================================
