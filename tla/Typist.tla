------------------------------- MODULE Typist -------------------------------
(***************************************************************************)
(* What kseqi promises of what it types.  The actions of the sequences the *)
(* user types wait in a queue, each a piece of so many symbols; so do keys *)
(* to type again.  An application gets the symbols of one piece after the  *)
(* other, each once and in order, and between two pieces, never amid one,  *)
(* keys that are typed again.  What it gets beside those, of Shift and of  *)
(* changes of the keyboard map, is left open.                              *)
(***************************************************************************)
EXTENDS Integers, Sequences, SequencesExt

CONSTANTS
  Lines,      \* the actions of a line, each with the symbols it types
  Unmatched,  \* what may have to be typed again
  MaxReplay,  \* the longest of it that is
  Aside       \* what else applications get

VARIABLES
  acts,    \* the actions that wait
  lastAdd, \* those of the line that can be repeated
  replay,  \* the keys to type again
  now,     \* the symbols of the piece begun that are still to be typed
  wire,    \* what the application has yet to read
  over     \* whether kseqi has ended

vars == <<acts, lastAdd, replay, now, wire, over>>

Spell(a) == IF a.kind \in {"text", "keys"} THEN a.syms ELSE <<>>

Init == /\ acts = <<>> /\ lastAdd = <<>> /\ replay = <<>>
        /\ now = <<>> /\ wire = <<>> /\ over = FALSE

\* A line that begins with repeat stands for copies of another.
Accept(l) ==
  /\ ~over
  /\ \/ /\ Head(l).kind = "repeat"
        /\ acts' = acts \o FlattenSeq([i \in 1 .. Head(l).n |-> lastAdd]) \o Tail(l)
        /\ UNCHANGED lastAdd
     \/ /\ Head(l).kind # "repeat"
        /\ acts' = acts \o l /\ lastAdd' = l
  /\ UNCHANGED <<replay, now, wire, over>>

HandBack(s) == /\ ~over /\ Len(s) <= MaxReplay
               /\ replay' = replay \o s
               /\ UNCHANGED <<acts, lastAdd, now, wire, over>>

\* The rest of a piece that is begun, one symbol of it typed or none.
Strike(piece) == \/ /\ piece # <<>>
                    /\ wire' = Append(wire, Head(piece)) /\ now' = Tail(piece)
                 \/ /\ wire' = wire \/ \E m \in Aside : wire' = Append(wire, m)
                    /\ now' = piece

Type == /\ ~over /\ now # <<>> /\ Strike(now)
        /\ UNCHANGED <<acts, lastAdd, replay, over>>

\* Actions that type nothing are passed over.
Begin == /\ ~over /\ now = <<>> /\ replay = <<>>
         /\ \E n \in 1 .. Len(acts) :
              /\ \A i \in 1 .. n - 1 : Spell(acts[i]) = <<>>
              /\ acts' = SubSeq(acts, n + 1, Len(acts))
              /\ Strike(Spell(acts[n]))
         /\ UNCHANGED <<lastAdd, replay, over>>

TypeAgain == /\ ~over /\ now = <<>> /\ replay # <<>>
             /\ replay' = Tail(replay)
             /\ wire' = IF Head(replay).press THEN Append(wire, Head(replay).code) ELSE wire
             /\ UNCHANGED <<acts, lastAdd, now, over>>

\* Keyboards come, or what was mapped for typing is mapped anew; the last time
\* when kseqi ends.
Stir == /\ ~over
        /\ UNCHANGED <<acts, lastAdd, replay, now>>
        /\ over' \in BOOLEAN
        /\ Len(wire') >= Len(wire) /\ SubSeq(wire', 1, Len(wire)) = wire
        /\ \A i \in Len(wire) + 1 .. Len(wire') : wire'[i] \in Aside

Read == /\ UNCHANGED <<acts, lastAdd, replay, now, over>>
        /\ wire # <<>> /\ wire' = Tail(wire)

Next == \/ Read \/ Type \/ Begin \/ TypeAgain \/ Stir
        \/ \E l \in Lines : Accept(l)
        \/ \E s \in Unmatched : HandBack(s)

Spec == Init /\ [][Next]_vars
=============================================================================
