------------------------------- MODULE Hotkeys -------------------------------
(***************************************************************************)
(* What kseqi promises of the keys it is told of.  They come in bursts,    *)
(* from the first key that goes down to the last one that comes up.  A     *)
(* burst is kept as long as the applications have none of its plain keys.  *)
(* One that was kept to the end has the action of its line, or is typed    *)
(* again as a whole, in order and behind what is still to be typed; it is  *)
(* never both, nor forgotten but for a few reasons.                        *)
(***************************************************************************)
EXTENDS Integers, Sequences

CONSTANTS
  Keys, Modifiers,
  Lines,     \* the sequences that have actions, as tuples of keys
  MaxReplay  \* the longest burst that is typed again

VARIABLES
  burst,  \* the keys since none was down
  kept,   \* whether the applications have none of them but modifiers
  fired,  \* the lines whose actions were asked for
  replay, \* the keys to type again
  over    \* whether kseqi has ended

vars == <<burst, kept, fired, replay, over>>

KeyChange == [code: Keys, press: BOOLEAN]

Init == /\ burst = <<>> /\ kept = TRUE /\ fired = <<>> /\ replay = <<>>
        /\ over = FALSE

Spells    == [i \in DOMAIN burst |-> burst[i].code]
Plain     == \E i \in DOMAIN burst : burst[i].code \notin Modifiers

\* Whatever went down has come up.
Released  == \A i \in DOMAIN burst : burst[i].press =>
               \E j \in DOMAIN burst : i < j /\ burst[j].code = burst[i].code /\ ~burst[j].press

\* An odd number of keys is what is left of a burst that began before kseqi.
Cut       == Len(burst) % 2 = 1

Key == /\ ~over
       /\ \E k \in KeyChange :
            /\ burst' = Append(burst, k)
            /\ \/ kept' = kept
               \/ k.press /\ k.code \notin Modifiers /\ kept' = FALSE
       /\ UNCHANGED <<fired, replay, over>>

Fire == /\ kept /\ Released /\ Spells \in Lines
        /\ fired' = Append(fired, Spells) /\ UNCHANGED replay

TypeAgain == /\ kept /\ Released /\ Spells \notin Lines
             /\ Plain /\ Len(burst) <= MaxReplay
             /\ replay' = replay \o burst /\ UNCHANGED fired

Forget == /\ ~kept \/ Cut \/ (Spells \notin Lines /\ (~Plain \/ Len(burst) > MaxReplay))
          /\ UNCHANGED <<fired, replay>>

Done == /\ ~over /\ burst # <<>>
        /\ Fire \/ TypeAgain \/ Forget
        /\ burst' = <<>> /\ kept' = TRUE /\ UNCHANGED over

Type == /\ ~over /\ replay # <<>> /\ replay' = Tail(replay)
        /\ UNCHANGED <<burst, kept, fired, over>>

End == ~over /\ over' = TRUE /\ UNCHANGED <<burst, kept, fired, replay>>

Next == Key \/ Done \/ Type \/ End

Spec == Init /\ [][Next]_vars
=============================================================================
