-------------------------------- MODULE Await --------------------------------
(***************************************************************************)
(* What Main::run and the programs under src/bin rely on when they call    *)
(* Xdll::recv_timeout: it answers with the next event, with None once the  *)
(* time given is over, or with Quit after a signal.  Events are answered   *)
(* in the order in which they came, none is lost, and one that was there   *)
(* when the call was made comes before anything else.                      *)
(***************************************************************************)
EXTENDS Sequences

CONSTANTS
  Kinds,    \* events, as far as anybody tells them apart
  Nothing,  \* the answer None
  Quit      \* the answer Event::Quit

VARIABLES
  inbox,      \* the events that have come and not been answered
  mode,       \* the caller: "busy", "waiting" or, after Quit, "gone"
  impatient,  \* whether the call was given a time
  clear,      \* whether nothing was there when the call was made
  signalled,  \* whether a signal to exit has come
  answer      \* the last answer

vars == <<inbox, mode, impatient, clear, signalled, answer>>

Init == /\ inbox = <<>> /\ mode = "busy" /\ impatient = FALSE
        /\ clear = TRUE /\ signalled = FALSE /\ answer = Nothing

Come == /\ \E e \in Kinds : inbox' = Append(inbox, e)
        /\ UNCHANGED <<mode, impatient, clear, signalled, answer>>

Signal == signalled' = TRUE /\ UNCHANGED <<inbox, mode, impatient, clear, answer>>

Call == /\ mode = "busy" /\ mode' = "waiting"
        /\ impatient' \in BOOLEAN
        /\ clear' = (inbox = <<>>)
        /\ UNCHANGED <<inbox, signalled, answer>>

AnswerEvent == /\ mode = "waiting" /\ inbox # <<>>
               /\ answer' = Head(inbox) /\ inbox' = Tail(inbox) /\ mode' = "busy"
               /\ UNCHANGED <<impatient, clear, signalled>>

AnswerNothing == /\ mode = "waiting" /\ impatient /\ clear
                 /\ answer' = Nothing /\ mode' = "busy"
                 /\ UNCHANGED <<inbox, impatient, clear, signalled>>

AnswerQuit == /\ mode = "waiting" /\ signalled /\ clear
              /\ answer' = Quit /\ mode' = "gone"
              /\ UNCHANGED <<inbox, impatient, clear, signalled>>

Answer == AnswerEvent \/ AnswerNothing \/ AnswerQuit

Next == Come \/ Signal \/ Call \/ Answer

Safe == Init /\ [][Next]_vars

\* A call that has something to answer is answered.
Spec == Safe /\ WF_vars(Answer)
=============================================================================
