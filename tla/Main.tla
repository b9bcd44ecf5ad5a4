-------------------------------- MODULE Main --------------------------------
(***************************************************************************)
(* struct Main of src/lib.rs: the loop that recognises key sequences, and  *)
(* the set of keyboards it listens to.                                     *)
(*                                                                         *)
(* The loop runs one handler at a time.  A handler talks to the server in  *)
(* round trips, and the user does not wait for them, so                    *)
(* proc_xin_devent is three steps: RecvKey reads a report and asks whether *)
(* its keyboard floats, GrabFloating grabs it and takes the key in, and    *)
(* Settle, once no key is left down, unpresses what XQueryKeymap listed    *)
(* and decides what becomes of the sequence.  A report stays at the head   *)
(* of the queue until its key is taken in.                                 *)
(***************************************************************************)
EXTENDS XServer, Functions

CONSTANTS
  Sequences,  \* the sequences of Mapping::seq_act, as tuples of keycodes
  MaxReplay,  \* the longest sequence add_unmatch replays (8 in the code)
  MayFail,    \* the steps that may fail, and on which keyboards
  NoDev       \* no keyboard

ASSUME MainAssumption ==
  /\ NoDev \notin Keyboards
  /\ Sequences \subseteq Seq(Keys)
  /\ MaxReplay \in Nat
  /\ MayFail \subseteq {"grab_device", "add_dev", "setup_device"} \X Keyboards

VARIABLES
  devs,      \* Main::devs, the keyboards listened to
  seqbuf,    \* Main::seqbuf, the keys of the sequence being typed
  down,      \* Main::down, the keys down
  maybe,     \* Main::maybe, whether the sequence may still match
  floating,  \* Main::floating, the keyboard grabbed, or NoDev
  replay,    \* Xdo::replay, keys waiting to be typed again
  pc,        \* where the loop is: "recv", "grab", "settle" or "exit"
  stale,     \* the reply of query_keys_down
  fired,     \* history: the sequences whose actions were queued
  burst,     \* history: every key handled since none was down
  hasty      \* history: whether the user has ever not waited for the replay

mainVars == <<devs, seqbuf, down, maybe, floating, replay, pc, stale,
              fired, burst>>
vars     == <<srvVars, mainVars, hasty>>

KeyChange == [code: Keys, press: BOOLEAN]

TypeOK ==
  /\ XTypeOK
  /\ devs \in SUBSET Keyboards
  /\ {seqbuf, replay, burst} \subseteq Seq(KeyChange)
  /\ down \in SUBSET Keys
  /\ maybe \in BOOLEAN
  /\ floating \in Keyboards \cup {NoDev}
  /\ pc \in {"recv", "grab", "settle", "exit"}
  /\ stale \in SUBSET Keys
  /\ fired \in Seq(Sequences)
  /\ hasty \in BOOLEAN

\* Main::new
MainInit ==
  /\ devs = Keyboards /\ seqbuf = <<>> /\ down = {} /\ maybe = TRUE
  /\ floating = NoDev /\ replay = <<>>
  /\ pc = "recv" /\ stale = {} /\ fired = <<>> /\ burst = <<>> /\ hasty = FALSE

Init == XInit /\ MainInit

-----------------------------------------------------------------------------
(* proc_xin_devent *)

\* Mutant: an ungrabbed key is ignored and the sequence still counts.
TakeInLenient(e) ==
  /\ UNCHANGED <<maybe, fakes>>
  /\ IF floating = NoDev /\ e.code \notin Modifiers
       THEN UNCHANGED seqbuf
       ELSE seqbuf' = Append(seqbuf, [code |-> e.code, press |-> e.press])

\* Mutant: a key the applications had is passed on as well.
TakeInPassAll(e) ==
  IF ~maybe
    THEN Fake({e.code}, e.press) /\ UNCHANGED <<maybe, seqbuf>>
    ELSE /\ maybe' = ~(e.press /\ e.code \notin Modifiers /\ floating = NoDev)
         /\ seqbuf' = IF maybe' THEN Append(seqbuf, [code |-> e.code, press |-> e.press])
                                ELSE seqbuf
         /\ UNCHANGED fakes

\* A key is typed again, given up, or added to the sequence.  A key that is
\* no modifier and was not grabbed has reached the applications: from there
\* on the sequence matches nothing.
TakeIn(e) ==
  LET k == [code |-> e.code, press |-> e.press] IN
  \/ /\ ~maybe /\ floating # NoDev
     /\ Fake({e.code}, e.press)
     /\ UNCHANGED <<maybe, seqbuf>>
  \/ /\ ~maybe /\ floating = NoDev
     /\ UNCHANGED <<maybe, seqbuf, fakes>>
  \/ /\ maybe /\ e.press /\ e.code \notin Modifiers /\ floating = NoDev
     /\ maybe' = FALSE
     /\ UNCHANGED <<seqbuf, fakes>>
  \/ /\ maybe /\ ~(e.press /\ e.code \notin Modifiers /\ floating = NoDev)
     /\ seqbuf' = Append(seqbuf, k)
     /\ UNCHANGED <<maybe, fakes>>

\* Mutants: the device in place of the key; a key never removed.
DownAfterDevice(e) == IF e.press THEN down \cup {e.dev} ELSE down \ {e.dev}
DownAfterLeaky(e)  == IF e.press THEN down \cup {e.code} ELSE down

\* One set of keys for all the keyboards.
DownAfter(e) == IF e.press THEN down \cup {e.code} ELSE down \ {e.code}

\* The rest of the handler up to the reply of query_keys_down.
HandleKey(e) ==
  /\ events' = Tail(events)
  /\ TakeIn(e)
  /\ down' = DownAfter(e)
  /\ burst' = Append(burst, [code |-> e.code, press |-> e.press])
  /\ IF down' = {} THEN pc' = "settle" /\ stale' = core
                   ELSE pc' = "recv" /\ UNCHANGED stale

RecvKey ==
  /\ pc = "recv" /\ events # <<>> /\ Head(events).kind = "key"
  /\ LET e == Head(events) IN
     \/ /\ e.dev \notin devs
        /\ events' = Tail(events)
        /\ UNCHANGED <<seqbuf, down, maybe, floating, pc, stale, burst, fakes>>
     \/ /\ e.dev \in devs /\ floating = NoDev /\ Floating(e.dev)
        /\ floating' = e.dev /\ pc' = "grab"
        /\ UNCHANGED <<seqbuf, down, maybe, stale, burst, events, fakes>>
     \/ /\ e.dev \in devs /\ ~(floating = NoDev /\ Floating(e.dev))
        /\ HandleKey(e)
        /\ UNCHANGED floating
  /\ UNCHANGED <<setup, held, passive, active, core, due, presses, devs, replay,
                 fired, hasty>>

\* A failure is logged and changes nothing else.
GrabFloating ==
  /\ pc = "grab"
  /\ \/ floating \in plugged /\ GrabDevice(floating)
     \/ (<<"grab_device", floating>> \in MayFail \/ floating \notin plugged) /\ UNCHANGED <<active, passive>>
  /\ HandleKey(Head(events))
  /\ UNCHANGED <<setup, held, core, due, presses, devs, floating, replay, fired, hasty>>

\* SmoVec::from_iter has no form for these lengths.
Packs(s) == Len(s) \in {2, 4, 6, 8} \/ Len(s) > 8

Codes(s) == [i \in DOMAIN s |-> s[i].code]

\* Mutant: what was given up is typed again as well.
UnmatchedAlways == /\ Packs(seqbuf) /\ Codes(seqbuf) \notin Sequences
                   /\ \E i \in DOMAIN seqbuf : seqbuf[i].code \notin Modifiers

Matches   == maybe /\ Packs(seqbuf) /\ Codes(seqbuf) \in Sequences
Unmatched == /\ maybe /\ Packs(seqbuf) /\ Codes(seqbuf) \notin Sequences
             /\ \E i \in DOMAIN seqbuf : seqbuf[i].code \notin Modifiers

\* The modifiers down at a point of a sequence.
ModsAt(s, i) ==
  {m \in Modifiers : \E j \in 1 .. i - 1 :
     /\ s[j] = [code |-> m, press |-> TRUE]
     /\ \A l \in j + 1 .. i - 1 : s[l].code # m}

\* The applications are no longer owed the keys of a sequence that had its
\* action, or was too long for add_unmatch.
Spend(s) ==
  due' = [u \in Stroke |-> due[u] -
            Cardinality({i \in DOMAIN s : s[i].press /\ <<s[i].code, ModsAt(s, i)>> = u})]

\* Mutant: no key is unpressed.
UnpressNothing == stale' = {} /\ UNCHANGED fakes

\* The keys the applications still have down; the releases do not depend on
\* one another, so the server takes them in one step.
Unpress ==
  /\ IF stale = {} THEN UNCHANGED fakes ELSE Fake(stale, FALSE)
  /\ stale' = {}

\* Mutant: the keyboard is forgotten and never ungrabbed.
UnfloatForgets == floating' = NoDev /\ UNCHANGED <<active, passive>>

Unfloat ==
  /\ floating' = NoDev
  /\ IF floating = NoDev THEN UNCHANGED <<active, passive>>
                         ELSE UngrabDevice(floating)

Settle ==
  /\ pc = "settle" /\ pc' = "recv"
  /\ Unpress
  /\ \/ /\ Matches
        /\ fired' = Append(fired, Codes(seqbuf))
        /\ Spend(seqbuf) /\ UNCHANGED replay
     \/ /\ Unmatched /\ Len(seqbuf) <= MaxReplay
        /\ replay' = replay \o seqbuf
        /\ UNCHANGED <<fired, due>>
     \/ /\ Unmatched /\ Len(seqbuf) > MaxReplay
        /\ Spend(seqbuf) /\ UNCHANGED <<fired, replay>>
     \/ ~Matches /\ ~Unmatched /\ UNCHANGED <<fired, replay, due>>
  /\ seqbuf' = <<>> /\ maybe' = TRUE /\ burst' = <<>>
  /\ Unfloat
  /\ UNCHANGED <<setup, held, core, events, presses, devs, down, hasty>>

-----------------------------------------------------------------------------
(* proc_hier *)

\* setup_device stops at the first key it cannot grab; the keyboard stays.
AddDev(d) ==
  \/ /\ d \in plugged \ devs
     /\ devs' = devs \cup {d} /\ selected' = selected \cup {d}
     /\ \/ armed' = [armed EXCEPT ![d] = Grabs]
        \/ /\ <<"setup_device", d>> \in MayFail
           /\ \E G \in SUBSET Grabs : armed' = [armed EXCEPT ![d] = G]
  \/ /\ d \in devs \/ d \notin plugged \/ <<"add_dev", d>> \in MayFail
     /\ UNCHANGED <<devs, selected, armed>>

\* Mutant: a keyboard that is detached is only logged.
RemoveDevLogs(h) ==
  IF h.flag = "SlaveDetached"
    THEN UNCHANGED <<devs, armed, active, passive>>
    ELSE /\ devs' = devs \ {h.dev}
         /\ IF h.dev \in devs /\ h.flag # "DeviceDisabled"
              THEN CloseDevice(h.dev)
              ELSE UNCHANGED <<armed, active, passive>>

\* The handle is dropped, which closes the device unless it was disabled:
\* then it may be gone, and its id be another keyboard's.
RemoveDev(h) ==
  /\ devs' = devs \ {h.dev}
  /\ IF h.dev \in devs /\ h.flag # "DeviceDisabled"
       THEN CloseDevice(h.dev)
       ELSE UNCHANGED <<armed, active, passive>>

RecvHier ==
  /\ pc = "recv" /\ events # <<>> /\ Head(events).kind = "hier"
  /\ events' = Tail(events)
  /\ LET h == Head(events) IN
     \/ /\ \/ h.flag = "DeviceEnabled"
           \/ h.flag \in {"SlaveAdded", "SlaveAttached"} /\ h.enabled
        /\ AddDev(h.dev) /\ UNCHANGED <<active, passive>>
     \/ /\ h.flag \in {"SlaveAdded", "SlaveAttached"} /\ ~h.enabled
        /\ UNCHANGED <<devs, selected, armed, active, passive>>
     \/ /\ h.flag \in {"SlaveRemoved", "SlaveDetached", "DeviceDisabled"}
        /\ RemoveDev(h) /\ UNCHANGED selected
  /\ UNCHANGED <<plugged, detached, held, core, fakes, due, presses, plugs,
                 seqbuf, down, maybe, floating, replay, pc, stale, fired, burst, hasty>>

-----------------------------------------------------------------------------
(* The rest of the loop. *)

\* Mutant: proc is called once a report has come, not before awaiting one.
ProcReplayLate ==
  /\ pc = "recv" /\ replay # <<>> /\ events # <<>>
  /\ Fake({Head(replay).code}, Head(replay).press)
  /\ replay' = Tail(replay)
  /\ UNCHANGED <<setup, held, passive, active, core, events, due, presses,
                 devs, seqbuf, down, maybe, floating, pc, stale, fired, burst, hasty>>

\* Xdo::proc, called before each report is awaited, replays one key.  The
\* module Xdo has its timing and the other half of its work.
ProcReplay ==
  /\ pc = "recv" /\ replay # <<>>
  /\ Fake({Head(replay).code}, Head(replay).press)
  /\ replay' = Tail(replay)
  /\ UNCHANGED <<setup, held, passive, active, core, events, due, presses,
                 devs, seqbuf, down, maybe, floating, pc, stale, fired, burst, hasty>>

\* A signal, which may be seen together with the arrival of reports (module
\* EventLoop); Drop for Main calls unfloat, and the server lets go of
\* everything else when the connection closes.
Quit ==
  /\ pc = "recv" /\ pc' = "exit"
  /\ floating' = NoDev /\ active' = {} /\ selected' = {}
  /\ passive' = [d \in Keyboards |-> NoKey]
  /\ armed' = [d \in Keyboards |-> {}]
  /\ UNCHANGED <<plugged, detached, held, core, events, fakes, due, presses, plugs,
                 devs, seqbuf, down, maybe, replay, stale, fired, burst, hasty>>

\* How far the loop and the server are behind the user.
Backlog == Len(events) + Len(fakes) + (IF pc = "settle" THEN 1 ELSE 0)

User ==
  /\ Backlog < MaxBacklog
  /\ \E d \in Keyboards :
       \/ \E k \in Keys : KeyDown(d, k) \/ KeyUp(d, k)
       \/ Plug(d) \/ Unplug(d) \/ Detach(d) \/ Reattach(d)
  /\ hasty' = (hasty \/ replay # <<>>)
  /\ UNCHANGED mainVars

Daemon == RecvKey \/ GrabFloating \/ Settle \/ RecvHier \/ ProcReplay

Server == ServeFakes /\ UNCHANGED <<mainVars, hasty>>

Next == User \/ Server \/ Daemon \/ Quit

Spec == Init /\ [][Next]_vars

\* The loop goes on: it calls proc, then reads what the server has sent.
\* Nothing is assumed of the user.
Fairness == WF_vars(RecvKey) /\ WF_vars(GrabFloating) /\ WF_vars(Settle)
            /\ WF_vars(RecvHier) /\ WF_vars(ProcReplay) /\ WF_vars(Server)

FairSpec == Spec /\ Fairness

-----------------------------------------------------------------------------
(* Properties. *)

\* No grab leaks: a keyboard is kept from the applications only while the
\* loop believes a key down (or is in the middle of a handler), and it is the
\* one the loop will give back (lib.rs:153-155).
KeyboardFreed ==
  /\ active \subseteq {floating}
  /\ pc \in {"recv", "exit"} /\ floating # NoDev => down # {}
  /\ pc = "exit" => active = {}

\* debug_assert!(np), lib.rs:116: the press of a key the loop believes down
\* already is never handled.
PressIsNew ==
  pc \in {"recv", "grab"} /\ events # <<>> /\ Head(events).kind = "key" =>
    LET e == Head(events) IN
    e.dev \in devs /\ e.press => e.code \notin down

\* All is quiet: the loop has caught up with a user who holds nothing.
Quiet == /\ pc = "recv" /\ events = <<>> /\ fakes = <<>> /\ replay = <<>>
         /\ \A d \in Keyboards : held[d] = {}

\* Once all is quiet no application sees a key stuck down, although it never
\* saw the releases made while the keyboard was grabbed (lib.rs:127-130).  If
\* keyboards come and go faster than the loop hears of it, only as long as
\* nobody types on them meanwhile (Noticed in MainProofs).
NoStuckKeys == Quiet => core = {}

\* Once all is quiet the applications have had each key as often as it was
\* pressed, but for the sequences that had their action: passive grab,
\* pass_key and add_unmatch between them neither lose nor repeat one.
ExactlyOnce ==
  Quiet => \A k \in Keys \ Modifiers :
             SumFunction([m \in SUBSET Modifiers |-> due[<<k, m>>]]) = 0

\* And if the user has always waited for what was typed again, they have had
\* it with the modifiers it was pressed with, although the modifiers are
\* unpressed first and typed again (lib.rs:127-130, 144).
AsTyped == Quiet /\ ~hasty => \A u \in Stroke : due[u] = 0

\* Once all is quiet the loop believes no key down and holds no keyboard.
AtRest == Quiet => down = {} /\ floating = NoDev /\ seqbuf = <<>> /\ maybe

\* What a sequence of the configuration spells (DispSeq): each key goes down
\* where it occurs for the first time, up for the second, and so on.
Spelled(s) ==
  [i \in DOMAIN s |->
     [code  |-> s[i],
      press |-> Cardinality({j \in 1 .. i - 1 : s[j] = s[i]}) % 2 = 0]]

\* An action is queued only for the whole of its sequence: from the first key
\* down to the last one up the user did what the line spells and nothing else
\* ("this sequence only triggers if the Ctrl is pressed the whole time",
\* configuration.md:41).
WholeGesture ==
  [][fired' # fired => burst = Spelled(fired'[Len(fired')])]_vars

\* Whatever keyboards come and go, however far the loop lags and whichever
\* requests fail, a burst of keys that no application had any part of has its
\* action or is typed again, once and as a whole (lib.rs:103-157).
H == INSTANCE Hotkeys WITH kept <- maybe, Lines <- Sequences, over <- pc = "exit"

KeepsPromise == H!Spec

\* Once it knows of every change the loop listens to the keyboards that are
\* there, and to no other; and each has the grabs of the configuration, also
\* one that has come in place of another with the same id while its removal
\* was still to be handled (lib.rs:205-276).  Only on a keyboard that cannot
\* be opened, or not be set up, this fails, and on no other for it.
Listening ==
  pc = "recv" /\ (\A i \in DOMAIN events : events[i].kind = "key") =>
    /\ devs \subseteq plugged \ detached
    /\ \A d \in plugged \ detached : <<"add_dev", d>> \notin MayFail =>
         /\ d \in devs /\ d \in selected
         /\ <<"setup_device", d>> \notin MayFail => armed[d] = Grabs

\* A keyboard the loop holds goes back once the user lets go of every key.
KeyboardReturned ==
  (floating # NoDev /\ \A d \in Keyboards : held[d] = {})
     ~> (floating = NoDev \/ \E d \in Keyboards : held[d] # {})

\* What was not recognised is typed again to the last key, unless kseqi exits.
ReplayDrains == (replay # <<>>) ~> (replay = <<>> \/ pc = "exit")
=============================================================================
