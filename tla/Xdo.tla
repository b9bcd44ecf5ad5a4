-------------------------------- MODULE Xdo --------------------------------
(***************************************************************************)
(* struct Xdo of src/dispatch.rs and struct SymCode of                     *)
(* src/dispatch/key_changer.rs: the actions of recognised sequences are    *)
(* queued, performed key by key between two events, and a symbol no key    *)
(* has is given a spare keycode first.                                     *)
(*                                                                         *)
(* Main, which calls pass_key, add_acts, add_unmatch and ondevchange, is   *)
(* left free here.  So is the application that is typed to: it translates  *)
(* the keys it is sent when it gets round to them, with the keyboard map   *)
(* it fetched last, and it fetches the map of that moment whenever it      *)
(* comes to a MappingNotify.                                               *)
(***************************************************************************)
EXTENDS Integers, Sequences, FiniteSets, SequencesExt

CONSTANTS
  Layout,     \* SymCode::def_syms: each symbol's keycode, and if it is shifted
  Spare,      \* the unassigned keycodes, in the order they are first used
  ShiftKey,   \* the keycode of Shift
  NoSym,      \* NoSymbol
  NoAct,      \* no action in progress
  Lines,      \* the actions of a line of the configuration
  Unmatched,  \* what Main hands to add_unmatch
  MaxReplay,  \* the longest sequence add_unmatch replays (8 in the code)
  Lag,        \* how far the application is behind after a pause, at the most
  MaxLines,   \* bound: how many sequences are recognised
  MaxReplays, \* bound: how many are not
  MaxPlugs    \* bound: how many keyboards are plugged

VARIABLES
  acts,     \* Xdo::acts, the actions to perform
  lastAdd,  \* Xdo::last_add, what repeat repeats
  replay,   \* Xdo::replay, the keys to type again
  paused,   \* whether Xdo::resume lies in the future
  acting,   \* Xdo::acting, the action being performed
  mutSyms,  \* SymCode::mut_syms
  dpy,      \* the server: the map of the spare keycodes, the keys the XTEST
            \* device holds, and what the application has yet to read
  appMap,   \* the map of the spare keycodes the application fetched last
  running,  \* FALSE once Main has been dropped
  replug,   \* whether a keyboard came whose hierarchy event is not read yet
  lines,    \* history: the lines whose sequences were recognised
  did,      \* history: the actions begun
  replays,  \* history: how many sequences were not recognised
  plugs,    \* history: how many keyboards came
  loosed    \* history: whether Main has let go of Shift amid a character

queueVars == <<acts, lastAdd, replay>>
histVars  == <<lines, replays, plugs, loosed>>
vars == <<queueVars, paused, acting, mutSyms, dpy, appMap, running, replug,
          did, histVars>>

SpareCodes == ToSet(Spare)
Codes      == {Layout[s].code : s \in DOMAIN Layout} \cup SpareCodes \cup {ShiftKey}
KeyChange  == [code: Codes, press: BOOLEAN]

\* What the actions of the lines are made of.
ActionKinds == {"text", "keys", "mouse", "repeat", "exec"}
Actions     == UNION {ToSet(l) : l \in Lines}
Syms        == UNION {ToSet(a.syms) : a \in Actions} \cup DOMAIN Layout
Buttons     == {a.n : a \in {b \in Actions : b.kind = "mouse"}}

RunAct == [kind: {"text", "keys", "mouse"}, syms: Seq(Syms), n: Nat,
           index: Nat \ {0}, pressing: BOOLEAN, shifted: BOOLEAN]

ASSUME XdoAssumption ==
  /\ \A s \in DOMAIN Layout : Layout[s].shift \in BOOLEAN
  /\ Spare \in Seq(SpareCodes) /\ Spare # <<>>
  /\ Cardinality(SpareCodes) = Len(Spare)
  /\ SpareCodes \cap {Layout[s].code : s \in DOMAIN Layout} = {}
  /\ NoSym \notin Syms
  /\ Lines \subseteq Seq(Actions) \ {<<>>}
  /\ \A a \in Actions : a.kind \in ActionKinds /\ a.syms \in Seq(Syms) /\ a.n \in Nat
  /\ Unmatched \subseteq Seq(KeyChange)
  /\ {MaxReplay, Lag, MaxLines, MaxReplays, MaxPlugs} \subseteq Nat
  /\ NoAct \notin RunAct

\* What the application reads: a key, with Shift or without, which kseqi
\* wants to mean a symbol (or does not care); a change of the map.
Press(c, shift, want) == [kind |-> "press", code |-> c, shift |-> shift, want |-> want]
MappingNotify == [kind |-> "mapping"]

TypeOK ==
  /\ {acts, lastAdd, did} \subseteq Seq(Actions)
  /\ replay \in Seq(KeyChange)
  /\ {paused, running, replug, loosed} \subseteq BOOLEAN
  /\ acting \in RunAct \cup {NoAct}
  /\ mutSyms \in Seq([sym: Syms \cup {NoSym}, code: SpareCodes])
  /\ {m.code : m \in ToSet(mutSyms)} = SpareCodes /\ Len(mutSyms) = Len(Spare)
  /\ dpy.kmap \in [SpareCodes -> Syms \cup {NoSym}]
  /\ dpy.pressed \subseteq Codes \cup Buttons
  /\ dpy.inbox \in Seq({MappingNotify} \cup
       [kind: {"press"}, code: Codes, shift: BOOLEAN, want: Syms \cup {NoSym}])
  /\ appMap \in [SpareCodes -> Syms \cup {NoSym}]

\* SymCode::new: no spare keycode has a symbol yet.
NewSymCode == [i \in DOMAIN Spare |-> [sym |-> NoSym, code |-> Spare[i]]]

\* Xdo::new
Init ==
  /\ acts = <<>> /\ lastAdd = <<>> /\ replay = <<>>
  /\ paused = FALSE /\ acting = NoAct
  /\ mutSyms = NewSymCode
  /\ dpy = [kmap |-> [c \in SpareCodes |-> NoSym], pressed |-> {}, inbox |-> <<>>]
  /\ appMap = dpy.kmap
  /\ running = TRUE /\ replug = FALSE
  /\ lines = <<>> /\ did = <<>> /\ replays = 0 /\ plugs = 0 /\ loosed = FALSE

-----------------------------------------------------------------------------
(* Requests.  They are all made on the connection of with_xl, so the       *)
(* server comes to them in the order they are made.                        *)

\* change_key_mapping and sync
Remap(d, c, s) ==
  [kmap  |-> [d.kmap EXCEPT ![c] = s], pressed |-> d.pressed,
   inbox |-> Append(d.inbox, MappingNotify)]

\* fake_dev_key: the server tells the application of Shift as well.
FakeKey(d, c, press, want) ==
  IF press
    THEN [d EXCEPT !.pressed = @ \cup {c},
                   !.inbox   = Append(@, Press(c, ShiftKey \in d.pressed, want))]
    ELSE [d EXCEPT !.pressed = @ \ {c}]

\* fake_btn
FakeButton(d, b, press) ==
  [d EXCEPT !.pressed = IF press THEN @ \cup {b} ELSE @ \ {b}]

-----------------------------------------------------------------------------
(* SymCode::find_sym: the keycode of a symbol, and its group.  Of the spare *)
(* keycodes only the one mapped last is looked at; a symbol that is not on  *)
(* it gets the one mapped longest ago.                                      *)

Found(c, g, m, d) == [code |-> c, group |-> g, mut |-> m, dpy |-> d]

\* Mutant: the keycode mapped last is used again.
FindSymFixed(s, m, d) ==
  IF s \in DOMAIN Layout
    THEN Found(Layout[s].code, IF Layout[s].shift THEN "Shift" ELSE "Old", m, d)
  ELSE IF m[1].sym = s THEN Found(m[1].code, "Old", m, d)
  ELSE Found(m[1].code, "New", [m EXCEPT ![1].sym = s], Remap(d, m[1].code, s))

\* Mutant: the keycode taken from the front is not put back.
FindSymLoses(s, m, d) ==
  IF s \in DOMAIN Layout
    THEN Found(Layout[s].code, IF Layout[s].shift THEN "Shift" ELSE "Old", m, d)
  ELSE IF m[1].sym = s THEN Found(m[1].code, "Old", m, d)
  ELSE Found(m[2].code, "New", [Tail(m) EXCEPT ![1].sym = s], Remap(d, m[2].code, s))

\* Mutant: the symbol is not remembered.
FindSymForgets(s, m, d) ==
  IF s \in DOMAIN Layout
    THEN Found(Layout[s].code, IF Layout[s].shift THEN "Shift" ELSE "Old", m, d)
  ELSE IF m[1].sym = s THEN Found(m[1].code, "Old", m, d)
  ELSE Found(m[2].code, "New", Append(Tail(m), m[1]), Remap(d, m[2].code, s))

FindSym(s, m, d) ==
  IF s \in DOMAIN Layout
    THEN Found(Layout[s].code, IF Layout[s].shift THEN "Shift" ELSE "Old", m, d)
  ELSE IF Head(m).sym = s THEN Found(Head(m).code, "Old", m, d)
  ELSE LET r == Append(Tail(m), Head(m))     \* rotate_left(1)
           c == Head(r).code
       IN Found(c, "New", [r EXCEPT ![1].sym = s], Remap(d, c, s))

-----------------------------------------------------------------------------
(* RunAct::proc: one request or two, then a pause, or the end.             *)

Going(a, m, d)  == [act |-> a, mut |-> m, dpy |-> d]
Finished(m, d)  == Going(NoAct, m, d)

\* Mutant: Shift is released only where the next character has none.
RunTextLeaky(a, m, d) ==
  IF a.index > Len(a.syms) THEN Finished(m, d)
  ELSE LET f == FindSym(a.syms[a.index], m, d) IN
    IF f.group = "New" THEN Going(a, f.mut, f.dpy)
    ELSE IF f.group = "Shift" /\ a.pressing /\ ~a.shifted
      THEN Going([a EXCEPT !.shifted = TRUE], f.mut, FakeKey(f.dpy, ShiftKey, TRUE, NoSym))
    ELSE Going([a EXCEPT !.pressing = ~@, !.index = IF a.pressing THEN @ ELSE @ + 1],
               f.mut, FakeKey(f.dpy, f.code, a.pressing, a.syms[a.index]))

\* Mutant: a symbol that was given a keycode is passed over.
RunTextSkips(a, m, d) ==
  IF a.index > Len(a.syms) THEN Finished(m, d)
  ELSE LET f == FindSym(a.syms[a.index], m, d) IN
    IF f.group = "New" THEN Going([a EXCEPT !.index = @ + 1], f.mut, f.dpy)
    ELSE IF f.group = "Shift" /\ a.pressing # a.shifted
      THEN Going([a EXCEPT !.shifted = a.pressing],
                 f.mut, FakeKey(f.dpy, ShiftKey, a.pressing, NoSym))
    ELSE Going([a EXCEPT !.pressing = ~@, !.index = IF a.pressing THEN @ ELSE @ + 1],
               f.mut, FakeKey(f.dpy, f.code, a.pressing, a.syms[a.index]))

\* RunAct::Txt.  Shift goes down before its key and up before it.
RunText(a, m, d) ==
  IF a.index > Len(a.syms) THEN Finished(m, d)
  ELSE LET f == FindSym(a.syms[a.index], m, d) IN
    IF f.group = "New" THEN Going(a, f.mut, f.dpy)
    ELSE IF f.group = "Shift" /\ a.pressing # a.shifted
      THEN Going([a EXCEPT !.shifted = a.pressing],
                 f.mut, FakeKey(f.dpy, ShiftKey, a.pressing, NoSym))
    ELSE Going([a EXCEPT !.pressing = ~@, !.index = IF a.pressing THEN @ ELSE @ + 1],
               f.mut, FakeKey(f.dpy, f.code, a.pressing, a.syms[a.index]))

\* RunAct::Keys.  All the keys go down, then all of them up, in one order.
RunKeys(a, m, d) ==
  LET turn  == a.pressing /\ a.index > Len(a.syms)
      index == IF turn THEN 1 ELSE a.index
      press == a.pressing /\ ~turn
  IN IF index > Len(a.syms) THEN Finished(m, d)
     ELSE LET f == FindSym(a.syms[index], m, d)
              b == [a EXCEPT !.index = index, !.pressing = press]
          IN IF f.group = "New" THEN Going(b, f.mut, f.dpy)
             ELSE Going([b EXCEPT !.index = @ + 1], f.mut,
                        FakeKey(f.dpy, f.code, press, a.syms[index]))

\* RunAct::MouseClick
RunClick(a, m, d) ==
  LET clicked == FakeButton(d, a.n, a.pressing)
  IN IF a.pressing THEN Going([a EXCEPT !.pressing = FALSE], m, clicked)
                   ELSE Finished(m, clicked)

Run(a, m, d) ==
  CASE a.kind = "text"  -> RunText(a, m, d)
    [] a.kind = "keys"  -> RunKeys(a, m, d)
    [] a.kind = "mouse" -> RunClick(a, m, d)

-----------------------------------------------------------------------------
(* Xdo::proc, called before Main awaits an event, performs the action in   *)
(* progress, or types one key again, or begins an action.                  *)

Begun(a) == [kind |-> a.kind, syms |-> a.syms, n |-> a.n,
             index |-> 1, pressing |-> TRUE, shifted |-> FALSE]

\* sing has nothing to run, or proc ends at once: the next one is begun.
AtOnce(a) == a.kind \in {"exec", "repeat"} \/ (a.kind \in {"text", "keys"} /\ a.syms = <<>>)

\* proc takes n actions from the queue: all that end at once, or up to one
\* that does not.
Slow(n)  == n > 0 /\ ~AtOnce(acts[n])
Takes(n) == (\A i \in 1 .. n - 1 : AtOnce(acts[i])) /\ (Slow(n) \/ n = Len(acts))

Act(a, m, d, pause) ==
  LET r == Run(a, m, d)
  IN acting' = r.act /\ mutSyms' = r.mut /\ dpy' = r.dpy /\ paused' = pause

\* The rest of proc, after the action in progress if there was one.
Replay(d) ==
  /\ replay # <<>>
  /\ dpy' = FakeKey(d, Head(replay).code, Head(replay).press, NoSym)
  /\ replay' = Tail(replay)
  /\ acting' = NoAct /\ paused' = TRUE
  /\ UNCHANGED <<acts, did>>

\* The pause after the first step of an action is returned to Main, and not
\* kept in resume: proc goes on as soon as Main has an event.
Begin(m, d) ==
  /\ replay = <<>> /\ UNCHANGED replay
  /\ \E n \in 0 .. Len(acts) :
       /\ Takes(n)
       /\ acts' = SubSeq(acts, n + 1, Len(acts))
       /\ did' = did \o SubSeq(acts, 1, n)
       /\ IF Slow(n) THEN Act(Begun(acts[n]), m, d, FALSE)
                     ELSE acting' = NoAct /\ mutSyms' = m /\ dpy' = d /\ paused' = FALSE

\* Mutant: keys are typed again while an action is in progress.
ProcReplayFirst ==
  /\ running /\ ~paused
  /\ \/ /\ replay # <<>> /\ replay' = Tail(replay)
        /\ dpy' = FakeKey(dpy, Head(replay).code, Head(replay).press, NoSym)
        /\ paused' = TRUE /\ UNCHANGED <<acts, did, acting, mutSyms>>
     \/ /\ replay = <<>> /\ acting = NoAct /\ acts # <<>> /\ Begin(mutSyms, dpy)
     \/ /\ replay = <<>> /\ acting # NoAct
        /\ Act(acting, mutSyms, dpy, Run(acting, mutSyms, dpy).act # NoAct)
        /\ UNCHANGED <<acts, replay, did>>
  /\ UNCHANGED <<lastAdd, appMap, running, replug, histVars>>

Proc ==
  /\ running /\ ~paused
  /\ LET r == IF acting = NoAct THEN Finished(mutSyms, dpy)
                                ELSE Run(acting, mutSyms, dpy)
     IN \/ /\ r.act # NoAct
           /\ Act(acting, mutSyms, dpy, TRUE)
           /\ UNCHANGED <<acts, replay, did>>
        \/ /\ r.act = NoAct /\ Replay(r.dpy) /\ mutSyms' = r.mut
        \/ /\ r.act = NoAct /\ (acting # NoAct \/ acts # <<>>) /\ Begin(r.mut, r.dpy)
  /\ UNCHANGED <<lastAdd, appMap, running, replug, histVars>>

\* Time goes by until resume; an application gets on with its reading.
Elapse ==
  /\ paused /\ Len(dpy.inbox) <= Lag /\ paused' = FALSE
  /\ UNCHANGED <<queueVars, acting, mutSyms, dpy, appMap, running, replug, did, histVars>>

-----------------------------------------------------------------------------
(* What Main calls.                                                        *)

Repeated(n) == [i \in 1 .. n * Len(lastAdd) |-> lastAdd[((i - 1) % Len(lastAdd)) + 1]]

\* Mutant: last_add is not cleared.
AddActsKeeps(l) ==
  IF Head(l).kind = "repeat"
    THEN acts' = acts \o Repeated(Head(l).n) \o Tail(l) /\ UNCHANGED lastAdd
    ELSE acts' = acts \o l /\ lastAdd' = lastAdd \o l

\* add_acts
AddActs(l) ==
  IF Head(l).kind = "repeat"
    THEN acts' = acts \o Repeated(Head(l).n) \o Tail(l) /\ UNCHANGED lastAdd
    ELSE acts' = acts \o l /\ lastAdd' = l

\* Whenever the user has let go of every key, Main calls pass_key for what
\* query_keys_down lists, which may be keys an action holds; the server may
\* not have come to the last of them yet.
Unpress ==
  \E S \in SUBSET (dpy.pressed \cap Codes) :
    /\ dpy' = [dpy EXCEPT !.pressed = @ \ S]
    /\ loosed' = (loosed \/ (acting # NoAct /\ acting.shifted /\ ShiftKey \in S))

Recognise(l) ==
  /\ running /\ Len(lines) < MaxLines /\ lines' = Append(lines, l)
  /\ Unpress /\ AddActs(l)
  /\ UNCHANGED <<replay, paused, acting, mutSyms, appMap, running, replug,
                 did, replays, plugs>>

\* add_unmatch
AddUnmatch(s) ==
  replay' = IF Len(s) > MaxReplay THEN replay ELSE replay \o s

\* A sequence is typed again, unless it has none but modifiers or the
\* applications had it.
NotRecognise ==
  /\ running /\ replays < MaxReplays /\ replays' = replays + 1
  /\ Unpress
  /\ UNCHANGED replay \/ \E s \in Unmatched : AddUnmatch(s)
  /\ UNCHANGED <<acts, lastAdd, paused, acting, mutSyms, appMap, running,
                 replug, did, lines, plugs>>

\* A keyboard comes with a map of its own.
Plug ==
  /\ plugs < MaxPlugs /\ plugs' = plugs + 1
  /\ running /\ replug' = TRUE
  /\ dpy' = [kmap  |-> [c \in SpareCodes |-> NoSym], pressed |-> dpy.pressed,
             inbox |-> Append(dpy.inbox, MappingNotify)]
  /\ UNCHANGED <<queueVars, paused, acting, mutSyms, appMap, running, did, lines, replays, loosed>>

\* The spare keycodes in use, and all of them mapped anew, one after another.
InUse == {m \in ToSet(mutSyms) : m.sym # NoSym}

RemapAll(kmap) ==
  [kmap  |-> kmap, pressed |-> dpy.pressed,
   inbox |-> dpy.inbox \o [i \in 1 .. Cardinality(InUse) |-> MappingNotify]]

\* Mutant: only the keycode mapped last is mapped again.
AffirmFront ==
  IF mutSyms[1].sym = NoSym THEN dpy ELSE Remap(dpy, mutSyms[1].code, mutSyms[1].sym)

\* SymCode::affirm maps the keycodes in use again.
Affirm ==
  RemapAll([c \in SpareCodes |->
    IF \E m \in InUse : m.code = c THEN (CHOOSE m \in InUse : m.code = c).sym
                                   ELSE dpy.kmap[c]])

\* ondevchange, when add_dev handles the hierarchy event.
OnDevChange ==
  /\ running /\ replug /\ replug' = FALSE
  /\ dpy' = Affirm
  /\ UNCHANGED <<queueVars, paused, acting, mutSyms, appMap, running, did, histVars>>

\* Drop for SymCode, when Main is dropped.
Quit ==
  /\ running /\ running' = FALSE
  /\ dpy' = RemapAll([c \in SpareCodes |->
               IF \E m \in InUse : m.code = c THEN NoSym ELSE dpy.kmap[c]])
  /\ UNCHANGED <<queueVars, paused, acting, mutSyms, appMap, replug, did, histVars>>

-----------------------------------------------------------------------------
(* The application.                                                        *)

AppRead ==
  /\ dpy.inbox # <<>> /\ dpy' = [dpy EXCEPT !.inbox = Tail(@)]
  /\ appMap' = IF Head(dpy.inbox) = MappingNotify THEN dpy.kmap ELSE appMap
  /\ UNCHANGED <<queueVars, paused, acting, mutSyms, running, replug, did, histVars>>

Calls == \/ \E l \in Lines : Recognise(l)
         \/ NotRecognise \/ OnDevChange \/ Quit

Next == Proc \/ Elapse \/ Calls \/ Plug \/ AppRead

Spec == Init /\ [][Next]_vars

\* Main calls proc before it awaits an event, and awaits it no longer than
\* proc asks for; an application reads what it is sent.
FairSpec == Spec /\ WF_vars(Proc) /\ WF_vars(Elapse) /\ WF_vars(AppRead)

-----------------------------------------------------------------------------
(* Properties. *)

\* What the application takes a key for.
Meaning(e) ==
  IF e.code \in SpareCodes THEN appMap[e.code]
  ELSE LET level(b) == {s \in DOMAIN Layout : Layout[s] = [code |-> e.code, shift |-> b]}
       IN IF e.shift /\ level(TRUE) # {} THEN CHOOSE s \in level(TRUE) : TRUE
                                         ELSE CHOOSE s \in level(FALSE) : TRUE

\* An application as slow as Lag takes each key for the symbol it was typed
\* for: find_sym goes round the spare keycodes so that none is mapped anew
\* while a key on it is still unread (key_changer.rs:117).  Only a symbol that
\* needs Shift may be taken for another, and only if Main let go of Shift
\* between the two (lib.rs:127).
TypedRight ==
  running /\ dpy.inbox # <<>> => LET e == Head(dpy.inbox) IN
    e # MappingNotify /\ e.want # NoSym =>
      \/ Meaning(e) = e.want
      \/ loosed /\ ~e.shift /\ e.want \in DOMAIN Layout /\ Layout[e.want].shift

Idle == running /\ acts = <<>> /\ replay = <<>> /\ acting = NoAct

\* Between actions no key is left down, Shift included (dispatch.rs:158-169).
AllReleased == Idle => dpy.pressed = {}

\* The server's map is what mut_syms says, but for a keyboard whose event is
\* still to be read, and nothing of it is left when kseqi exits.
MapTrue ==
  /\ running /\ ~replug => \A m \in ToSet(mutSyms) : dpy.kmap[m.code] = m.sym
  /\ ~running => \A c \in SpareCodes : dpy.kmap[c] = NoSym

\* Typing again and performing do not mix: an action is begun with no key down,
\* and one in progress has ended and let go of its keys before a key is typed
\* again (dispatch.rs:82-100).
Apart ==
  [][/\ did' # did => dpy.pressed \cap Codes = {}
     /\ acting # NoAct /\ Len(replay') < Len(replay) =>
          acting' = NoAct /\ dpy.pressed \cap Codes = {}]_vars

\* What a user has asked for: the actions of the lines in order, where a line
\* that begins with repeat stands for the line of the sequence recognised
\* last that does not ("Repeat the most recent action", configuration.md:78).
Ask(r, l) ==
  IF Head(l).kind = "repeat"
    THEN [out |-> r.out \o FlattenSeq([i \in 1 .. Head(l).n |-> r.last]) \o Tail(l), last |-> r.last]
    ELSE [out |-> r.out \o l, last |-> l]

Asked(ls) ==
  LET asked[n \in 0 .. Len(ls)] ==
        IF n = 0 THEN [out |-> <<>>, last |-> <<>>] ELSE Ask(asked[n - 1], ls[n])
  IN asked[Len(ls)]

\* Actions are begun in the order they were asked for, each as often.
InOrder == did \o acts = Asked(lines).out

\* What an application is sent: the symbol it should read, the key that is
\* typed again, a change of the map.
Sent(e) == IF e = MappingNotify THEN MappingNotify
           ELSE IF e.want # NoSym THEN e.want ELSE e.code

\* The symbols of an action that are still to be pressed.
Unpressed(a) ==
  IF a = NoAct \/ a.kind = "mouse" \/ (a.kind = "keys" /\ ~a.pressing) THEN <<>>
  ELSE SubSeq(a.syms, IF a.pressing THEN a.index ELSE a.index + 1, Len(a.syms))

\* Applications get the symbols of each action once and in order, although
\* find_sym is asked for each up to four times and what is typed spreads over
\* as many calls of proc; and what is typed again comes between two actions
\* and not amid the symbols of one (dispatch.rs:77-177).
T == INSTANCE Typist WITH
       now   <- Unpressed(acting),
       wire  <- [i \in DOMAIN dpy.inbox |-> Sent(dpy.inbox[i])],
       over  <- ~running,
       Aside <- {MappingNotify, ShiftKey}

TypesAsAsked == T!Spec

\* Every queue is worked off in the end.
Drains == (acting # NoAct \/ acts # <<>> \/ replay # <<>>) ~> (Idle \/ ~running)
=============================================================================
