------------------------------ MODULE XServer ------------------------------
(***************************************************************************)
(* The X server, the keyboards and the user, as far as kseqi relies on     *)
(* them.  None of this is code of the repository: every definition is read *)
(* off the way src/ uses the server.                                       *)
(*                                                                         *)
(*  - A key with a passive grab on a keyboard, pressed with exactly the    *)
(*    grab's modifiers, floats the keyboard until that key is released;    *)
(*    an explicit grab floats it until it is ungrabbed.  (This is why      *)
(*    proc_xin_devent asks dev_floating and then calls grab_device.)       *)
(*  - The keys of a floating keyboard reach kseqi only.  Those of another  *)
(*    keyboard reach both kseqi and the applications.                      *)
(*  - The server reports events in order, and kseqi reads them later: the  *)
(*    user goes on typing meanwhile.                                       *)
(*  - kseqi has two connections: Xconn::newx opens one of its own, and     *)
(*    with_xl keeps another.  Events, grabs and queries are on the first,  *)
(*    the faked keys on the second, flushed but never awaited: the server  *)
(*    may come to them after later requests on the first.                  *)
(***************************************************************************)
EXTENDS Integers, Sequences, FiniteSets

CONSTANTS
  Keyboards,  \* device ids of the keyboards
  Keys,       \* keycodes
  Modifiers,  \* the keycodes that are modifiers
  Grabs,      \* <<key, modifiers>>: what Mapping::setup_device grabs
  StartHeld,  \* the keys the user holds while kseqi starts
  NoKey,      \* keycode 0, no key
  MaxPresses, \* bound: how many keys the user presses
  MaxBacklog, \* bound: how many reports kseqi is behind the user
  MaxPlugs    \* bound: how many times a keyboard is plugged, floated...

ASSUME XServerAssumption ==
  /\ Modifiers \subseteq Keys /\ IsFiniteSet(Modifiers)
  /\ StartHeld \subseteq Keys
  /\ NoKey \notin Keys
  /\ Grabs \subseteq (Keys \ Modifiers) \X SUBSET Modifiers
  /\ {MaxPresses, MaxBacklog, MaxPlugs} \subseteq Nat

VARIABLES
  plugged,   \* the keyboards the server has enabled
  detached,  \* the keyboards floated by someone else (xinput float)
  selected,  \* the keyboards whose key events kseqi has selected
  armed,     \* the passive grabs in place on each keyboard
  held,      \* the keys physically down on each keyboard
  passive,   \* the key whose passive grab is active on a keyboard, or NoKey
  active,    \* the keyboards kseqi has grabbed explicitly
  core,      \* the keys the applications believe down (XQueryKeymap)
  events,    \* the reports kseqi has not read yet
  fakes,     \* the keys kseqi has faked and the server has not come to
  due,       \* history: for each key and modifiers, how many of the user's
             \* presses the applications are still owed (negative: had twice)
  presses,   \* history: presses so far, for the bound
  plugs      \* history: hotplug operations so far, for the bound

setup   == <<plugged, detached, selected, armed, plugs>>
srvVars == <<plugged, detached, selected, armed, held, passive, active,
             core, events, fakes, due, presses, plugs>>

KeyEvent  == [kind: {"key"}, dev: Keyboards, code: Keys, press: BOOLEAN]
HierEvent == [kind: {"hier"}, dev: Keyboards, enabled: BOOLEAN,
              flag: {"SlaveAdded", "SlaveRemoved", "SlaveAttached",
                     "SlaveDetached", "DeviceEnabled", "DeviceDisabled"}]

\* A key, and the modifiers down with it.
Stroke == (Keys \ Modifiers) \X SUBSET Modifiers

\* XTestFakeDeviceKeyEvent, once for each of the codes.
FakeEvent == [codes: SUBSET Keys, press: BOOLEAN]

KeyReport(d, k, p)   == [kind |-> "key", dev |-> d, code |-> k, press |-> p]
HierReport(d, f, en) == [kind |-> "hier", dev |-> d, flag |-> f, enabled |-> en]

XTypeOK ==
  /\ plugged \in SUBSET Keyboards
  /\ detached \in SUBSET Keyboards
  /\ selected \in SUBSET Keyboards
  /\ armed \in [Keyboards -> SUBSET Grabs]
  /\ held \in [Keyboards -> SUBSET Keys]
  /\ passive \in [Keyboards -> Keys \cup {NoKey}]
  /\ active \in SUBSET Keyboards
  /\ core \in SUBSET Keys
  /\ events \in Seq(KeyEvent \cup HierEvent)
  /\ fakes \in Seq(FakeEvent)
  /\ due \in [Stroke -> Int]
  /\ presses \in 0 .. MaxPresses
  /\ plugs \in 0 .. MaxPlugs

\* kseqi has set every keyboard up; the user may be holding the key that
\* started it, which the applications have seen go down.
XInit ==
  /\ plugged = Keyboards /\ detached = {} /\ selected = Keyboards
  /\ armed = [d \in Keyboards |-> Grabs]
  /\ held \in [Keyboards -> {{}, StartHeld}]
  /\ core = UNION {held[d] : d \in Keyboards}
  /\ passive = [d \in Keyboards |-> NoKey] /\ active = {}
  /\ events = <<>> /\ fakes = <<>>
  /\ due = [u \in Stroke |-> 0] /\ presses = 0 /\ plugs = 0

\* XIQueryDevice: is the keyboard detached from the master keyboard?
Floating(d) == d \in active \/ d \in detached \/ passive[d] # NoKey

-----------------------------------------------------------------------------
(* The user. *)

One(b) == IF b THEN 1 ELSE 0

\* The applications are owed some strokes more, and have had others.
Owed(more, had) ==
  [u \in Stroke |-> due[u] + One(u \in more) - One(u \in had)]

Report(d, k, press) ==
  events' = IF d \in selected THEN Append(events, KeyReport(d, k, press))
                              ELSE events

KeyDown(d, k) ==
  LET mods  == held[d] \cap Modifiers
      grabs == ~Floating(d) /\ <<k, mods>> \in armed[d]
  IN /\ d \in plugged /\ k \notin held[d]
     /\ presses < MaxPresses /\ presses' = presses + 1
     /\ held' = [held EXCEPT ![d] = @ \cup {k}]
     /\ passive' = IF grabs THEN [passive EXCEPT ![d] = k] ELSE passive
     /\ IF grabs \/ Floating(d)
          THEN due' = Owed({<<k, mods>>}, {}) /\ UNCHANGED core
          ELSE /\ due' = Owed({<<k, mods>>}, {<<k, core \cap Modifiers>>})
               /\ core' = core \cup {k}
     /\ Report(d, k, TRUE)
     /\ UNCHANGED <<setup, active, fakes>>

\* The release that ends a passive grab still goes to kseqi only.
KeyUp(d, k) ==
  /\ d \in plugged /\ k \in held[d]
  /\ held' = [held EXCEPT ![d] = @ \ {k}]
  /\ passive' = IF passive[d] = k THEN [passive EXCEPT ![d] = NoKey] ELSE passive
  /\ core' = IF Floating(d) THEN core ELSE core \ {k}
  /\ Report(d, k, FALSE)
  /\ UNCHANGED <<setup, active, fakes, due, presses>>

-----------------------------------------------------------------------------
(* Keyboards come and go.  Each flag of a hierarchy event is one report:   *)
(* proc_hier goes through the flags one by one.  The server releases the   *)
(* keys of a keyboard before it takes it away, floats it or attaches it.   *)

Hotplug(reports) ==
  /\ plugs < MaxPlugs /\ plugs' = plugs + 1
  /\ events' = events \o reports
  /\ UNCHANGED <<held, core, fakes, due, presses>>

Plug(d) ==
  /\ d \notin plugged /\ plugged' = plugged \cup {d}
  /\ Hotplug(<<HierReport(d, "SlaveAdded", FALSE),
               HierReport(d, "DeviceEnabled", TRUE)>>)
  /\ UNCHANGED <<detached, selected, armed, passive, active>>

Unplug(d) ==
  /\ d \in plugged /\ held[d] = {}
  /\ plugged' = plugged \ {d} /\ detached' = detached \ {d}
  /\ selected' = selected \ {d} /\ armed' = [armed EXCEPT ![d] = {}]
  /\ passive' = [passive EXCEPT ![d] = NoKey] /\ active' = active \ {d}
  /\ Hotplug(<<HierReport(d, "DeviceDisabled", FALSE),
               HierReport(d, "SlaveRemoved", FALSE)>>)

\* xinput float and xinput reattach.
Detach(d) ==
  /\ d \in plugged \ detached /\ held[d] = {} /\ detached' = detached \cup {d}
  /\ Hotplug(<<HierReport(d, "SlaveDetached", TRUE)>>)
  /\ UNCHANGED <<plugged, selected, armed, passive, active>>

Reattach(d) ==
  /\ d \in detached /\ held[d] = {} /\ detached' = detached \ {d}
  /\ Hotplug(<<HierReport(d, "SlaveAttached", TRUE)>>)
  /\ UNCHANGED <<plugged, selected, armed, passive, active>>

-----------------------------------------------------------------------------
(* The requests kseqi makes. *)

\* XTestFakeDeviceKeyEvent and XFlush
Fake(codes, press) ==
  fakes' = Append(fakes, [codes |-> codes, press |-> press])

\* The server comes to the faked keys and the applications see them.
ServeFakes ==
  /\ fakes # <<>> /\ fakes' = Tail(fakes)
  /\ LET f == Head(fakes) IN
     /\ core' = IF f.press THEN core \cup f.codes ELSE core \ f.codes
     /\ due'  = IF f.press THEN Owed({}, f.codes \X {core \cap Modifiers})
                            ELSE due
  /\ UNCHANGED <<setup, held, passive, active, events, presses>>

\* XIGrabDevice: an explicit grab takes the place of the passive one.
GrabDevice(d) ==
  /\ active' = active \cup {d}
  /\ passive' = [passive EXCEPT ![d] = NoKey]

\* XCloseDevice releases what this client has grabbed of the device, actively
\* and passively.
CloseDevice(d) ==
  /\ armed' = [armed EXCEPT ![d] = {}]
  /\ active' = active \ {d}
  /\ passive' = [passive EXCEPT ![d] = NoKey]

\* XIUngrabDevice
UngrabDevice(d) ==
  /\ active' = active \ {d}
  /\ passive' = [passive EXCEPT ![d] = NoKey]
=============================================================================
