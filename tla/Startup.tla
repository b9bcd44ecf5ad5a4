------------------------------ MODULE Startup ------------------------------
(***************************************************************************)
(* run of src/lib.rs from beginning to end, and what it calls on its way   *)
(* to the loop: find_dev, load_mapping up to the text of the configuration *)
(* file, setup_device, SymCode::new and Main::new.  Everything is asked of *)
(* the server, or of the file system, at a moment of its own, and what it  *)
(* said may no longer be true a step later: devices come and go, another   *)
(* keyboard map is loaded, the user writes a configuration, and kseqi may  *)
(* be killed and started again.                                            *)
(*                                                                         *)
(* In the loop, only the reports about devices, the loan of spare keycodes *)
(* and the end are modelled; the rest is Main's and Xdo's.                 *)
(***************************************************************************)
EXTENDS Keymap

CONSTANTS
  Desc,      \* the devices there may be, each with its use, keys and mark
  Fixed,     \* those that are always there
  NoDev,     \* no device
  Layouts,   \* the keyboard maps there may be, each with its modifier map
  Typed,     \* the row of a keycode on loan
  MaxPlugs,  \* bound: how many times a device comes or goes
  MaxCrashes \* bound: how many times kseqi is killed

Devices == DOMAIN Desc
Use     == {"MasterPointer", "MasterKeyboard", "SlavePointer", "SlaveKeyboard", "FloatingSlave"}

ASSUME StartupAssumption ==
  /\ \A d \in Devices : Desc[d].use \in Use
  /\ Fixed \subseteq Devices /\ NoDev \notin Devices
  /\ {MaxPlugs, MaxCrashes} \subseteq Nat
  /\ \A l \in Layouts : /\ l = [rows |-> l.rows, mods |-> l.mods]
                        /\ l.mods \in Seq(Nat)
                        /\ \E p \in 1 .. 8 : Len(l.mods) = 8 * p
                        /\ l.rows = [k \in DOMAIN l.rows |-> l.rows[k]]
                        /\ DOMAIN l.rows \subseteq 0 .. 255
  /\ Typed \in Seq(ToSet(Typed))

VARIABLES
  pc,         \* where run is
  todo,       \* the devices still to look at, or to set up
  devs,       \* Devs::devs
  xtdev,      \* the device to type with, or NoDev
  loaded,     \* the configuration read
  keycodeMod, \* MapBuilder::keycode_mod
  modifiers,  \* Main::modifiers
  defSyms,    \* SymCode::def_syms
  spares,     \* the keycodes of SymCode::mut_syms
  used,       \* those of them on loan
  present,    \* the devices there are
  selected,   \* whether hierarchy changes are reported
  heard,      \* the devices whose key events are selected
  reports,    \* the reports not read yet
  layout,     \* the server's keyboard map and modifier map
  file,       \* the configuration file
  gap,        \* history: the devices that came or went unreported since listed
  lost,       \* history: whether xtdev has gone since it was opened
  orig,       \* history: the keyboard map SymCode::new saw
  relaid,     \* history: whether another was loaded since the start
  plugs,      \* history: how many times devices came or went
  crashes     \* history: how many times kseqi was killed

mapVars   == <<keycodeMod, modifiers, defSyms, spares, used, orig>>
devVars   == <<todo, devs, xtdev, heard>>
worldVars == <<present, selected, reports, gap, lost, layout, relaid, plugs, crashes>>
vars      == <<pc, devVars, loaded, mapVars, worldVars, file>>

Flags   == {"MasterAdded", "SlaveAdded", "SlaveRemoved", "DeviceEnabled", "DeviceDisabled"}
Reports == [dev: Devices, flag: Flags, enabled: BOOLEAN]
Found   == {"map", "conf", "create", "write", "read", "select", "setup", "main", "run"}
Missing == {"find", "look", "failed", "exited"}

TypeOK ==
  /\ pc \in Found \cup Missing
  /\ todo \subseteq Devices /\ devs \subseteq Devices /\ heard \subseteq present
  /\ xtdev \in Devices \cup {NoDev}
  /\ pc \in Found => xtdev # NoDev
  /\ pc \in Found \ {"run"} => devs # {}
  /\ loaded \in {"none", "empty", "example", "user"}
  /\ pc = "run" => loaded # "none" /\ spares # <<>>
  /\ used \subseteq ToSet(spares)
  /\ Fixed \subseteq present /\ present \subseteq Devices
  /\ reports \in Seq(Reports)
  /\ file \in {"absent", "created", "empty", "example", "user"}
  /\ plugs \in 0 .. MaxPlugs /\ crashes \in 0 .. MaxCrashes

\* A kseqi that has just been started: Xconn::new has connected to the server.
Fresh ==
  /\ pc' = "find" /\ todo' = {} /\ devs' = {} /\ xtdev' = NoDev /\ loaded' = "none"
  /\ keycodeMod' = {} /\ modifiers' = {} /\ defSyms' = <<>> /\ spares' = <<>> /\ used' = {}
  /\ orig' = <<>> /\ selected' = FALSE /\ heard' = {} /\ reports' = <<>>
  /\ gap' = {} /\ lost' = FALSE /\ relaid' = FALSE

Init ==
  /\ pc = "find" /\ todo = {} /\ devs = {} /\ xtdev = NoDev /\ loaded = "none"
  /\ keycodeMod = {} /\ modifiers = {} /\ defSyms = <<>> /\ spares = <<>> /\ used = {}
  /\ orig = <<>> /\ selected = FALSE /\ heard = {} /\ reports = <<>>
  /\ gap = {} /\ lost = FALSE /\ relaid = FALSE
  /\ present \in {p \in SUBSET Devices : Fixed \subseteq p}
  /\ layout \in Layouts /\ file \in {"absent", "user"}
  /\ plugs = 0 /\ crashes = 0

Goto(l) == pc' = l

-----------------------------------------------------------------------------
(* What kseqi asks of the server; the answer is about this moment. *)

\* codes_syms and modifier_codes
CodesSyms     == layout.rows
ModifierCodes == layout.mods

IsSlave(u) == u \in {"SlavePointer", "SlaveKeyboard", "FloatingSlave"}

\* class_infos: whether there is a class of keys that has any.
Keyed(d) == Desc[d].keyed

\* dev_props and get_dev_prop: a device that has gone seems to have no properties.
Mark(d) == IF d \in present THEN Desc[d].mark ELSE "none"

\* open_dev
Opens(d) == d \in present

\* select_dev_events: for a device that has gone it goes unnoticed.
SelectDevEvents(d) == heard' = heard \cup ({d} \cap present)

-----------------------------------------------------------------------------
(* find_dev *)

\* A slave with keys; every device that is there is enabled.
Wanted(d) == Keyed(d) /\ IsSlave(Desc[d].use)

\* Mutant: what happens to the devices is reported from the start.
FindSelected ==
  /\ pc = "find" /\ Goto("look")
  /\ todo' = {d \in present : Wanted(d)} /\ selected' = TRUE
  /\ UNCHANGED <<devs, xtdev, heard, loaded, mapVars, present, reports, gap, lost,
                 layout, relaid, plugs, crashes, file>>

\* query_device: the list of all devices.
Find ==
  /\ pc = "find" /\ Goto("look")
  /\ todo' = {d \in present : Wanted(d)}
  /\ UNCHANGED <<devs, xtdev, heard, loaded, mapVars, worldVars, file>>

\* Its properties are asked for, and it is opened, unless it is virtual.
Look(d) ==
  /\ pc = "look" /\ d \in todo /\ todo' = todo \ {d}
  /\ \/ Mark(d) = "virtual" /\ UNCHANGED <<pc, devs, xtdev>>
     \/ Mark(d) = "xtest" /\ Opens(d) /\ xtdev' = d /\ UNCHANGED <<pc, devs>>
     \/ Mark(d) = "none" /\ Opens(d) /\ devs' = devs \cup {d} /\ UNCHANGED <<pc, xtdev>>
     \/ Mark(d) # "virtual" /\ ~Opens(d) /\ Goto("failed") /\ UNCHANGED <<devs, xtdev>>
  /\ UNCHANGED <<heard, loaded, mapVars, worldVars, file>>

\* Mutant: that there is no keyboard goes unnoticed.
LookedLax ==
  /\ pc = "look" /\ todo = {} /\ Goto(IF xtdev = NoDev THEN "failed" ELSE "map")
  /\ UNCHANGED <<devVars, loaded, mapVars, worldVars, file>>

Looked ==
  /\ pc = "look" /\ todo = {}
  /\ Goto(IF xtdev = NoDev \/ devs = {} THEN "failed" ELSE "map")
  /\ UNCHANGED <<devVars, loaded, mapVars, worldVars, file>>

-----------------------------------------------------------------------------
(* load_mapping, and read_seq_file *)

\* MapBuilder::new
NewMapBuilder ==
  /\ pc = "map" /\ Goto("conf")
  /\ keycodeMod' = DOMAIN CodeMap(ModifierCodes)
  /\ UNCHANGED <<devVars, loaded, modifiers, defSyms, spares, used, orig, worldVars, file>>

IsFile ==
  /\ pc = "conf" /\ Goto(IF file = "absent" THEN "create" ELSE "read")
  /\ UNCHANGED <<devVars, loaded, mapVars, worldVars, file>>

\* Mutant: the file is opened whether it is new or not.
CreateOver ==
  /\ pc = "create" /\ Goto("write") /\ file' = "created"
  /\ UNCHANGED <<devVars, loaded, mapVars, worldVars>>

\* create_new
Create ==
  /\ pc = "create"
  /\ IF file = "absent" THEN Goto("write") /\ file' = "created"
                        ELSE Goto("failed") /\ UNCHANGED file
  /\ UNCHANGED <<devVars, loaded, mapVars, worldVars>>

\* The example is written to the file that was created, which may no longer
\* be the one of that name.
WriteExample ==
  /\ pc = "write" /\ Goto("read")
  /\ file' = IF file = "created" THEN "example" ELSE file
  /\ UNCHANGED <<devVars, loaded, mapVars, worldVars>>

Read ==
  /\ pc = "read" /\ Goto("select") /\ loaded' = file
  /\ UNCHANGED <<devVars, mapVars, worldVars, file>>

-----------------------------------------------------------------------------

\* select_change_events
Select ==
  /\ pc = "select" /\ Goto("setup") /\ selected' = TRUE /\ todo' = devs
  /\ UNCHANGED <<devs, xtdev, heard, loaded, mapVars, present, reports, gap, lost,
                 layout, relaid, plugs, crashes, file>>

\* setup_device: grabbing the keys of a device that has gone fails.  The
\* example has keys to grab, the user's file may.
Setup(d) ==
  /\ pc = "setup" /\ d \in todo /\ todo' = todo \ {d}
  /\ SelectDevEvents(d)
  /\ \/ (d \in present \/ loaded # "example") /\ UNCHANGED pc
     \/ d \notin present /\ loaded # "empty" /\ Goto("failed")
  /\ UNCHANGED <<devs, xtdev, loaded, mapVars, worldVars, file>>

\* Xdo::new and SymCode::new
NewSymCode ==
  /\ pc = "setup" /\ todo = {} /\ Goto("main")
  /\ defSyms' = SymKeyCode(CodesSyms) /\ spares' = Spares(CodesSyms)
  /\ orig' = CodesSyms
  /\ UNCHANGED <<devVars, loaded, keycodeMod, modifiers, used, worldVars, file>>

\* Main::new
NewMain ==
  /\ pc = "main" /\ Goto("run") /\ modifiers' = Modifiers(ModifierCodes)
  /\ UNCHANGED <<devVars, loaded, keycodeMod, defSyms, spares, used, orig, worldVars, file>>

-----------------------------------------------------------------------------
(* The loop *)

Added(r) ==
  \/ r.flag \in {"SlaveAdded", "SlaveAttached"} /\ r.enabled
  \/ r.flag = "DeviceEnabled" /\ IsSlave(Desc[r.dev].use)

\* Mutant: a device that goes away stays known.
RemovedNever(r) == r.flag = "SlaveDetached"

Removed(r) == r.flag \in {"SlaveRemoved", "SlaveDetached", "DeviceDisabled"}

\* The keyboard map with other rows for the keycodes on loan.
Rows(new(_)) ==
  [layout EXCEPT !.rows = [k \in DOMAIN @ |-> IF k \in used THEN new(@[k]) ELSE @[k]]]

\* affirm: a new device came with a keyboard map of its own.
Affirm == Rows(LAMBDA row : Typed)

\* proc_hier and add_dev, for one flag of a report.  A device that has gone
\* has no description: query_device makes a null pointer and a length of -1
\* into a slice, so that none is found, or the process ends.
ProcHier ==
  /\ pc = "run" /\ reports # <<>> /\ reports' = Tail(reports)
  /\ LET r     == Head(reports)
         there == Added(r) /\ r.dev \in present
         adds  == there /\ Keyed(r.dev) /\ r.dev \notin devs
     IN /\ layout' = IF there THEN Affirm ELSE layout
        /\ devs' = IF adds THEN devs \cup {r.dev}
                   ELSE IF Removed(r) THEN devs \ {r.dev} ELSE devs
        /\ IF adds THEN SelectDevEvents(r.dev) ELSE UNCHANGED heard
        /\ UNCHANGED pc \/ (Added(r) /\ ~there /\ Goto("failed"))
  /\ UNCHANGED <<todo, xtdev, loaded, mapVars, present, selected, gap, lost,
                 relaid, plugs, crashes, file>>

Lent(k) == [layout EXCEPT !.rows[k] = Typed]

\* find_sym: a spare keycode is given a symbol.
Lend(k) ==
  /\ pc = "run" /\ k \in ToSet(spares) \ used
  /\ used' = used \cup {k} /\ layout' = Lent(k)
  /\ UNCHANGED <<pc, devVars, loaded, keycodeMod, modifiers, defSyms, spares, orig,
                 present, selected, reports, gap, lost, relaid, plugs, crashes, file>>

Emptied(row) == [i \in DOMAIN row |-> NoSym]

\* Mutant: the keycodes keep their symbols.
DropNone == layout

\* drop of SymCode: the symbols of the keycodes on loan are taken away.
Drop == Rows(Emptied)

Quit ==
  /\ pc = "run" /\ Goto("exited") /\ layout' = Drop /\ used' = {}
  /\ selected' = FALSE /\ heard' = {} /\ reports' = <<>>
  /\ UNCHANGED <<todo, devs, xtdev, loaded, keycodeMod, modifiers, defSyms, spares, orig,
                 present, gap, lost, relaid, plugs, crashes, file>>

-----------------------------------------------------------------------------
(* The world, as long as kseqi is there. *)

There == pc \notin {"failed", "exited"}

Report(d, flag, en) == [dev |-> d, flag |-> flag, enabled |-> en]

\* What is not reported is missed, unless kseqi has yet to list the devices.
Told(d, rs) ==
  /\ There /\ plugs < MaxPlugs /\ plugs' = plugs + 1
  /\ reports' = IF selected THEN reports \o rs ELSE reports
  /\ gap' = IF selected \/ pc = "find" THEN gap ELSE gap \cup {d}
  /\ UNCHANGED <<pc, todo, devs, xtdev, loaded, mapVars, selected, layout, relaid, crashes, file>>

Plug(d) ==
  /\ d \notin present /\ present' = present \cup {d} /\ UNCHANGED <<heard, lost>>
  /\ Told(d, <<Report(d, IF IsSlave(Desc[d].use) THEN "SlaveAdded" ELSE "MasterAdded", FALSE),
               Report(d, "DeviceEnabled", TRUE)>>)

Unplug(d) ==
  /\ d \in present \ Fixed /\ present' = present \ {d} /\ heard' = heard \ {d}
  /\ lost' = (lost \/ d = xtdev)
  /\ Told(d, <<Report(d, "DeviceDisabled", FALSE), Report(d, "SlaveRemoved", FALSE)>>)

\* setxkbmap, which loads every key anew.
Relayout ==
  /\ There /\ ~relaid /\ relaid' = TRUE /\ layout' \in Layouts \ {layout}
  /\ UNCHANGED <<pc, devVars, loaded, mapVars, present, selected, reports, gap, lost, plugs,
                 crashes, file>>

\* The user's editor puts a file of its own in the place of what is there (it
\* is of no interest once kseqi has read it).
UserWrites ==
  /\ There /\ loaded = "none" /\ file # "user" /\ file' = "user"
  /\ UNCHANGED <<pc, devVars, loaded, mapVars, worldVars>>

\* kseqi is killed, and started again.
Crash ==
  /\ There /\ crashes < MaxCrashes /\ crashes' = crashes + 1 /\ Fresh
  /\ file' = IF file = "created" THEN "empty" ELSE file
  /\ UNCHANGED <<present, layout, plugs>>

Next ==
  \/ Find \/ (\E d \in Devices : Look(d)) \/ Looked
  \/ NewMapBuilder \/ IsFile \/ Create \/ WriteExample \/ Read
  \/ Select \/ (\E d \in Devices : Setup(d)) \/ NewSymCode \/ NewMain
  \/ ProcHier \/ (\E k \in ToSet(spares) : Lend(k)) \/ Quit
  \/ (\E d \in Devices : Plug(d) \/ Unplug(d)) \/ Relayout \/ UserWrites \/ Crash

Spec == Init /\ [][Next]_vars

-----------------------------------------------------------------------------
(* Properties. *)

Keyboard(d) == Wanted(d) /\ Desc[d].mark = "none"

\* Once every report is read, every keyboard there is is listened to, unless
\* it came or went after the devices were listed and before changes were
\* reported (lib.rs:29 and 45); and nothing is known that has gone.
Heard ==
  pc = "run" /\ reports = <<>> =>
    /\ \A d \in present \ gap : Keyboard(d) => d \in devs /\ d \in heard
    /\ devs \subseteq present \cup gap

\* kseqi never listens to the device it types with, or it would take its own
\* keys for the user's.  find_dev leaves the device out and add_dev would not
\* (lib.rs:250): this holds because a device that was listed is not reported,
\* unless it goes and another of its number comes.
NotItself == xtdev \in devs => lost

\* The keycodes that are lent have no symbols to type with, as long as there
\* are enough keycodes (Xdo assumes it).
SparesFree ==
  Unassigned(orig) # <<>> =>
    ToSet(spares) \cap {defSyms[s].code : s \in DOMAIN defSyms} = {}

\* A key that Main takes for a modifier is one that a grab was made up with.
SameModifiers == pc = "run" /\ ~relaid => modifiers = keycodeMod

\* kseqi leaves the keys that were in use as it found them.
LeavesMap ==
  pc = "exited" /\ ~relaid /\ Unassigned(orig) # <<>> =>
    /\ \A k \in InUse(orig) : layout.rows[k] = orig[k]
    /\ InUse(layout.rows) = InUse(orig)

\* What the user has written is never overwritten, whenever it was written.
UserFileKept == [][file = "user" => file' = "user"]_vars
=============================================================================
