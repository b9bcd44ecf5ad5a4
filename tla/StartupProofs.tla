--------------------------- MODULE StartupProofs ---------------------------
(***************************************************************************)
(* What holds of every start of kseqi, whatever devices there are, however *)
(* often they come and go, and however often kseqi is killed.              *)
(***************************************************************************)
EXTENDS Startup, KeymapProofs, SequenceTheorems, TLAPS

-----------------------------------------------------------------------------
(* The user's file *)

\* No step of kseqi or of the world changes a file that the user has written
\* (read_seq_file, fs.rs:18-28).
THEOREM UserFileKeptThm == Spec => UserFileKept
<1>1. ASSUME [Next]_vars, file = "user" PROVE file' = "user"
  <2>1. CASE Find \/ Looked \/ NewMapBuilder \/ IsFile \/ Create \/ WriteExample \/ Read \/ Select
    BY <1>1, <2>1 DEF Find, Looked, NewMapBuilder, IsFile, Create, WriteExample, Read, Select
  <2>2. CASE (\E d \in Devices : Look(d) \/ Setup(d)) \/ NewSymCode \/ NewMain
    BY <1>1, <2>2 DEF Look, Setup, NewSymCode, NewMain
  <2>3. CASE ProcHier \/ (\E k \in ToSet(spares) : Lend(k)) \/ Quit
    BY <1>1, <2>3 DEF ProcHier, Lend, Quit
  <2>4. CASE (\E d \in Devices : Plug(d) \/ Unplug(d)) \/ Relayout \/ UserWrites \/ Crash
    BY <1>1, <2>4 DEF Plug, Unplug, Told, Relayout, UserWrites, Crash
  <2>5. CASE UNCHANGED vars
    BY <1>1, <2>5 DEF vars
  <2>. QED  BY <1>1, <2>1, <2>2, <2>3, <2>4, <2>5 DEF Next
<1>. QED  BY <1>1, PTL DEF Spec, UserFileKept

-----------------------------------------------------------------------------
(* The device kseqi types with *)

Adding(r) == r.flag \in {"SlaveAdded", "MasterAdded", "DeviceEnabled", "SlaveAttached"}

\* Until changes are reported, there are no reports; while the devices are
\* looked at, those that remain are neither known nor the one to type with;
\* and that one is there, is not known, and is not about to be, unless it has
\* gone at some time.
Deaf == pc \in {"find", "look", "map", "conf", "create", "write", "read", "select"}

IInv ==
  /\ present \subseteq Devices
  /\ xtdev \in Devices \cup {NoDev}
  /\ todo \subseteq Devices /\ devs \subseteq Devices
  /\ reports \in Seq(Reports)
  /\ Deaf => ~selected /\ reports = <<>>
  /\ pc = "find" => xtdev = NoDev /\ devs = {}
  /\ pc = "look" => xtdev \notin todo /\ todo \cap devs = {}
  /\ ~lost => /\ xtdev \in present \cup {NoDev} /\ xtdev \notin devs
              /\ \A i \in 1 .. Len(reports) : reports[i].dev = xtdev => ~Adding(reports[i])

LEMMA InitIInv == Init => IInv
  BY StartupAssumption DEF Init, IInv, Deaf

LEMMA NextIInv == IInv /\ [Next]_vars => IInv'
<1>. SUFFICES ASSUME IInv, [Next]_vars PROVE IInv'
  OBVIOUS
<1>. USE StartupAssumption
<1>1. CASE Find
  BY <1>1 DEF IInv, Deaf, Find, worldVars, Devices
<1>2. ASSUME NEW d \in Devices, Look(d) PROVE IInv'
  BY <1>2 DEF IInv, Deaf, Look, Opens, worldVars, Goto
<1>3. CASE Looked \/ NewMapBuilder \/ IsFile \/ Create \/ WriteExample \/ Read
  BY <1>3 DEF IInv, Deaf, Looked, NewMapBuilder, IsFile, Create, WriteExample, Read,
     worldVars, devVars, Goto
<1>4. CASE Select
  BY <1>4 DEF IInv, Deaf, Select, Goto
<1>5. ASSUME NEW d \in Devices, Setup(d) PROVE IInv'
  BY <1>5 DEF IInv, Deaf, Setup, worldVars, Goto
<1>6. CASE NewSymCode \/ NewMain
  BY <1>6 DEF IInv, Deaf, NewSymCode, NewMain, worldVars, devVars, Goto
<1>7. CASE ProcHier
  <2>1. reports \in Seq(Reports) /\ reports # <<>> /\ reports' = Tail(reports)
    BY <1>7 DEF IInv, ProcHier
  <2>2. /\ Head(reports) = reports[1] /\ Head(reports) \in Reports
        /\ reports' \in Seq(Reports)
        /\ Len(reports) \in Nat \ {0} /\ Len(reports') = Len(reports) - 1
    BY <2>1
  <2>3. \A i \in 1 .. Len(reports') : reports'[i] = reports[i + 1] /\ i + 1 \in 1 .. Len(reports)
    BY <2>1, <2>2
  <2>4. ~lost /\ Added(Head(reports)) => Head(reports).dev # xtdev
    BY <2>2 DEF IInv, Added, Adding
  <2>5. ~lost' => \A i \in 1 .. Len(reports') : reports'[i].dev = xtdev' => ~Adding(reports'[i])
    BY <1>7, <2>3 DEF IInv, ProcHier, Adding
  <2>. QED  BY <1>7, <2>2, <2>4, <2>5 DEF IInv, Deaf, ProcHier, Reports, Goto
<1>8. ASSUME NEW k, Lend(k) PROVE IInv'
  BY <1>8 DEF IInv, Deaf, Lend, devVars
<1>9. CASE Quit
  BY <1>9 DEF IInv, Deaf, Quit, Goto
<1>10. ASSUME NEW d \in Devices, NEW r1 \in Reports, NEW r2 \in Reports, Told(d, <<r1, r2>>)
       PROVE  /\ reports' \in Seq(Reports)
              /\ ~selected => reports' = reports
              /\ \A i \in 1 .. Len(reports') :
                   \/ i \in 1 .. Len(reports) /\ reports'[i] = reports[i]
                   \/ reports'[i] \in {r1, r2}
  <2>1. CASE ~selected
    BY <1>10, <2>1 DEF IInv, Told
  <2>2. CASE selected
    <3>1. reports \in Seq(Reports) /\ <<r1, r2>> \in Seq(Reports) /\ reports' = reports \o <<r1, r2>>
      BY <1>10, <2>2 DEF IInv, Told
    <3>. QED  BY <2>2, <3>1
  <2>. QED  BY <2>1, <2>2
<1>11. ASSUME NEW d \in Devices, Plug(d) PROVE IInv'
  <2>. DEFINE r1 == Report(d, IF IsSlave(Desc[d].use) THEN "SlaveAdded" ELSE "MasterAdded", FALSE)
              r2 == Report(d, "DeviceEnabled", TRUE)
  <2>1. r1 \in Reports /\ r2 \in Reports /\ r1.dev = d /\ r2.dev = d
    BY DEF Report, Reports, Flags
  <2>2. Told(d, <<r1, r2>>) /\ d \notin present /\ present' = present \cup {d} /\ lost' = lost
    BY <1>11 DEF Plug
  <2>3. UNCHANGED <<pc, todo, devs, xtdev, selected>>
    BY <2>2 DEF Told
  <2>. HIDE DEF r1, r2
  <2>4. /\ reports' \in Seq(Reports)
        /\ ~selected => reports' = reports
        /\ \A i \in 1 .. Len(reports') :
             (i \in 1 .. Len(reports) /\ reports'[i] = reports[i]) \/ reports'[i] \in {r1, r2}
    BY <1>10, <2>1, <2>2
  <2>5. ~lost => d # xtdev
    BY <2>2 DEF IInv
  <2>6. ~lost' => \A i \in 1 .. Len(reports') : reports'[i].dev = xtdev' => ~Adding(reports'[i])
    BY <2>1, <2>2, <2>3, <2>4, <2>5 DEF IInv, Adding
  <2>. QED  BY <2>2, <2>3, <2>4, <2>6 DEF IInv, Deaf
<1>12. ASSUME NEW d \in Devices, Unplug(d) PROVE IInv'
  <2>. DEFINE r1 == Report(d, "DeviceDisabled", FALSE)
              r2 == Report(d, "SlaveRemoved", FALSE)
  <2>1. r1 \in Reports /\ r2 \in Reports /\ ~Adding(r1) /\ ~Adding(r2)
    BY DEF Report, Reports, Flags, Adding
  <2>2. Told(d, <<r1, r2>>) /\ present' = present \ {d} /\ lost' = (lost \/ d = xtdev)
    BY <1>12 DEF Unplug
  <2>3. UNCHANGED <<pc, todo, devs, xtdev, selected>>
    BY <2>2 DEF Told
  <2>. HIDE DEF r1, r2
  <2>4. /\ reports' \in Seq(Reports)
        /\ ~selected => reports' = reports
        /\ \A i \in 1 .. Len(reports') :
             (i \in 1 .. Len(reports) /\ reports'[i] = reports[i]) \/ reports'[i] \in {r1, r2}
    BY <1>10, <2>1, <2>2
  <2>5. ~lost' => \A i \in 1 .. Len(reports') : reports'[i].dev = xtdev' => ~Adding(reports'[i])
    BY <2>1, <2>2, <2>3, <2>4 DEF IInv, Adding
  <2>. QED  BY <2>2, <2>3, <2>4, <2>5 DEF IInv, Deaf
<1>13. CASE Relayout \/ UserWrites
  BY <1>13 DEF IInv, Deaf, Relayout, UserWrites, devVars, worldVars
<1>14. CASE Crash
  BY <1>14 DEF IInv, Deaf, Crash, Fresh
<1>15. CASE UNCHANGED vars
  BY <1>15 DEF IInv, Deaf, vars, devVars, worldVars
<1>. QED
  BY <1>1, <1>2, <1>3, <1>4, <1>5, <1>6, <1>7, <1>8, <1>9, <1>11, <1>12, <1>13, <1>14, <1>15 DEF Next

\* kseqi never listens to the device it types with, as long as that device
\* stays: find_dev leaves it out, and nothing is reported of it to add_dev.
THEOREM NotItselfThm == Spec => []NotItself
<1>1. IInv => NotItself
  BY DEF IInv, NotItself
<1>. QED  BY InitIInv, NextIInv, <1>1, PTL DEF Spec

-----------------------------------------------------------------------------
(* The modifiers *)

\* A layout with a modifier map the server had from the beginning.
FromServer(l) ==
  /\ l = [rows |-> l.rows, mods |-> l.mods]
  /\ \E x \in Layouts : l.mods = x.mods

Built == {"conf", "create", "write", "read", "select", "setup", "main", "run"}

\* What was read of the modifier map is what there is, until another is loaded.
ModInv ==
  /\ FromServer(layout)
  /\ ~relaid /\ pc \in Built => keycodeMod = DOMAIN CodeMap(layout.mods)
  /\ ~relaid /\ pc = "run" => modifiers = Modifiers(layout.mods)

\* Lending keycodes, and taking them back, leaves the modifier map alone.
LEMMA RowsOnly ==
  ASSUME FromServer(layout)
  PROVE  /\ FromServer(Affirm) /\ Affirm.mods = layout.mods
         /\ FromServer(Drop) /\ Drop.mods = layout.mods
         /\ \A k : FromServer(Lent(k)) /\ Lent(k).mods = layout.mods
<1>1. ASSUME NEW R PROVE LET l == [layout EXCEPT !.rows = R]
                         IN FromServer(l) /\ l.mods = layout.mods
  BY DEF FromServer
<1>2. \E R : Affirm = [layout EXCEPT !.rows = R]
  BY DEF Affirm, Rows
<1>3. \E R : Drop = [layout EXCEPT !.rows = R]
  BY DEF Drop, Rows
<1>4. \A k : Lent(k) = [layout EXCEPT !.rows = [layout.rows EXCEPT ![k] = Typed]]
  BY DEF Lent
<1>. QED  BY <1>1, <1>2, <1>3, <1>4

LEMMA InitModInv == Init => ModInv
  BY StartupAssumption DEF Init, ModInv, FromServer, Built

LEMMA NextModInv == ModInv /\ [Next]_vars => ModInv'
<1>. SUFFICES ASSUME ModInv, [Next]_vars PROVE ModInv'
  OBVIOUS
<1>1. CASE Find \/ (\E d \in Devices : Look(d) \/ Setup(d)) \/ Looked
  BY <1>1 DEF ModInv, Built, Find, Look, Setup, Looked, worldVars, mapVars, Goto, FromServer
<1>2. CASE NewMapBuilder \/ IsFile \/ Create \/ WriteExample \/ Read
  BY <1>2 DEF ModInv, Built, NewMapBuilder, IsFile, Create, WriteExample, Read, ModifierCodes,
     worldVars, mapVars, Goto, FromServer
<1>3. CASE Select \/ NewSymCode \/ NewMain
  BY <1>3 DEF ModInv, Built, Select, NewSymCode, NewMain, ModifierCodes,
     worldVars, mapVars, Goto, FromServer
<1>4. CASE ProcHier \/ (\E k \in ToSet(spares) : Lend(k)) \/ Quit
  <2>1. FromServer(layout') /\ layout'.mods = layout.mods
    <3>1. layout' \in {layout, Affirm, Drop} \/ \E k : layout' = Lent(k)
      BY <1>4 DEF ProcHier, Lend, Quit
    <3>. QED  BY <3>1, RowsOnly DEF ModInv
  <2>. QED  BY <1>4, <2>1 DEF ModInv, Built, ProcHier, Lend, Quit, mapVars, Goto
<1>5. CASE \E d \in Devices : Plug(d) \/ Unplug(d)
  BY <1>5 DEF ModInv, Plug, Unplug, Told, mapVars, FromServer
<1>6. CASE Relayout
  <2>1. FromServer(layout')
    BY <1>6, StartupAssumption DEF Relayout, FromServer
  <2>. QED  BY <1>6, <2>1 DEF ModInv, Relayout
<1>7. CASE UserWrites \/ Crash \/ UNCHANGED vars
  BY <1>7 DEF ModInv, Built, UserWrites, Crash, Fresh, worldVars, mapVars, vars, FromServer
<1>. QED  BY <1>1, <1>2, <1>3, <1>4, <1>5, <1>6, <1>7 DEF Next

\* MapBuilder and Main read the modifier map apart and in different ways
\* (mod.rs:687-705), and find the same modifiers, unless another keyboard map
\* was loaded in between.
THEOREM SameModifiersThm == Spec => []SameModifiers
<1>1. ModInv => SameModifiers
  <2>. SUFFICES ASSUME ModInv, pc = "run", ~relaid PROVE modifiers = keycodeMod
    BY DEF SameModifiers
  <2>1. /\ modifiers = Modifiers(layout.mods)
        /\ keycodeMod = DOMAIN CodeMap(layout.mods)
    BY DEF ModInv, Built
  <2>2. PICK p \in 1 .. 8 : layout.mods \in Seq(Nat) /\ Len(layout.mods) = 8 * p
    BY StartupAssumption DEF ModInv, FromServer
  <2>. QED  BY <2>1, <2>2, ModifiersThm
<1>. QED  BY InitModInv, NextModInv, <1>1, PTL DEF Spec

-----------------------------------------------------------------------------
(* The keyboards listened to *)

Leaving(rs, d, i) == rs[i].dev = d /\ Removed(rs[i])
Enabling(rs, d, i) == rs[i].dev = d /\ rs[i].flag = "DeviceEnabled"

\* Nothing but DeviceEnabled makes kseqi take a device in; a device that is
\* enabled twice has left in between, and one that is not there has left since.
QueueInv ==
  /\ \A i \in 1 .. Len(reports) : Added(reports[i]) => reports[i].flag = "DeviceEnabled"
  /\ \A d \in Devices : \A k, i \in 1 .. Len(reports) :
       k < i /\ Enabling(reports, d, k) /\ Enabling(reports, d, i) =>
         \E j \in 1 .. Len(reports) : k < j /\ j < i /\ Leaving(reports, d, j)
  /\ \A d \in Devices \ present : \A k \in 1 .. Len(reports) :
       Enabling(reports, d, k) => \E j \in 1 .. Len(reports) : k < j /\ Leaving(reports, d, j)

\* A keyboard is known, with nothing to the contrary on the way; or it is on
\* its way, and if it is known, it has to leave before.
Settled(d) ==
  /\ d \in devs /\ d \in heard \cup todo
  /\ \A j \in 1 .. Len(reports) : ~Leaving(reports, d, j)

Coming(d) ==
  \E i \in 1 .. Len(reports) :
    /\ Enabling(reports, d, i)
    /\ \A j \in 1 .. Len(reports) : i < j => ~Leaving(reports, d, j)
    /\ d \in devs => \E j \in 1 .. Len(reports) : j < i /\ Leaving(reports, d, j)

Listed == {"map", "conf", "create", "write", "read", "select"}
Asked  == {"setup", "main", "run"}

HeardInv ==
  /\ ~selected => reports = <<>>
  /\ pc = "look" => \A d \in present \ gap : Keyboard(d) => d \in todo \cup devs
  /\ pc \in Listed => \A d \in present \ gap : Keyboard(d) => d \in devs
  /\ pc \in Asked => selected
  /\ pc \in {"main", "run"} => todo = {}
  /\ pc \in Asked => \A d \in present \ gap : Keyboard(d) => Settled(d) \/ Coming(d)
  /\ There => \A d \in devs \ (present \cup gap) :
                \E j \in 1 .. Len(reports) : Leaving(reports, d, j)

HInv == IInv /\ QueueInv /\ HeardInv

\* The reports after one is taken.
LEMMA Taken ==
  ASSUME NEW rs \in Seq(Reports), rs # <<>>
  PROVE  /\ Len(rs) \in Nat /\ Len(Tail(rs)) = Len(rs) - 1
         /\ \A i \in 1 .. Len(rs) - 1 :
              /\ Tail(rs)[i] = rs[i + 1]
              /\ \A d : /\ Leaving(Tail(rs), d, i) <=> Leaving(rs, d, i + 1)
                        /\ Enabling(Tail(rs), d, i) <=> Enabling(rs, d, i + 1)
<1>1. Len(rs) \in Nat /\ Len(Tail(rs)) = Len(rs) - 1
      /\ \A i \in 1 .. Len(rs) - 1 : Tail(rs)[i] = rs[i + 1]
  OBVIOUS
<1>. QED  BY <1>1 DEF Leaving, Enabling

\* Steps that leave the devices and the reports alone.
LEMMA Untouched ==
  ASSUME HInv, UNCHANGED <<present, devs, todo, heard, gap, reports, selected>>,
         \/ pc' = pc
         \/ pc \in Listed /\ pc' \in Listed
         \/ pc = "look" /\ todo = {} /\ pc' \in Listed
         \/ pc = "setup" /\ todo = {} /\ pc' = "main"
         \/ pc = "main" /\ pc' = "run"
         \/ pc' = "failed"
  PROVE  (QueueInv /\ HeardInv)'
  BY DEF HInv, QueueInv, HeardInv, Listed, Asked, Settled, Coming, There

LEMMA InitHInv == Init => HInv
<1>1. Init => QueueInv
  BY DEF Init, QueueInv
<1>2. Init => HeardInv
  BY DEF Init, HeardInv, Listed, Asked
<1>. QED  BY <1>1, <1>2, InitIInv DEF HInv

LEMMA ProcHierHInv == HInv /\ ProcHier => (QueueInv /\ HeardInv)'
<1>. SUFFICES ASSUME HInv, ProcHier PROVE (QueueInv /\ HeardInv)'
  OBVIOUS
<1>. DEFINE r == Head(reports)
            n == Len(reports)
<1>1. /\ reports \in Seq(Reports) /\ reports # <<>> /\ reports' = Tail(reports)
      /\ r = reports[1] /\ r \in Reports /\ n \in Nat \ {0} /\ Len(reports') = n - 1
  BY DEF ProcHier, HInv, IInv
<1>2. \A i \in 1 .. n - 1 :
        /\ reports'[i] = reports[i + 1]
        /\ \A d : /\ Leaving(reports', d, i) <=> Leaving(reports, d, i + 1)
                  /\ Enabling(reports', d, i) <=> Enabling(reports, d, i + 1)
  BY <1>1, Taken
<1>3. /\ pc = "run" /\ pc' \in {"run", "failed"} /\ UNCHANGED <<present, gap, todo, selected>>
      /\ present \subseteq Devices
  BY DEF ProcHier, Goto, HInv, IInv
<1>4. r.dev \in Devices /\ (Added(r) => ~Removed(r) /\ r.flag = "DeviceEnabled")
  BY <1>1 DEF HInv, QueueInv, Added, Removed, Reports
<1>. DEFINE adds == Added(r) /\ r.dev \in present /\ Keyed(r.dev) /\ r.dev \notin devs
<1>5. /\ devs' = IF adds THEN devs \cup {r.dev} ELSE IF Removed(r) THEN devs \ {r.dev} ELSE devs
      /\ adds => heard' = heard \cup {r.dev}
      /\ ~adds => heard' = heard
  BY DEF ProcHier, SelectDevEvents
<1>6. QueueInv'
  <2>1. \A i \in 1 .. n - 1 : Added(reports'[i]) => reports'[i].flag = "DeviceEnabled"
    BY <1>1, <1>2 DEF HInv, QueueInv
  <2>2. ASSUME NEW d \in Devices, NEW k \in 1 .. n - 1, NEW i \in 1 .. n - 1, k < i,
               Enabling(reports', d, k), Enabling(reports', d, i)
        PROVE  \E j \in 1 .. n - 1 : k < j /\ j < i /\ Leaving(reports', d, j)
    <3>1. Enabling(reports, d, k + 1) /\ Enabling(reports, d, i + 1)
          /\ k + 1 \in 1 .. n /\ i + 1 \in 1 .. n /\ k + 1 < i + 1
      BY <1>1, <1>2, <2>2
    <3>2. PICK j \in 1 .. n : k + 1 < j /\ j < i + 1 /\ Leaving(reports, d, j)
      BY <3>1 DEF HInv, QueueInv
    <3>3. j - 1 \in 1 .. n - 1 /\ k < j - 1 /\ j - 1 < i /\ (j - 1) + 1 = j
      BY <1>1, <3>2
    <3>. QED  BY <1>2, <3>2, <3>3
  <2>3. ASSUME NEW d \in Devices \ present, NEW k \in 1 .. n - 1, Enabling(reports', d, k)
        PROVE  \E j \in 1 .. n - 1 : k < j /\ Leaving(reports', d, j)
    <3>1. Enabling(reports, d, k + 1) /\ k + 1 \in 1 .. n
      BY <1>1, <1>2, <2>3
    <3>2. PICK j \in 1 .. n : k + 1 < j /\ Leaving(reports, d, j)
      BY <3>1 DEF HInv, QueueInv
    <3>3. j - 1 \in 1 .. n - 1 /\ k < j - 1 /\ (j - 1) + 1 = j
      BY <1>1, <3>2
    <3>. QED  BY <1>2, <3>2, <3>3
  <2>. QED  BY <1>1, <1>3, <2>1, <2>2, <2>3 DEF QueueInv
<1>7. ASSUME NEW d \in present \ gap, Keyboard(d) PROVE (Settled(d) \/ Coming(d))'
  <2>1. Settled(d) \/ Coming(d)
    BY <1>3, <1>7 DEF HInv, HeardInv, Asked
  <2>2. CASE Settled(d)
    <3>1. \A j \in 1 .. n : ~Leaving(reports, d, j)
      BY <2>2 DEF Settled
    <3>2. ~(r.dev = d /\ Removed(r))
      BY <1>1, <3>1 DEF Leaving
    <3>3. \A j \in 1 .. n - 1 : ~Leaving(reports', d, j)
      BY <1>1, <1>2, <3>1
    <3>4. d \in devs' /\ d \in heard' \cup todo'
      BY <1>3, <1>5, <2>2, <3>2 DEF Settled
    <3>. QED  BY <1>1, <3>3, <3>4 DEF Settled
  <2>3. CASE Coming(d)
    <3>1. PICK i \in 1 .. n :
            /\ Enabling(reports, d, i)
            /\ \A j \in 1 .. n : i < j => ~Leaving(reports, d, j)
            /\ d \in devs => \E j \in 1 .. n : j < i /\ Leaving(reports, d, j)
      BY <2>3 DEF Coming
    <3>2. CASE i = 1
      <4>1. d \notin devs
        BY <3>1, <3>2
      <4>2. r.dev = d /\ r.flag = "DeviceEnabled"
        BY <1>1, <3>1, <3>2 DEF Enabling
      <4>3. adds
        BY <1>7, <4>1, <4>2 DEF Added, Keyboard, Wanted
      <4>4. \A j \in 1 .. n - 1 : ~Leaving(reports', d, j)
        BY <1>1, <1>2, <3>1, <3>2
      <4>. QED  BY <1>1, <1>5, <4>2, <4>3, <4>4 DEF Settled
    <3>3. CASE i # 1
      <4>1. i - 1 \in 1 .. n - 1 /\ (i - 1) + 1 = i
        BY <1>1, <3>3
      <4>2. Enabling(reports', d, i - 1)
        BY <1>2, <3>1, <4>1
      <4>3. \A j \in 1 .. n - 1 : i - 1 < j => ~Leaving(reports', d, j)
        BY <1>1, <1>2, <3>1
      <4>4. ASSUME d \in devs' PROVE \E j \in 1 .. n - 1 : j < i - 1 /\ Leaving(reports', d, j)
        <5>1. \E j \in 1 .. n : 1 < j /\ j < i /\ Leaving(reports, d, j)
          <6>1. CASE d \in devs
            <7>1. PICK j \in 1 .. n : j < i /\ Leaving(reports, d, j)
              BY <3>1, <6>1
            <7>2. CASE j = 1
              <8>1. r.dev = d /\ Removed(r)
                BY <1>1, <7>1, <7>2 DEF Leaving
              <8>2. d \notin devs'
                BY <1>4, <1>5, <8>1
              <8>. QED  BY <4>4, <8>2
            <7>. QED  BY <7>1, <7>2
          <6>2. CASE d \notin devs
            <7>1. adds /\ r.dev = d
              BY <1>5, <4>4, <6>2
            <7>2. Enabling(reports, d, 1) /\ 1 \in 1 .. n /\ 1 < i
              BY <1>1, <1>4, <3>3, <7>1 DEF Enabling
            <7>. QED  BY <1>4, <3>1, <7>1, <7>2 DEF HInv, QueueInv
          <6>. QED  BY <6>1, <6>2
        <5>2. PICK j \in 1 .. n : 1 < j /\ j < i /\ Leaving(reports, d, j)
          BY <5>1
        <5>3. j - 1 \in 1 .. n - 1 /\ j - 1 < i - 1 /\ (j - 1) + 1 = j
          BY <1>1, <5>2
        <5>. QED  BY <1>2, <5>2, <5>3
      <4>. QED  BY <1>1, <4>1, <4>2, <4>3, <4>4 DEF Coming
    <3>. QED  BY <3>2, <3>3
  <2>. QED  BY <2>1, <2>2, <2>3
<1>8. ASSUME NEW d \in devs' \ (present \cup gap)
      PROVE  \E j \in 1 .. Len(reports') : Leaving(reports', d, j)
  <2>1. d \in devs /\ ~(r.dev = d /\ Removed(r))
    BY <1>4, <1>5, <1>8
  <2>2. PICK j \in 1 .. n : Leaving(reports, d, j)
    BY <1>3, <1>8, <2>1 DEF HInv, HeardInv, There
  <2>3. j # 1
    BY <1>1, <2>1, <2>2 DEF Leaving
  <2>4. j - 1 \in 1 .. n - 1 /\ (j - 1) + 1 = j
    BY <1>1, <2>3
  <2>. QED  BY <1>1, <1>2, <2>2, <2>4
<1>9. selected /\ todo = {}
  BY <1>3 DEF HInv, HeardInv, Asked
<1>. QED  BY <1>3, <1>6, <1>7, <1>8, <1>9 DEF HeardInv, Listed, Asked

LEMMA FindHInv == HInv /\ Find => (QueueInv /\ HeardInv)'
<1>. SUFFICES ASSUME HInv, Find PROVE (QueueInv /\ HeardInv)'
  OBVIOUS
<1>1. /\ pc = "find" /\ pc' = "look" /\ todo' = {d \in present : Wanted(d)} /\ devs = {}
      /\ ~selected /\ reports = <<>>
      /\ UNCHANGED <<present, devs, heard, gap, reports, selected>>
  BY DEF HInv, IInv, Deaf, Find, Goto, worldVars
<1>2. QueueInv'
  BY <1>1 DEF QueueInv
<1>. QED  BY <1>1, <1>2 DEF HeardInv, Keyboard, Listed, Asked, There

LEMMA LookHInv ==
  ASSUME NEW d \in Devices, HInv, Look(d) PROVE (QueueInv /\ HeardInv)'
<1>1. /\ pc = "look" /\ pc' \in {"look", "failed"} /\ todo' = todo \ {d}
      /\ UNCHANGED <<present, heard, gap, reports, selected>>
  BY DEF Look, Goto, worldVars
<1>2. QueueInv'
  BY <1>1 DEF HInv, QueueInv
<1>3. CASE pc' = "failed"
  BY <1>1, <1>2, <1>3 DEF HInv, HeardInv, Listed, Asked, There
<1>4. CASE pc' = "look"
  <2>1. /\ devs \subseteq devs' /\ devs' \subseteq devs \cup {d} /\ devs' \ devs \subseteq present
        /\ d \in present /\ Keyboard(d) => d \in devs'
    BY <1>1, <1>4 DEF Look, Goto, Opens, Mark, Keyboard
  <2>2. \A e \in present \ gap : Keyboard(e) => e \in todo' \cup devs'
    BY <1>1, <2>1 DEF HInv, HeardInv
  <2>3. \A e \in devs' \ (present \cup gap) : \E j \in 1 .. Len(reports) : Leaving(reports, e, j)
    BY <1>1, <2>1 DEF HInv, HeardInv, There
  <2>4. ~selected => reports = <<>>
    BY DEF HInv, HeardInv
  <2>. QED  BY <1>1, <1>2, <1>4, <2>2, <2>3, <2>4 DEF HeardInv, Listed, Asked
<1>. QED  BY <1>1, <1>3, <1>4

LEMMA SelectHInv == HInv /\ Select => (QueueInv /\ HeardInv)'
<1>. SUFFICES ASSUME HInv, Select PROVE (QueueInv /\ HeardInv)'
  OBVIOUS
<1>1. /\ pc = "select" /\ pc' = "setup" /\ todo' = devs /\ reports = <<>> /\ selected' = TRUE
      /\ UNCHANGED <<present, devs, heard, gap, reports>>
  BY DEF HInv, IInv, Deaf, Select, Goto
<1>2. QueueInv'
  BY <1>1 DEF QueueInv
<1>3. \A d \in present \ gap : Keyboard(d) => d \in devs
  BY <1>1 DEF HInv, HeardInv, Listed
<1>4. \A d \in devs \ (present \cup gap) : \E j \in 1 .. Len(reports) : Leaving(reports, d, j)
  BY <1>1 DEF HInv, HeardInv, There
<1>. QED  BY <1>1, <1>2, <1>3, <1>4 DEF HeardInv, Settled, Listed, Asked

LEMMA SetupHInv ==
  ASSUME NEW d \in Devices, HInv, Setup(d) PROVE (QueueInv /\ HeardInv)'
<1>1. /\ pc = "setup" /\ pc' \in {"setup", "failed"}
      /\ todo' = todo \ {d} /\ heard' = heard \cup ({d} \cap present)
      /\ UNCHANGED <<present, devs, gap, reports, selected>>
  BY DEF Setup, SelectDevEvents, Goto, worldVars
<1>2. QueueInv'
  BY <1>1 DEF HInv, QueueInv
<1>3. \A e \in present \ gap : Keyboard(e) => Settled(e)' \/ Coming(e)'
  <2>1. \A e \in present : Settled(e) => Settled(e)'
    BY <1>1 DEF Settled
  <2>2. \A e : Coming(e) => Coming(e)'
    BY <1>1 DEF Coming
  <2>3. \A e \in present \ gap : Keyboard(e) => Settled(e) \/ Coming(e)
    BY <1>1 DEF HInv, HeardInv, Asked
  <2>. QED  BY <2>1, <2>2, <2>3
<1>. QED  BY <1>1, <1>2, <1>3 DEF HInv, HeardInv, Listed, Asked, There

\* Steps in which a device comes or goes.
LEMMA PlugHInv ==
  ASSUME NEW d \in Devices, HInv, Plug(d) PROVE (QueueInv /\ HeardInv)'
<1>. DEFINE r1 == Report(d, IF IsSlave(Desc[d].use) THEN "SlaveAdded" ELSE "MasterAdded", FALSE)
            r2 == Report(d, "DeviceEnabled", TRUE)
            n  == Len(reports)
<1>1. /\ r1 \in Reports /\ r2 \in Reports /\ r1.dev = d /\ r2.dev = d
      /\ ~Added(r1) /\ ~Removed(r1) /\ r1.flag # "DeviceEnabled"
      /\ r2.flag = "DeviceEnabled" /\ ~Removed(r2)
  BY DEF Report, Reports, Flags, Added, Removed
<1>2. /\ Told(d, <<r1, r2>>) /\ There /\ d \notin present /\ present' = present \cup {d}
      /\ UNCHANGED <<heard, pc, todo, devs, selected>>
      /\ reports' = IF selected THEN reports \o <<r1, r2>> ELSE reports
      /\ gap' = IF selected \/ pc = "find" THEN gap ELSE gap \cup {d}
  BY DEF Plug, Told
<1>3. CASE ~selected
  <2>1. reports = <<>> /\ reports' = <<>> /\ pc \notin Asked
    BY <1>2, <1>3 DEF HInv, HeardInv
  <2>2. QueueInv'
    BY <2>1 DEF QueueInv
  <2>3. CASE pc = "find"
    BY <1>2, <1>3, <2>1, <2>2, <2>3 DEF HInv, IInv, HeardInv, Listed, Asked
  <2>4. CASE pc # "find"
    <3>1. gap' = gap \cup {d}
      BY <1>2, <1>3, <2>4
    <3>. QED  BY <1>2, <2>1, <2>2, <3>1 DEF HInv, HeardInv, There, Asked, Listed
  <2>. QED  BY <2>3, <2>4
<1>4. CASE selected
  <2>. HIDE DEF r1, r2
  <2>1. /\ reports \in Seq(Reports) /\ pc \notin Listed \cup {"look"}
        /\ gap' = gap /\ reports' = reports \o <<r1, r2>>
    BY <1>2, <1>4 DEF HInv, IInv, Deaf, Listed
  <2>2. /\ n \in Nat /\ Len(reports') = n + 2 /\ reports'[n + 1] = r1 /\ reports'[n + 2] = r2
        /\ \A i \in 1 .. n :
             /\ reports'[i] = reports[i]
             /\ \A e : /\ Leaving(reports', e, i) <=> Leaving(reports, e, i)
                       /\ Enabling(reports', e, i) <=> Enabling(reports, e, i)
    <3>1. /\ n \in Nat /\ Len(reports') = n + 2 /\ reports'[n + 1] = r1 /\ reports'[n + 2] = r2
          /\ \A i \in 1 .. n : reports'[i] = reports[i]
      BY <1>1, <2>1
    <3>2. \A i \in 1 .. n : \A e : /\ Leaving(reports', e, i) <=> Leaving(reports, e, i)
                                   /\ Enabling(reports', e, i) <=> Enabling(reports, e, i)
      BY <3>1 DEF Leaving, Enabling
    <3>. QED  BY <3>1, <3>2
  <2>3. \A i \in 1 .. n + 2 : i \in 1 .. n \/ i = n + 1 \/ i = n + 2
    BY <2>2
  <2>4. /\ \A e : ~Leaving(reports', e, n + 1) /\ ~Leaving(reports', e, n + 2)
        /\ \A e : ~Enabling(reports', e, n + 1)
        /\ \A e : Enabling(reports', e, n + 2) <=> e = d
    BY <1>1, <2>2 DEF Leaving, Enabling
  <2>. HIDE DEF n
  <2>5. QueueInv'
    <3>1. \A i \in 1 .. n + 2 : Added(reports'[i]) => reports'[i].flag = "DeviceEnabled"
      BY <1>1, <2>2, <2>3 DEF HInv, QueueInv, n
    <3>2. ASSUME NEW e \in Devices, NEW k \in 1 .. n + 2, NEW i \in 1 .. n + 2, k < i,
                 Enabling(reports', e, k), Enabling(reports', e, i)
          PROVE  \E j \in 1 .. n + 2 : k < j /\ j < i /\ Leaving(reports', e, j)
      <4>1. k \in 1 .. n /\ Enabling(reports, e, k)
        BY <2>2, <2>3, <2>4, <3>2
      <4>2. CASE i \in 1 .. n
        <5>1. Enabling(reports, e, i)
          BY <2>2, <3>2, <4>2
        <5>2. PICK j \in 1 .. n : k < j /\ j < i /\ Leaving(reports, e, j)
          BY <3>2, <4>1, <4>2, <5>1 DEF HInv, QueueInv, n
        <5>. QED  BY <2>2, <5>2
      <4>3. CASE i = n + 2
        <5>1. e = d
          BY <2>4, <3>2, <4>3
        <5>2. PICK j \in 1 .. n : k < j /\ Leaving(reports, d, j)
          BY <1>2, <4>1, <5>1 DEF HInv, QueueInv, n
        <5>. QED  BY <2>2, <4>3, <5>1, <5>2
      <4>. QED  BY <2>3, <2>4, <3>2, <4>2, <4>3
    <3>3. ASSUME NEW e \in Devices \ present', NEW k \in 1 .. n + 2, Enabling(reports', e, k)
          PROVE  \E j \in 1 .. n + 2 : k < j /\ Leaving(reports', e, j)
      <4>1. e # d /\ e \in Devices \ present
        BY <1>2, <3>3
      <4>2. k \in 1 .. n /\ Enabling(reports, e, k)
        BY <2>2, <2>3, <2>4, <3>3, <4>1
      <4>3. PICK j \in 1 .. n : k < j /\ Leaving(reports, e, j)
        BY <4>1, <4>2 DEF HInv, QueueInv, n
      <4>. QED  BY <2>2, <4>3
    <3>. QED  BY <2>2, <3>1, <3>2, <3>3 DEF QueueInv
  <2>6. ASSUME pc \in Asked, NEW e \in present' \ gap', Keyboard(e) PROVE (Settled(e) \/ Coming(e))'
    <3>1. CASE e = d
      <4>1. e \in devs => \E j \in 1 .. n : Leaving(reports, e, j)
        BY <1>2, <2>1, <2>6, <3>1 DEF HInv, HeardInv, n
      <4>2. ASSUME e \in devs'
            PROVE  \E j \in 1 .. n + 2 : j < n + 2 /\ Leaving(reports', e, j)
        <5>1. PICK j \in 1 .. n : Leaving(reports, e, j)
          BY <1>2, <4>1, <4>2
        <5>2. j \in 1 .. n + 2 /\ j < n + 2 /\ Leaving(reports', e, j)
          BY <2>2, <5>1
        <5>. QED  BY <5>2
      <4>3. n + 2 \in 1 .. n + 2 /\ \A j \in 1 .. n + 2 : ~(n + 2 < j)
        BY <2>2
      <4>. QED  BY <2>2, <2>4, <3>1, <4>2, <4>3 DEF Coming
    <3>2. CASE e # d
      <4>1. Settled(e) \/ Coming(e)
        BY <1>2, <2>1, <2>6, <3>2 DEF HInv, HeardInv
      <4>2. CASE Settled(e)
        BY <1>2, <2>2, <2>3, <2>4, <4>2 DEF Settled, n
      <4>3. CASE Coming(e)
        <5>1. PICK i \in 1 .. n :
                /\ Enabling(reports, e, i)
                /\ \A j \in 1 .. n : i < j => ~Leaving(reports, e, j)
                /\ e \in devs => \E j \in 1 .. n : j < i /\ Leaving(reports, e, j)
          BY <4>3 DEF Coming, n
        <5>2. i \in 1 .. n + 2 /\ Enabling(reports', e, i)
          BY <2>2, <5>1
        <5>3. \A j \in 1 .. n + 2 : i < j => ~Leaving(reports', e, j)
          BY <2>2, <2>3, <2>4, <5>1
        <5>4. ASSUME e \in devs' PROVE \E j \in 1 .. n + 2 : j < i /\ Leaving(reports', e, j)
          <6>1. PICK j \in 1 .. n : j < i /\ Leaving(reports, e, j)
            BY <1>2, <5>1, <5>4
          <6>2. j \in 1 .. n + 2 /\ Leaving(reports', e, j)
            BY <2>2, <6>1
          <6>. QED  BY <6>1, <6>2
        <5>. QED  BY <2>2, <5>2, <5>3, <5>4 DEF Coming
      <4>. QED  BY <4>1, <4>2, <4>3
    <3>. QED  BY <3>1, <3>2
  <2>7. ASSUME NEW e \in devs' \ (present' \cup gap')
        PROVE  \E j \in 1 .. n + 2 : Leaving(reports', e, j)
    <3>1. PICK j \in 1 .. n : Leaving(reports, e, j)
      BY <1>2, <2>1, <2>7 DEF HInv, HeardInv, n
    <3>. QED  BY <2>2, <3>1
  <2>8. (pc \in Asked => selected) /\ (pc \in {"main", "run"} => todo = {})
    BY DEF HInv, HeardInv
  <2>. QED  BY <1>2, <1>4, <2>1, <2>2, <2>5, <2>6, <2>7, <2>8 DEF HeardInv
<1>. QED  BY <1>3, <1>4

LEMMA UnplugHInv ==
  ASSUME NEW d \in Devices, HInv, Unplug(d) PROVE (QueueInv /\ HeardInv)'
<1>. DEFINE r1 == Report(d, "DeviceDisabled", FALSE)
            r2 == Report(d, "SlaveRemoved", FALSE)
            n  == Len(reports)
<1>1. /\ r1 \in Reports /\ r2 \in Reports /\ r1.dev = d /\ r2.dev = d
      /\ ~Added(r1) /\ ~Added(r2) /\ Removed(r1)
      /\ r1.flag # "DeviceEnabled" /\ r2.flag # "DeviceEnabled"
  BY DEF Report, Reports, Flags, Added, Removed
<1>2. /\ Told(d, <<r1, r2>>) /\ There /\ present' = present \ {d} /\ heard' = heard \ {d}
      /\ UNCHANGED <<pc, todo, devs, selected>>
      /\ reports' = IF selected THEN reports \o <<r1, r2>> ELSE reports
      /\ gap' = IF selected \/ pc = "find" THEN gap ELSE gap \cup {d}
  BY DEF Unplug, Told
<1>3. CASE ~selected
  <2>1. reports = <<>> /\ reports' = <<>> /\ pc \notin Asked
    BY <1>2, <1>3 DEF HInv, HeardInv
  <2>2. QueueInv'
    BY <2>1 DEF QueueInv
  <2>3. CASE pc = "find"
    BY <1>2, <1>3, <2>1, <2>2, <2>3 DEF HInv, IInv, HeardInv, Listed, Asked
  <2>4. CASE pc # "find"
    <3>1. gap' = gap \cup {d}
      BY <1>2, <1>3, <2>4
    <3>. QED  BY <1>2, <2>1, <2>2, <3>1 DEF HInv, HeardInv, There, Asked, Listed
  <2>. QED  BY <2>3, <2>4
<1>4. CASE selected
  <2>. HIDE DEF r1, r2
  <2>1. /\ reports \in Seq(Reports) /\ pc \notin Listed \cup {"look"}
        /\ gap' = gap /\ reports' = reports \o <<r1, r2>>
    BY <1>2, <1>4 DEF HInv, IInv, Deaf, Listed
  <2>2. /\ n \in Nat /\ Len(reports') = n + 2 /\ reports'[n + 1] = r1 /\ reports'[n + 2] = r2
        /\ \A i \in 1 .. n :
             /\ reports'[i] = reports[i]
             /\ \A e : /\ Leaving(reports', e, i) <=> Leaving(reports, e, i)
                       /\ Enabling(reports', e, i) <=> Enabling(reports, e, i)
    <3>1. /\ n \in Nat /\ Len(reports') = n + 2 /\ reports'[n + 1] = r1 /\ reports'[n + 2] = r2
          /\ \A i \in 1 .. n : reports'[i] = reports[i]
      BY <1>1, <2>1
    <3>2. \A i \in 1 .. n : \A e : /\ Leaving(reports', e, i) <=> Leaving(reports, e, i)
                                   /\ Enabling(reports', e, i) <=> Enabling(reports, e, i)
      BY <3>1 DEF Leaving, Enabling
    <3>. QED  BY <3>1, <3>2
  <2>3. \A i \in 1 .. n + 2 : i \in 1 .. n \/ i = n + 1 \/ i = n + 2
    BY <2>2
  <2>4. /\ \A e : e # d => ~Leaving(reports', e, n + 1) /\ ~Leaving(reports', e, n + 2)
        /\ Leaving(reports', d, n + 1) /\ n + 1 \in 1 .. n + 2
        /\ \A e : ~Enabling(reports', e, n + 1) /\ ~Enabling(reports', e, n + 2)
    BY <1>1, <2>2 DEF Leaving, Enabling
  <2>. HIDE DEF n
  <2>5. \A e, i : i \in 1 .. n + 2 /\ Enabling(reports', e, i) => i \in 1 .. n /\ Enabling(reports, e, i)
    BY <2>2, <2>3, <2>4
  <2>6. QueueInv'
    <3>1. \A i \in 1 .. n + 2 : Added(reports'[i]) => reports'[i].flag = "DeviceEnabled"
      BY <1>1, <2>2, <2>3 DEF HInv, QueueInv, n
    <3>2. ASSUME NEW e \in Devices, NEW k \in 1 .. n + 2, NEW i \in 1 .. n + 2, k < i,
                 Enabling(reports', e, k), Enabling(reports', e, i)
          PROVE  \E j \in 1 .. n + 2 : k < j /\ j < i /\ Leaving(reports', e, j)
      <4>1. PICK j \in 1 .. n : k < j /\ j < i /\ Leaving(reports, e, j)
        BY <2>5, <3>2 DEF HInv, QueueInv, n
      <4>. QED  BY <2>2, <4>1
    <3>3. ASSUME NEW e \in Devices \ present', NEW k \in 1 .. n + 2, Enabling(reports', e, k)
          PROVE  \E j \in 1 .. n + 2 : k < j /\ Leaving(reports', e, j)
      <4>1. k \in 1 .. n /\ Enabling(reports, e, k)
        BY <2>5, <3>3
      <4>2. CASE e = d
        BY <2>2, <2>4, <4>1, <4>2
      <4>3. CASE e # d
        <5>1. PICK j \in 1 .. n : k < j /\ Leaving(reports, e, j)
          BY <1>2, <3>3, <4>1, <4>3 DEF HInv, QueueInv, n
        <5>. QED  BY <2>2, <5>1
      <4>. QED  BY <4>2, <4>3
    <3>. QED  BY <2>2, <3>1, <3>2, <3>3 DEF QueueInv
  <2>7. ASSUME pc \in Asked, NEW e \in present' \ gap', Keyboard(e) PROVE (Settled(e) \/ Coming(e))'
    <3>1. e # d /\ (Settled(e) \/ Coming(e))
      BY <1>2, <2>1, <2>7 DEF HInv, HeardInv
    <3>2. CASE Settled(e)
      <4>1. \A j \in 1 .. n : ~Leaving(reports, e, j)
        BY <3>2 DEF Settled, n
      <4>2. \A j \in 1 .. n + 2 : ~Leaving(reports', e, j)
        BY <2>2, <2>3, <2>4, <3>1, <4>1
      <4>. QED  BY <1>2, <2>2, <3>1, <3>2, <4>2 DEF Settled
    <3>3. CASE Coming(e)
      <4>1. PICK i \in 1 .. n :
              /\ Enabling(reports, e, i)
              /\ \A j \in 1 .. n : i < j => ~Leaving(reports, e, j)
              /\ e \in devs => \E j \in 1 .. n : j < i /\ Leaving(reports, e, j)
        BY <3>3 DEF Coming, n
      <4>2. i \in 1 .. n + 2 /\ Enabling(reports', e, i)
        BY <2>2, <4>1
      <4>3. \A j \in 1 .. n + 2 : i < j => ~Leaving(reports', e, j)
        BY <2>2, <2>3, <2>4, <3>1, <4>1
      <4>4. ASSUME e \in devs' PROVE \E j \in 1 .. n + 2 : j < i /\ Leaving(reports', e, j)
        <5>1. PICK j \in 1 .. n : j < i /\ Leaving(reports, e, j)
          BY <1>2, <4>1, <4>4
        <5>2. j \in 1 .. n + 2 /\ Leaving(reports', e, j)
          BY <2>2, <5>1
        <5>. QED  BY <5>1, <5>2
      <4>. QED  BY <2>2, <4>2, <4>3, <4>4 DEF Coming
    <3>. QED  BY <3>1, <3>2, <3>3
  <2>8. ASSUME NEW e \in devs' \ (present' \cup gap')
        PROVE  \E j \in 1 .. n + 2 : Leaving(reports', e, j)
    <3>1. CASE e = d
      BY <2>4, <3>1
    <3>2. CASE e # d
      <4>1. PICK j \in 1 .. n : Leaving(reports, e, j)
        BY <1>2, <2>1, <2>8, <3>2 DEF HInv, HeardInv, n
      <4>. QED  BY <2>2, <4>1
    <3>. QED  BY <3>1, <3>2
  <2>9. (pc \in Asked => selected) /\ (pc \in {"main", "run"} => todo = {})
    BY DEF HInv, HeardInv
  <2>. QED  BY <1>2, <1>4, <2>1, <2>2, <2>6, <2>7, <2>8, <2>9 DEF HeardInv
<1>. QED  BY <1>3, <1>4

LEMMA NextHInv == HInv /\ [Next]_vars => HInv'
<1>. SUFFICES ASSUME HInv, [Next]_vars PROVE (QueueInv /\ HeardInv)'
  BY NextIInv DEF HInv
<1>1. CASE Find \/ (\E d \in Devices : Look(d)) \/ Select \/ (\E d \in Devices : Setup(d))
  BY <1>1, FindHInv, LookHInv, SelectHInv, SetupHInv
<1>2. CASE ProcHier \/ (\E d \in Devices : Plug(d) \/ Unplug(d))
  BY <1>2, ProcHierHInv, PlugHInv, UnplugHInv
<1>3. CASE Looked \/ NewMapBuilder \/ IsFile \/ Create \/ WriteExample \/ Read
  <2>1. /\ UNCHANGED <<present, devs, todo, heard, gap, reports, selected>>
        /\ \/ pc \in Listed /\ pc' \in Listed
           \/ pc = "look" /\ todo = {} /\ pc' \in Listed
           \/ pc' = "failed"
    BY <1>3 DEF Looked, NewMapBuilder, IsFile, Create, WriteExample, Read, Goto, Listed,
       devVars, worldVars
  <2>. QED  BY <2>1, Untouched
<1>4. CASE NewSymCode \/ NewMain
  <2>1. /\ UNCHANGED <<present, devs, todo, heard, gap, reports, selected>>
        /\ \/ pc = "setup" /\ todo = {} /\ pc' = "main"
           \/ pc = "main" /\ pc' = "run"
    BY <1>4 DEF NewSymCode, NewMain, Goto, devVars, worldVars
  <2>. QED  BY <2>1, Untouched
<1>5. CASE (\E k \in ToSet(spares) : Lend(k)) \/ Relayout \/ UserWrites \/ UNCHANGED vars
  <2>1. UNCHANGED <<pc, present, devs, todo, heard, gap, reports, selected>>
    BY <1>5 DEF Lend, Relayout, UserWrites, vars, devVars, worldVars
  <2>. QED  BY <2>1, Untouched
<1>6. CASE Quit
  <2>1. pc' = "exited" /\ reports' = <<>>
    BY <1>6 DEF Quit, Goto
  <2>. QED  BY <2>1 DEF QueueInv, HeardInv, Listed, Asked, There
<1>7. CASE Crash
  <2>1. pc' = "find" /\ reports' = <<>> /\ devs' = {}
    BY <1>7 DEF Crash, Fresh
  <2>. QED  BY <2>1 DEF QueueInv, HeardInv, Listed, Asked, There
<1>. QED  BY <1>1, <1>2, <1>3, <1>4, <1>5, <1>6, <1>7 DEF Next

\* Once every report is read, every keyboard there is is listened to, unless
\* it came or went before changes were reported, and nothing is known that
\* has gone (find_dev, setup_device, proc_hier; lib.rs:29-60 and 227-260).
THEOREM HeardThm == Spec => []Heard
<1>1. HInv => Heard
  BY DEF HInv, IInv, HeardInv, Heard, Asked, Settled, Coming, There
<1>. QED  BY InitHInv, NextHInv, <1>1, PTL DEF Spec

\* What is known of the variables no property of its own is about, with what
\* makes it so: a file is "created" only until the example is in it, and once
\* there is a spare keycode there always is.
TypeInv ==
  /\ IInv
  /\ TypeOK
  /\ FromServer(layout) /\ IsKeymap(layout.rows)
  /\ pc = "write" => file # "absent"
  /\ file = "created" => pc = "write"
  /\ pc = "read" => file # "absent"
  /\ pc \in {"select", "setup", "main", "run"} => loaded # "none"
  /\ spares = <<>> \/ (IsKeymap(orig) /\ spares = Spares(orig) /\ defSyms = SymKeyCode(orig))
  /\ spares = <<>> => defSyms = <<>> /\ used = {}
  /\ Deaf \/ pc = "setup" => spares = <<>>
  /\ pc = "main" => spares # <<>> /\ used = {}

\* Lending keycodes, and taking them back, changes no more than their rows.
LEMMA RowsAre ==
  ASSUME FromServer(layout), IsKeymap(layout.rows)
  PROVE  /\ Affirm = [rows |-> [k \in DOMAIN layout.rows |->
                                  IF k \in used THEN Typed ELSE layout.rows[k]],
                      mods |-> layout.mods]
         /\ Drop = [rows |-> [k \in DOMAIN layout.rows |->
                                IF k \in used THEN Emptied(layout.rows[k]) ELSE layout.rows[k]],
                    mods |-> layout.mods]
         /\ \A k : Lent(k) = [rows |-> [j \in DOMAIN layout.rows |->
                                          IF j = k THEN Typed ELSE layout.rows[j]],
                              mods |-> layout.mods]
<1>1. layout = [rows |-> layout.rows, mods |-> layout.mods]
  BY DEF FromServer
<1>2. layout.rows = [k \in DOMAIN layout.rows |-> layout.rows[k]]
  BY DEF IsKeymap
<1>3. Affirm = [layout EXCEPT !.rows = [k \in DOMAIN layout.rows |->
                                          IF k \in used THEN Typed ELSE layout.rows[k]]]
  BY DEF Affirm, Rows
<1>4. Drop = [layout EXCEPT !.rows = [k \in DOMAIN layout.rows |->
                   IF k \in used THEN Emptied(layout.rows[k]) ELSE layout.rows[k]]]
  BY DEF Drop, Rows
<1>5. \A k : Lent(k) = [layout EXCEPT !.rows = [layout.rows EXCEPT ![k] = Typed]]
  BY DEF Lent
<1>6. ASSUME NEW R PROVE [layout EXCEPT !.rows = R] = [rows |-> R, mods |-> layout.mods]
  BY <1>1
<1>7. \A k : [layout.rows EXCEPT ![k] = Typed]
               = [j \in DOMAIN layout.rows |-> IF j = k THEN Typed ELSE layout.rows[j]]
  BY <1>2
<1>. QED  BY <1>3, <1>4, <1>5, <1>6, <1>7

LEMMA KeymapStays ==
  ASSUME FromServer(layout), IsKeymap(layout.rows)
  PROVE  /\ FromServer(Affirm) /\ IsKeymap(Affirm.rows)
         /\ FromServer(Drop) /\ IsKeymap(Drop.rows)
         /\ \A k : FromServer(Lent(k)) /\ IsKeymap(Lent(k).rows)
<1>1. /\ IsKeymap(Affirm.rows) /\ IsKeymap(Drop.rows)
      /\ \A k : IsKeymap(Lent(k).rows)
  BY RowsAre DEF IsKeymap
<1>. QED  BY <1>1, RowsOnly

LEMMA LayoutIs == \A l \in Layouts : FromServer(l) /\ IsKeymap(l.rows)
  BY StartupAssumption DEF FromServer, IsKeymap

LEMMA InitTypeInv == Init => TypeInv
<1>. SUFFICES ASSUME Init PROVE TypeInv
  OBVIOUS
<1>1. IInv
  BY InitIInv
<1>2. TypeOK
  <2>1. <<>> \in Seq(Reports)
    OBVIOUS
  <2>. QED  BY <2>1, StartupAssumption DEF Init, TypeOK, Found, Missing
<1>3. FromServer(layout) /\ IsKeymap(layout.rows)
  BY LayoutIs DEF Init
<1>. QED  BY <1>1, <1>2, <1>3 DEF TypeInv, Init, Deaf

\* The reports of a device that comes or goes.
LEMMA ReportsType ==
  ASSUME reports \in Seq(Reports), NEW d \in Devices, Plug(d) \/ Unplug(d)
  PROVE  reports' \in Seq(Reports)
<1>. DEFINE R(rs) == reports' = (IF selected THEN reports \o rs ELSE reports)
<1>1. \A f \in Flags : \A b \in BOOLEAN : Report(d, f, b) \in Reports
  BY DEF Report, Reports
<1>2. \E r1, r2 \in Reports : R(<<r1, r2>>)
  BY <1>1 DEF Plug, Unplug, Told, Flags
<1>3. PICK r1 \in Reports, r2 \in Reports : R(<<r1, r2>>)
  BY <1>2
<1>. QED  BY <1>3

LEMMA NextTypeInv == TypeInv /\ [Next]_vars => TypeInv'
<1>. SUFFICES ASSUME TypeInv, [Next]_vars PROVE TypeInv'
  OBVIOUS
<1>. USE StartupAssumption DEF Found, Missing, Deaf
<1>0. IInv'
  BY NextIInv DEF TypeInv
<1>1. CASE Find
  BY <1>0, <1>1 DEF TypeInv, TypeOK, Find, worldVars, mapVars, Goto
<1>2. ASSUME NEW d \in Devices, Look(d) PROVE TypeInv'
  BY <1>0, <1>2 DEF TypeInv, TypeOK, Look, Opens, worldVars, mapVars, Goto
<1>3. CASE Looked
  BY <1>0, <1>3 DEF TypeInv, TypeOK, Looked, worldVars, mapVars, devVars, Goto
<1>4. CASE NewMapBuilder
  BY <1>0, <1>4 DEF TypeInv, TypeOK, NewMapBuilder, worldVars, mapVars, devVars, Goto
<1>5. CASE IsFile \/ Create \/ WriteExample \/ Read
  BY <1>0, <1>5 DEF TypeInv, TypeOK, IsFile, Create, WriteExample, Read, worldVars, mapVars, devVars, Goto
<1>6. CASE Select
  BY <1>0, <1>6 DEF TypeInv, TypeOK, Select, mapVars, Goto
<1>7. ASSUME NEW d \in Devices, Setup(d) PROVE TypeInv'
  BY <1>0, <1>7 DEF TypeInv, TypeOK, Setup, SelectDevEvents, worldVars, mapVars, Goto
<1>8. CASE NewSymCode
  <2>1. Spares(CodesSyms) # <<>>
    BY SparesAre DEF TypeInv, CodesSyms
  <2>2. used = {}
    BY <1>8 DEF TypeInv, NewSymCode
  <2>. QED  BY <1>0, <1>8, <2>1 DEF TypeInv, TypeOK, NewSymCode, worldVars, devVars, Goto, CodesSyms
<1>9. CASE NewMain
  BY <1>0, <1>9 DEF TypeInv, TypeOK, NewMain, worldVars, devVars, Goto
<1>10. CASE ProcHier
  <2>1. FromServer(layout') /\ IsKeymap(layout'.rows)
    BY <1>10, KeymapStays DEF TypeInv, ProcHier
  <2>2. reports' \in Seq(Reports)
    BY <1>0 DEF IInv
  <2>3. heard' \subseteq present
    BY <1>10 DEF TypeInv, TypeOK, ProcHier, SelectDevEvents
  <2>4. devs' \subseteq Devices
    BY <1>0 DEF IInv
  <2>. QED  BY <1>0, <1>10, <2>1, <2>2, <2>3, <2>4 DEF TypeInv, TypeOK, ProcHier, mapVars, Goto
<1>11. ASSUME NEW k \in ToSet(spares), Lend(k) PROVE TypeInv'
  <2>1. FromServer(layout') /\ IsKeymap(layout'.rows)
    BY <1>11, KeymapStays DEF TypeInv, Lend
  <2>. QED  BY <1>0, <1>11, <2>1 DEF TypeInv, TypeOK, Lend, devVars
<1>12. CASE Quit
  <2>1. FromServer(layout') /\ IsKeymap(layout'.rows)
    BY <1>12, KeymapStays DEF TypeInv, Quit
  <2>. QED  BY <1>0, <1>12, <2>1 DEF TypeInv, TypeOK, Quit, Goto
<1>13. ASSUME NEW d \in Devices, Plug(d) \/ Unplug(d) PROVE TypeInv'
  <2>1. reports' \in Seq(Reports)
    BY <1>13, ReportsType DEF TypeInv, TypeOK
  <2>2. plugs' \in 0 .. MaxPlugs
    BY <1>13 DEF TypeInv, TypeOK, Plug, Unplug, Told
  <2>. QED  BY <1>0, <1>13, <2>1, <2>2 DEF TypeInv, TypeOK, Plug, Unplug, Told, mapVars
<1>14. CASE Relayout
  <2>1. FromServer(layout') /\ IsKeymap(layout'.rows)
    BY <1>14, LayoutIs DEF Relayout
  <2>. QED  BY <1>0, <1>14, <2>1 DEF TypeInv, TypeOK, Relayout, mapVars, devVars
<1>15. CASE UserWrites
  BY <1>0, <1>15 DEF TypeInv, TypeOK, UserWrites, worldVars, mapVars, devVars
<1>16. CASE Crash
  <2>1. crashes' \in 0 .. MaxCrashes
    BY <1>16 DEF TypeInv, TypeOK, Crash
  <2>. QED  BY <1>0, <1>16, <2>1 DEF TypeInv, TypeOK, Crash, Fresh
<1>17. CASE UNCHANGED vars
  BY <1>0, <1>17 DEF TypeInv, TypeOK, vars, worldVars, mapVars, devVars
<1>. QED
  BY <1>1, <1>2, <1>3, <1>4, <1>5, <1>6, <1>7, <1>8, <1>9, <1>10, <1>11, <1>12, <1>13, <1>14,
     <1>15, <1>16, <1>17 DEF Next

\* Every variable of the start keeps its type: once a device to type with and
\* a keyboard are found there is one, and the loop has a configuration and a
\* keycode to lend (lib.rs:25-70).
THEOREM TypeThm == Spec => []TypeOK
<1>1. TypeInv => TypeOK
  BY DEF TypeInv
<1>. QED  BY InitTypeInv, NextTypeInv, <1>1, PTL DEF Spec

\* The keycodes that are lent and those that def_syms types with have none in
\* common, if the keyboard has a keycode to spare (mod.rs:610-633).
THEOREM SparesFreeThm == Spec => []SparesFree
<1>1. TypeInv => SparesFree
  <2>. SUFFICES ASSUME TypeInv, Unassigned(orig) # <<>>
                PROVE  ToSet(spares) \cap {defSyms[s].code : s \in DOMAIN defSyms} = {}
    BY DEF SparesFree
  <2>1. CASE spares = <<>>
    <3>1. ToSet(spares) = {}
      BY <2>1 DEF ToSet
    <3>. QED  BY <3>1
  <2>2. CASE spares # <<>>
    <3>1. IsKeymap(orig) /\ spares = Spares(orig) /\ defSyms = SymKeyCode(orig)
      BY <2>2 DEF TypeInv
    <3>2. ToSet(spares) \subseteq DOMAIN orig \ InUse(orig)
      BY <3>1, SparesAre
    <3>3. \A s \in DOMAIN defSyms : defSyms[s].code \in InUse(orig)
      BY <3>1, TypedInUse
    <3>. QED  BY <3>2, <3>3
  <2>. QED  BY <2>1, <2>2
<1>. QED  BY InitTypeInv, NextTypeInv, <1>1, PTL DEF Spec

-----------------------------------------------------------------------------
(* The keyboard map *)

\* The map SymCode::new saw, with another row for some keycodes.
Altered(U, row) == [k \in DOMAIN orig |-> IF k \in U THEN row ELSE orig[k]]

\* Unless another map is loaded, it differs from what SymCode::new saw by the
\* keycodes on loan, and by nothing but symbols taken away in the end.
LoanInv ==
  /\ TypeInv
  /\ pc \in {"main", "run"} /\ ~relaid => layout.rows = Altered(used, Typed)
  /\ pc = "exited" /\ ~relaid =>
       \E U \in SUBSET ToSet(spares) : layout.rows = Altered(U, Emptied(Typed))

LEMMA NextLoanInv == LoanInv /\ [Next]_vars => LoanInv'
<1>. SUFFICES ASSUME LoanInv, [Next]_vars PROVE LoanInv'
  OBVIOUS
<1>0. TypeInv /\ TypeInv'
  BY NextTypeInv DEF LoanInv
<1>1. CASE Find \/ (\E d \in Devices : Look(d) \/ Setup(d)) \/ Looked
  BY <1>0, <1>1 DEF LoanInv, Altered, Find, Look, Setup, Looked, worldVars, mapVars, Goto
<1>2. CASE NewMapBuilder \/ IsFile \/ Create \/ WriteExample \/ Read \/ Select
  BY <1>0, <1>2 DEF LoanInv, Altered, NewMapBuilder, IsFile, Create, WriteExample, Read, Select,
     worldVars, mapVars, Goto
<1>3. CASE NewSymCode
  <2>1. used' = {} /\ orig' = layout.rows /\ layout' = layout /\ pc' = "main"
    BY <1>0, <1>3 DEF TypeInv, NewSymCode, worldVars, CodesSyms, Goto, Deaf
  <2>2. layout.rows = [k \in DOMAIN layout.rows |-> layout.rows[k]]
    BY <1>0 DEF TypeInv, IsKeymap
  <2>3. layout'.rows = (Altered(used, Typed))'
    BY <2>1, <2>2 DEF Altered
  <2>. QED  BY <1>0, <2>1, <2>3 DEF LoanInv
<1>4. CASE NewMain
  BY <1>0, <1>4 DEF LoanInv, Altered, NewMain, worldVars, mapVars, Goto
<1>5. CASE ProcHier
  <2>1. used' = used /\ orig' = orig /\ relaid' = relaid /\ pc = "run" /\ pc' \in {"run", "failed"}
    BY <1>5 DEF ProcHier, mapVars, Goto
  <2>2. layout.rows = Altered(used, Typed) => layout'.rows = Altered(used, Typed)
    <3>1. CASE layout' = layout
      BY <3>1
    <3>2. CASE layout' = Affirm
      <4>1. layout'.rows = [k \in DOMAIN layout.rows |->
                              IF k \in used THEN Typed ELSE layout.rows[k]]
        BY <1>0, <3>2, RowsAre DEF TypeInv
      <4>. QED  BY <4>1 DEF Altered
    <3>. QED  BY <1>5, <3>1, <3>2 DEF ProcHier
  <2>. QED  BY <1>0, <2>1, <2>2 DEF LoanInv, Altered
<1>6. ASSUME NEW k \in ToSet(spares), Lend(k) PROVE LoanInv'
  <2>1. /\ used' = used \cup {k} /\ orig' = orig /\ relaid' = relaid /\ pc = "run" /\ pc' = pc
        /\ layout' = Lent(k)
    BY <1>6 DEF Lend
  <2>2. layout'.rows = [j \in DOMAIN layout.rows |-> IF j = k THEN Typed ELSE layout.rows[j]]
    BY <1>0, <2>1, RowsAre DEF TypeInv
  <2>3. layout.rows = Altered(used, Typed) => layout'.rows = Altered(used \cup {k}, Typed)
    BY <2>2 DEF Altered
  <2>. QED  BY <1>0, <2>1, <2>3 DEF LoanInv, Altered
<1>7. CASE Quit
  <2>1. /\ orig' = orig /\ relaid' = relaid /\ pc = "run" /\ pc' = "exited" /\ spares' = spares
        /\ layout' = Drop
    BY <1>7 DEF Quit, Goto
  <2>2. layout'.rows = [j \in DOMAIN layout.rows |->
                          IF j \in used THEN Emptied(layout.rows[j]) ELSE layout.rows[j]]
    BY <1>0, <2>1, RowsAre DEF TypeInv
  <2>3. layout.rows = Altered(used, Typed) => layout'.rows = Altered(used, Emptied(Typed))
    BY <2>2 DEF Altered
  <2>4. used \in SUBSET ToSet(spares)
    BY <1>0 DEF TypeInv, TypeOK
  <2>. QED  BY <1>0, <2>1, <2>3, <2>4 DEF LoanInv, Altered
<1>8. CASE \E d \in Devices : Plug(d) \/ Unplug(d)
  BY <1>0, <1>8 DEF LoanInv, Altered, Plug, Unplug, Told, mapVars
<1>9. CASE Relayout \/ UserWrites \/ Crash \/ UNCHANGED vars
  BY <1>0, <1>9 DEF LoanInv, Altered, Relayout, UserWrites, Crash, Fresh, There, worldVars, mapVars, vars
<1>. QED  BY <1>1, <1>2, <1>3, <1>4, <1>5, <1>6, <1>7, <1>8, <1>9 DEF Next

\* A row without symbols is not in use.
LEMMA EmptiedLevels ==
  ASSUME NEW row, row \in Seq(ToSet(row))
  PROVE  Levels(Emptied(row)) = {}
<1>1. DOMAIN row = 1 .. Len(row) /\ Len(row) \in Nat
  OBVIOUS
<1>2. \A i \in DOMAIN row : 1 \in 1 .. i /\ 1 \in DOMAIN row
  BY <1>1
<1>. QED  BY <1>2 DEF Levels, Emptied

\* kseqi leaves a keyboard map in which the same keys have symbols as before,
\* and those the same ones, if there was a keycode to spare (Drop for SymCode,
\* key_changer.rs:19-32).
THEOREM LeavesMapThm == Spec => []LeavesMap
<1>1. Init => LoanInv
  BY InitTypeInv DEF Init, LoanInv
<1>2. LoanInv => LeavesMap
  <2>. SUFFICES ASSUME LoanInv, pc = "exited", ~relaid, Unassigned(orig) # <<>>
                PROVE  /\ \A k \in InUse(orig) : layout.rows[k] = orig[k]
                       /\ InUse(layout.rows) = InUse(orig)
    BY DEF LeavesMap
  <2>1. PICK U \in SUBSET ToSet(spares) : layout.rows = Altered(U, Emptied(Typed))
    BY DEF LoanInv
  <2>2. U \cap InUse(orig) = {}
    <3>1. CASE spares = <<>>
      BY <2>1, <3>1 DEF ToSet
    <3>2. CASE spares # <<>>
      <4>1. IsKeymap(orig) /\ spares = Spares(orig)
        BY <3>2 DEF LoanInv, TypeInv
      <4>. QED  BY <2>1, <4>1, SparesAre
    <3>. QED  BY <3>1, <3>2
  <2>3. DOMAIN layout.rows = DOMAIN orig
    BY <2>1 DEF Altered
  <2>4. \A k \in DOMAIN orig : k \notin U => layout.rows[k] = orig[k]
    BY <2>1 DEF Altered
  <2>5. \A k \in DOMAIN orig : k \in U => layout.rows[k] = Emptied(Typed)
    BY <2>1 DEF Altered
  <2>6. Levels(Emptied(Typed)) = {}
    BY EmptiedLevels, StartupAssumption
  <2>7. InUse(orig) \subseteq DOMAIN orig
    BY DEF InUse
  <2>8. \A k \in InUse(orig) : layout.rows[k] = orig[k]
    BY <2>2, <2>4, <2>7
  <2>9. \A k \in DOMAIN orig : Levels(layout.rows[k]) # {} <=> Levels(orig[k]) # {}
    <3>. SUFFICES ASSUME NEW k \in DOMAIN orig
                  PROVE  Levels(layout.rows[k]) # {} <=> Levels(orig[k]) # {}
      OBVIOUS
    <3>1. CASE k \in U
      <4>1. Levels(layout.rows[k]) = {}
        BY <2>5, <2>6, <3>1
      <4>2. k \notin InUse(orig)
        BY <2>2, <3>1
      <4>3. Levels(orig[k]) = {}
        BY <4>2 DEF InUse
      <4>. QED  BY <4>1, <4>3
    <3>2. CASE k \notin U
      BY <2>4, <3>2
    <3>. QED  BY <3>1, <3>2
  <2>10. InUse(layout.rows) = InUse(orig)
    BY <2>3, <2>9 DEF InUse
  <2>. QED  BY <2>8, <2>10
<1>. QED  BY <1>1, <1>2, NextLoanInv, PTL DEF Spec
=============================================================================
